--------------------------- MODULE AsteroidsLobby ---------------------------
(* The Asteroids game: main of the Server (Server/Source/server.cpp),      *)
(* which opens a socket, fills a lobby and then relays what the players    *)
(* send, and the three threads of a client that share one UDP socket:      *)
(* ConnectToServer, the main loop with WaitForStart, and                   *)
(* AsteroidsDataTransfer.  Datagrams may be lost, delayed and reordered.   *)
(* Left out: what the datagrams say of ships, bullets and asteroids.       *)
EXTENDS Integers, Sequences

CONSTANTS
  Client,       (* the client instances, and their addresses *)
  MaxPlayers,   (* MAX_PLAYERS *)
  Offline,      (* bound: the clients whose player may press the space bar *)
  Leaver,       (* bound: the clients whose player may close the window *)
  Failing,      (* bound: the clients whose socket calls may fail *)
  MaxHello      (* bound: how many hellos all clients broadcast *)

ASSUME BoundsAssumption == MaxPlayers \in Nat \ {0, 1} /\ MaxHello \in Nat
ASSUME PlayersAssumption == Offline \cup Leaver \cup Failing \subseteq Client

VARIABLES
  server,         (* where main of the server is; game_start is "relay" *)
  winsock,        (* WSAStartup has not been undone on the server *)
  udp_listener_socket,   (* whether the server's socket is "open" *)
  clients,        (* the address of every ClientInfo; its player_num is its index *)
  turn,           (* the ClientInfo for which the relay waits in recvfrom *)
  unreachable,    (* a datagram met a closed socket: the next recvfrom fails *)
  net,            (* the datagrams in flight *)
  app,            (* whether the client program runs, has quit or has crashed *)
  hellos,         (* how many hellos the clients have sent *)
  connect,        (* where the thread of ConnectToServer is *)
  response,       (* recvBuffer of that thread *)
  broadcast_socket,   (* whether the client's socket is "open" *)
  main,           (* where the main thread is *)
  data,           (* where the thread of AsteroidsDataTransfer is *)
  av_connected, av_start, av_player_num, av_player_max   (* the shared atomics *)

resources == <<winsock, udp_listener_socket>>
serverVars == <<server, resources, clients, turn, unreachable>>
atomics == <<av_connected, av_start, av_player_num, av_player_max>>
vars == <<serverVars, net, app, hellos, connect, response, broadcast_socket,
          main, data, atomics>>

Hello(c, k) == [type |-> "hello", from |-> c, k |-> k]
Data(c) == [type |-> "data", from |-> c]

(* A number in decimal: the answer to a hello and the start signal look    *)
(* the same.  k tells the texts to one address apart.                      *)
Text(c, n, k) == [type |-> "text", to |-> c, n |-> n, k |-> k]
Relay(c) == [type |-> "relay", to |-> c]

Slot == 1 .. MaxPlayers
ToServer ==
  {Hello(c, k) : c \in Client, k \in 1 .. MaxHello} \cup {Data(c) : c \in Client}
ToClient(c) ==
  {Text(c, n, k) : n \in 0 .. MaxPlayers, k \in Slot} \cup {Relay(c)}
Datagram == ToServer \cup UNION {ToClient(c) : c \in Client}
Nothing == [type |-> "nothing"]

TypeOK ==
  /\ server \in {"start", "name", "socket", "bind", "lobby", "relay", "down"}
  /\ winsock \in BOOLEAN
  /\ udp_listener_socket \in {"none", "open", "closed"}
  /\ clients \in Seq(Client) /\ Len(clients) <= MaxPlayers
  /\ server = "relay" => Len(clients) = MaxPlayers
  /\ turn \in Slot
  /\ unreachable \in BOOLEAN
  /\ net \subseteq Datagram
  /\ app \in [Client -> {"runs", "quit", "crashed"}]
  /\ hellos \in 0 .. MaxHello
  /\ connect \in [Client -> {"none", "hello", "receive", "store", "done"}]
  /\ \A c \in Client : response[c] \in ToClient(c) \cup {Nothing}
  /\ broadcast_socket \in [Client -> {"none", "open", "closed"}]
  /\ main \in [Client -> {"init", "frame", "offline"}]
  /\ data \in [Client -> {"none", "spin", "receive", "ended"}]
  /\ av_connected \in [Client -> BOOLEAN]
  /\ av_start \in [Client -> BOOLEAN]
  /\ av_player_num \in [Client -> -1 .. MaxPlayers]
  /\ av_player_max \in [Client -> -1 .. MaxPlayers]

Init ==
  /\ server = "start"
  /\ winsock = FALSE
  /\ udp_listener_socket = "none"
  /\ clients = <<>>
  /\ turn = 1
  /\ unreachable = FALSE
  /\ net = {}
  /\ app = [c \in Client |-> "runs"]
  /\ hellos = 0
  /\ connect = [c \in Client |-> "none"]
  /\ response = [c \in Client |-> Nothing]
  /\ broadcast_socket = [c \in Client |-> "none"]
  /\ main = [c \in Client |-> "init"]
  /\ data = [c \in Client |-> "none"]
  /\ av_connected = [c \in Client |-> FALSE]
  /\ av_start = [c \in Client |-> FALSE]
  /\ av_player_num = [c \in Client |-> -1]
  /\ av_player_max = [c \in Client |-> -1]

-----------------------------------------------------------------------------
(* The network.  A datagram that nobody receives is lost; Lose makes room  *)
(* for the next datagram of a client's data thread.  A datagram that       *)
(* reaches the port of a client that has gone makes the server's next      *)
(* recvfrom fail.                                                          *)

clientVars == <<app, hellos, connect, response, broadcast_socket, main, data, atomics>>

threads == <<connect, response, main, data>>

Bound(c) == broadcast_socket[c] = "open"

(* closesocket and WSACleanup, by whichever thread of the client. *)
CloseSocket(c) == broadcast_socket' = [broadcast_socket EXCEPT ![c] = "closed"]

(* The end of a process is the end of its threads and its socket. *)
Ends(c, how) ==
  /\ app' = [app EXCEPT ![c] = how]
  /\ CloseSocket(c)
  /\ connect' = [connect EXCEPT ![c] = "done"]
  /\ response' = [response EXCEPT ![c] = Nothing]
  /\ main' = [main EXCEPT ![c] = "frame"]
  /\ data' = [data EXCEPT ![c] = "ended"]

Lose(c) ==
  /\ net' = net \ {Data(c)}
  /\ UNCHANGED <<serverVars, clientVars>>

Refuse(c, m) ==
  /\ m \in ToClient(c) /\ ~Bound(c)
  /\ net' = net \ {m}
  /\ unreachable' = TRUE
  /\ UNCHANGED <<server, resources, clients, turn, clientVars>>

-----------------------------------------------------------------------------
(* main of the server.                                                     *)

Startup ==
  /\ server = "start"
  /\ \/ server' = "name" /\ winsock' = TRUE
     \/ server' = "down" /\ UNCHANGED winsock
  /\ UNCHANGED <<udp_listener_socket, clients, turn, unreachable, net, clientVars>>

(* gethostname, getaddrinfo and getnameinfo, each of which may fail. *)
FindName ==
  /\ server = "name"
  /\ \/ server' = "socket" /\ UNCHANGED winsock
     \/ server' = "down" /\ winsock' = FALSE
  /\ UNCHANGED <<udp_listener_socket, clients, turn, unreachable, net, clientVars>>

CreateSocket ==
  /\ server = "socket"
  /\ \/ server' = "bind" /\ udp_listener_socket' = "open" /\ UNCHANGED winsock
     \/ server' = "down" /\ winsock' = FALSE /\ UNCHANGED udp_listener_socket
  /\ UNCHANGED <<clients, turn, unreachable, net, clientVars>>

(* The server goes on without a socket; its first recvfrom then fails. *)
BindSocket ==
  /\ server = "bind"
  /\ server' = "lobby"
  /\ udp_listener_socket' \in {"open", "closed"}
  /\ UNCHANGED <<winsock, clients, turn, unreachable, net, clientVars>>

(* In the lobby every datagram, whoever sends it and however often, is     *)
(* answered with the number of players so far and takes a slot; the last   *)
(* slot sends the start signal to all slots.                               *)
Admit(m, number) ==
  /\ server = "lobby" /\ udp_listener_socket = "open"
  /\ m \in ToServer
  /\ clients' = Append(clients, m.from)
  /\ LET k == Len(clients') IN
     IF k < MaxPlayers
     THEN /\ net' = (net \ {m}) \cup {Text(m.from, number, k)}
          /\ UNCHANGED server
     ELSE /\ net' = (net \ {m}) \cup {Text(m.from, number, k)}
                      \cup {Text(clients'[i], MaxPlayers, i) : i \in Slot}
          /\ server' = "relay"
  /\ UNCHANGED <<resources, turn, unreachable, clientVars>>

AdmitCountedFirst(m) == Admit(m, Len(clients) + 1)
AdmitPlayer(m) == Admit(m, Len(clients))

LobbyError ==
  /\ server = "lobby"
  /\ unreachable \/ udp_listener_socket # "open"
  /\ server' = "down"
  /\ udp_listener_socket' = "closed"
  /\ winsock' = FALSE
  /\ unreachable' = FALSE
  /\ UNCHANGED <<clients, turn, net, clientVars>>

(* SendPlayersPosToAllClients waits for one datagram per slot, writes the  *)
(* address of whoever sent it into the slot, and after the last slot sends *)
(* the collected data to the address in every slot.                        *)
TurnBefore(last, addresses, received) ==
  IF turn < last
  THEN /\ turn' = turn + 1
       /\ net' = net \ received
  ELSE /\ turn' = 1
       /\ net' = (net \ received) \cup {Relay(addresses[k]) : k \in Slot}

NextTurnOffByOne(addresses, received) == TurnBefore(MaxPlayers + 1, addresses, received)
NextTurn(addresses, received) == TurnBefore(MaxPlayers, addresses, received)

RelayReceiveFrom(m, senders) ==
  /\ server = "relay"
  /\ m \in ToServer /\ m.from \in senders
  /\ clients' = [clients EXCEPT ![turn] = m.from]
  /\ NextTurn(clients', {m})
  /\ UNCHANGED <<server, resources, unreachable, clientVars>>

RelayReceiveOwn(m) == RelayReceiveFrom(m, {clients[turn]})
RelayReceive(m) == RelayReceiveFrom(m, Client)

RelayError ==
  /\ server = "relay"
  /\ unreachable
  /\ unreachable' = FALSE
  /\ NextTurn(clients, {})
  /\ UNCHANGED <<server, resources, clients, clientVars>>

-----------------------------------------------------------------------------
(* ConnectToServer.                                                        *)

(* WinMain ignores that there is no socket and starts the thread.          *)
InitClient(c) ==
  /\ app[c] = "runs" /\ main[c] = "init"
  /\ broadcast_socket' \in
       {[broadcast_socket EXCEPT ![c] = s] :
          s \in IF c \in Failing THEN {"none", "open"} ELSE {"open"}}
  /\ connect' = [connect EXCEPT ![c] = "hello"]
  /\ main' = [main EXCEPT ![c] = "frame"]
  /\ UNCHANGED <<serverVars, net, app, hellos, response, data, atomics>>

(* An error of setsockopt, sendto or recvfrom that is no timeout: the      *)
(* thread closes the socket all threads use, and ends.                     *)
ConnectFailsAt(places) ==
  \E c \in Failing :
    /\ app[c] = "runs" /\ connect[c] \in places
    /\ CloseSocket(c)
    /\ connect' = [connect EXCEPT ![c] = "done"]
    /\ UNCHANGED <<serverVars, net, app, hellos, response, main, data, atomics>>

ConnectFailsAnswered == ConnectFailsAt({"hello", "receive", "store"})
ConnectFails == ConnectFailsAt({"hello", "receive"})

(* The first hello, or after the timeout of recvfrom another one. *)
BroadcastHello(c) ==
  /\ Bound(c) /\ connect[c] \in {"hello", "receive"}
  /\ ~av_connected[c] /\ ~av_start[c]
  /\ hellos < MaxHello
  /\ hellos' = hellos + 1
  /\ net' = net \cup {Hello(c, hellos')}
  /\ connect' = [connect EXCEPT ![c] = "receive"]
  /\ UNCHANGED <<serverVars, app, response, broadcast_socket, main, data, atomics>>

StopConnecting(c) ==
  /\ Bound(c) /\ connect[c] \in {"hello", "receive"}
  /\ av_connected[c] \/ av_start[c]
  /\ connect' = [connect EXCEPT ![c] = "done"]
  /\ UNCHANGED <<serverVars, net, app, hellos, response, broadcast_socket, main, data, atomics>>

(* av_connected is set before av_player_num. *)
HelloAnswered(c, m) ==
  /\ Bound(c) /\ connect[c] = "receive"
  /\ m \in ToClient(c)
  /\ net' = net \ {m}
  /\ response' = [response EXCEPT ![c] = m]
  /\ av_connected' = [av_connected EXCEPT ![c] = TRUE]
  /\ connect' = [connect EXCEPT ![c] = "store"]
  /\ UNCHANGED <<serverVars, app, hellos, broadcast_socket, main, data,
                 av_start, av_player_num, av_player_max>>

(* stoi throws on a datagram that is no number, and nothing catches it. *)
StoreNumber(c) ==
  /\ app[c] = "runs" /\ connect[c] = "store"
  /\ \/ /\ response[c].type = "text"
        /\ av_player_num' = [av_player_num EXCEPT ![c] = response[c].n]
        /\ connect' = [connect EXCEPT ![c] = "done"]
        /\ response' = [response EXCEPT ![c] = Nothing]
        /\ UNCHANGED <<app, broadcast_socket, main, data>>
     \/ /\ response[c].type = "relay"
        /\ Ends(c, "crashed")
        /\ UNCHANGED av_player_num
  /\ UNCHANGED <<serverVars, net, hellos, av_connected, av_start, av_player_max>>

-----------------------------------------------------------------------------
(* The main loop of the client.                                            *)

(* The space bar starts the single player game: av_start, and only then    *)
(* av_connected, while the other threads go on.                            *)
SpaceBar(c) ==
  /\ c \in Offline
  /\ app[c] = "runs" /\ main[c] = "frame"
  /\ ~av_start[c]
  /\ av_start' = [av_start EXCEPT ![c] = TRUE]
  /\ main' = [main EXCEPT ![c] = "offline"]
  /\ UNCHANGED <<serverVars, net, app, hellos, connect, response, broadcast_socket, data,
                 av_connected, av_player_num, av_player_max>>

GoOffline(c) ==
  /\ app[c] = "runs" /\ main[c] = "offline"
  /\ av_connected' = [av_connected EXCEPT ![c] = FALSE]
  /\ main' = [main EXCEPT ![c] = "frame"]
  /\ UNCHANGED <<serverVars, net, app, hellos, connect, response, broadcast_socket, data,
                 av_start, av_player_num, av_player_max>>

(* One call, or after timeouts several calls, of WaitForStart: any number  *)
(* is a start signal.                                                      *)
WaitForStart(c, m) ==
  /\ Bound(c) /\ main[c] = "frame"
  /\ ~av_start[c] /\ av_connected[c]
  /\ m \in ToClient(c)
  /\ net' = net \ {m}
  /\ \/ /\ m.type = "text"
        /\ av_player_max' = [av_player_max EXCEPT ![c] = m.n]
        /\ av_start' = [av_start EXCEPT ![c] = TRUE]
        /\ UNCHANGED <<app, broadcast_socket, threads>>
     \/ /\ m.type = "relay"
        /\ Ends(c, "crashed")
        /\ UNCHANGED <<av_player_max, av_start>>
  /\ UNCHANGED <<serverVars, hellos, av_connected, av_player_num>>

(* An error of setsockopt: the next frame calls WaitForStart again. *)
WaitForStartFails ==
  \E c \in Failing :
    /\ Bound(c) /\ main[c] = "frame"
    /\ ~av_start[c] /\ av_connected[c]
    /\ CloseSocket(c)
    /\ UNCHANGED <<serverVars, net, app, hellos, threads, atomics>>

Quit(c) ==
  /\ c \in Leaver
  /\ app[c] = "runs" /\ main[c] = "frame"
  /\ Ends(c, "quit")
  /\ UNCHANGED <<serverVars, net, hellos, atomics>>

-----------------------------------------------------------------------------
(* AsteroidsDataTransfer.                                                  *)

Playing(c) == app[c] = "runs" /\ av_connected[c] /\ av_start[c]
InLoop(c) == Playing(c) /\ data[c] \in {"spin", "receive"}
Fails(c) == c \in Failing \/ ~Bound(c)

(* The options of the socket, before the loop. *)
PrepareData(c) ==
  /\ app[c] = "runs" /\ main[c] # "init" /\ data[c] = "none"
  /\ \/ /\ Bound(c)
        /\ data' = [data EXCEPT ![c] = "spin"]
        /\ UNCHANGED broadcast_socket
     \/ /\ Fails(c)
        /\ data' = [data EXCEPT ![c] = "ended"]
        /\ CloseSocket(c)
  /\ UNCHANGED <<serverVars, net, app, hellos, connect, response, main, atomics>>

(* An error of sendto ends the thread; the game goes on without it. *)
SendFails(c) ==
  /\ InLoop(c) /\ Fails(c)
  /\ data' = [data EXCEPT ![c] = "ended"]
  /\ CloseSocket(c)
  /\ UNCHANGED <<serverVars, net, app, hellos, connect, response, main, atomics>>

(* The data of the next loop, or after the timeout of recvfrom. *)
SendData(c) ==
  /\ InLoop(c) /\ Bound(c)
  /\ net' = net \cup {Data(c)}
  /\ data' = [data EXCEPT ![c] = "receive"]
  /\ UNCHANGED <<serverVars, app, hellos, connect, response, broadcast_socket,
                 main, atomics>>

(* A number is no command and is ignored; for the relayed players a vector *)
(* of av_player_max elements is made, which throws if that is still -1.    *)
ReceiveData(c, m) ==
  /\ Bound(c) /\ data[c] = "receive"
  /\ m \in ToClient(c)
  /\ net' = net \ {m}
  /\ \/ /\ m.type = "relay" /\ av_player_max[c] = -1
        /\ Ends(c, "crashed")
     \/ /\ ~(m.type = "relay" /\ av_player_max[c] = -1)
        /\ data' = [data EXCEPT ![c] = "spin"]
        /\ UNCHANGED <<app, broadcast_socket, connect, response, main>>
  /\ UNCHANGED <<serverVars, hellos, atomics>>

-----------------------------------------------------------------------------
ServerReceive(m) == AdmitPlayer(m) \/ RelayReceive(m)

ConnectToServer(c) ==
  \/ BroadcastHello(c) \/ StopConnecting(c) \/ StoreNumber(c)
  \/ \E m \in net : HelloAnswered(c, m)

MainLoop(c) ==
  \/ InitClient(c) \/ SpaceBar(c) \/ GoOffline(c) \/ Quit(c)
  \/ \E m \in net : WaitForStart(c, m)

DataLoop(c) == PrepareData(c) \/ SendData(c) \/ SendFails(c)
DataTransfer(c) == DataLoop(c) \/ \E m \in net : ReceiveData(c, m)

Next ==
  \/ \E m \in net : ServerReceive(m)
  \/ Startup \/ FindName \/ CreateSocket \/ BindSocket
  \/ LobbyError \/ RelayError
  \/ ConnectFails \/ WaitForStartFails
  \/ \E c \in Client : \/ ConnectToServer(c) \/ MainLoop(c) \/ DataTransfer(c)
                       \/ Lose(c)
                       \/ \E m \in net : Refuse(c, m)

Spec == Init /\ [][Next]_vars

(* The threads run, and of the data a client sends for ever some arrives.  *)
FairSpec ==
  /\ Spec
  /\ \A c \in Client :
       /\ WF_vars(DataLoop(c))
       /\ SF_vars(\E m \in net : m = Data(c) /\ ServerReceive(m))

-----------------------------------------------------------------------------
(* Properties.                                                             *)

(* The number a client was told, read as text and stored by one thread     *)
(* while another one uses it, is the slot the server keeps for it, however *)
(* often the client had to repeat its hello.                               *)
NumberIsSlot ==
  \A c \in Client :
    server = "lobby" /\ av_player_num[c] # -1 =>
      /\ av_player_num[c] < Len(clients)
      /\ clients[av_player_num[c] + 1] = c

(* Two clients never play under the same player number, also when the      *)
(* relay has written other addresses into the slots.                       *)
NumbersUnique ==
  \A c, d \in Client :
    c # d /\ av_player_num[c] = av_player_num[d] =>
      av_player_num[c] \in {-1, MaxPlayers}

(* Players have numbers of their own: those of their slots.                *)
NumbersAgree == NumberIsSlot /\ NumbersUnique

(* Every way out of the server's main gives back what it took from         *)
(* Winsock: from which call it came and whether bind had failed does not   *)
(* matter.                                                                 *)
ServerReleases ==
  server = "down" => ~winsock /\ udp_listener_socket # "open"

(* Three threads use the one socket of a client, and an error in any of    *)
(* them closes it.  The others never close it under the data thread while  *)
(* that waits for an answer, whatever failed before and however late the   *)
(* answer that connects the client came.                                   *)
SocketKept ==
  \A c \in Client :
    app[c] = "runs" /\ data[c] = "receive" => broadcast_socket[c] = "open"

(* No path leaves the server's socket open to nobody, or takes a client's  *)
(* from the thread that plays with it.                                     *)
SocketsInOrder == ServerReleases /\ SocketKept

(* A client whose data takes part in the relay.  After an error of its     *)
(* socket a client plays on, but sends no more.                            *)
Sends(c) == Playing(c) /\ data[c] # "ended"

(* The relay waits for one datagram per slot without a timeout.  It never  *)
(* waits for ever while some client sends, whoever else has quit or lost   *)
(* its socket: that client's timeouts make it send again and fill the      *)
(* turns of the others.                                                    *)
RelayContinues ==
  \A k \in Slot :
    server = "relay" /\ turn = k /\ (\E c \in Client : Sends(c)) ~>
      turn # k \/ ~\E c \in Client : Sends(c)

-----------------------------------------------------------------------------
(* README.txt:71: "The game will start automatically once all clients are  *)
(* connected": when a client starts the game with others, the lobby of the *)
(* server is full.                                                         *)
StartsWhenAllConnected ==
  \A c \in Client : av_player_max[c] # -1 => server = "relay"
=============================================================================
