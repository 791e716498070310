----------------------- MODULE AsteroidsLobby_proofs -----------------------
(* The lobby for any number of clients, slots and hellos: its types, that  *)
(* the numbers the players go by are their slots and their own, and that   *)
(* no way through the server or the three threads of a client leaves a     *)
(* socket in the wrong state.                                              *)
EXTENDS AsteroidsLobby, SequenceTheorems, TLAPS

-----------------------------------------------------------------------------
(* The invariants.                                                         *)

ServerTypes ==
  /\ server \in {"start", "name", "socket", "bind", "lobby", "relay", "down"}
  /\ winsock \in BOOLEAN
  /\ udp_listener_socket \in {"none", "open", "closed"}
  /\ clients \in Seq(Client) /\ Len(clients) <= MaxPlayers
  /\ server \notin {"relay", "down"} => Len(clients) < MaxPlayers
  /\ server = "relay" => Len(clients) = MaxPlayers
  /\ turn \in Slot
  /\ unreachable \in BOOLEAN

(* TypeOK says nothing of the domain of response. *)
ClientTypes ==
  /\ app \in [Client -> {"runs", "quit", "crashed"}]
  /\ hellos \in 0 .. MaxHello
  /\ connect \in [Client -> {"none", "hello", "receive", "store", "done"}]
  /\ response \in [Client -> Datagram \cup {Nothing}]
  /\ \A c \in Client : response[c] \in ToClient(c) \cup {Nothing}
  /\ broadcast_socket \in [Client -> {"none", "open", "closed"}]
  /\ main \in [Client -> {"init", "frame", "offline"}]
  /\ data \in [Client -> {"none", "spin", "receive", "ended"}]
  /\ av_connected \in [Client -> BOOLEAN]
  /\ av_start \in [Client -> BOOLEAN]
  /\ av_player_num \in [Client -> -1 .. MaxPlayers]
  /\ av_player_max \in [Client -> -1 .. MaxPlayers]

Types == ServerTypes /\ ClientTypes /\ net \subseteq Datagram

(* The client has the number, in whatever form: on its way to the client,  *)
(* in the buffer of the thread that will store it, or stored.              *)
Told(c, n) ==
  \/ \E k \in Slot : Text(c, n, k) \in net
  \/ response[c].type = "text" /\ response[c].n = n
  \/ av_player_num[c] = n /\ n # -1

(* Until the start signal is sent every number that is told is a slot of   *)
(* its client.                                                             *)
SlotsTold ==
  server \notin {"relay", "down"} =>
    \A c \in Client, n \in 0 .. MaxPlayers :
      Told(c, n) => n < Len(clients) /\ clients[n + 1] = c

(* No number but that of the start signal is told to two clients. *)
OneOwner ==
  \A c, d \in Client, n \in 0 .. MaxPlayers - 1 : Told(c, n) /\ Told(d, n) => c = d

(* What the server has of Winsock before it goes down. *)
Acquired ==
  /\ server = "start" => ~winsock
  /\ server \in {"start", "name", "socket"} => udp_listener_socket # "open"

(* A client that is connected has left the loop of ConnectToServer by the *)
(* exit that leaves the socket open, and one whose data thread has sent    *)
(* calls WaitForStart no more.                                             *)
Connected ==
  \A c \in Client :
    /\ app[c] = "runs" /\ av_connected[c] => connect[c] \in {"store", "done"}
    /\ app[c] = "runs" /\ data[c] = "receive" =>
         av_start[c] /\ connect[c] \in {"store", "done"} /\ broadcast_socket[c] = "open"
    /\ main[c] = "init" => ~av_connected[c] /\ connect[c] = "none" /\ data[c] # "receive"

-----------------------------------------------------------------------------
(* Datagrams.                                                              *)

(* A datagram to a client is a number or relayed data.                     *)
LEMMA ClientDatagrams ==
  ASSUME NEW c \in Client, NEW m \in ToClient(c)
  PROVE  /\ m \in Datagram
         /\ m.type \in {"text", "relay"}
         /\ m.type = "text" =>
              m.n \in 0 .. MaxPlayers /\ \E k \in Slot : m = Text(c, m.n, k)
<1>1. m \in Datagram
  BY DEF Datagram
<1>2. CASE \E n \in 0 .. MaxPlayers, k \in Slot : m = Text(c, n, k)
  <2>1. PICK n \in 0 .. MaxPlayers, k \in Slot : m = Text(c, n, k)
    BY <1>2
  <2>2. m.type = "text" /\ m.n = n
    BY <2>1 DEF Text
  <2>3. QED  BY <1>1, <2>1, <2>2
<1>3. CASE m = Relay(c)
  BY <1>1, <1>3 DEF Relay
<1>4. QED  BY <1>2, <1>3 DEF ToClient

LEMMA Sent ==
  /\ \A c \in Client, k \in 1 .. MaxHello : Hello(c, k) \in Datagram
  /\ \A c \in Client : Data(c) \in Datagram
  /\ \A c \in Client, n \in 0 .. MaxPlayers, k \in Slot : Text(c, n, k) \in Datagram
  /\ \A c \in Client : Relay(c) \in Datagram
<1>1. \A c \in Client, k \in 1 .. MaxHello : Hello(c, k) \in Datagram
  BY DEF Datagram, ToServer
<1>2. \A c \in Client : Data(c) \in Datagram
  BY DEF Datagram, ToServer
<1>3. \A c \in Client, n \in 0 .. MaxPlayers, k \in Slot : Text(c, n, k) \in Datagram
  BY DEF Datagram, ToClient
<1>4. \A c \in Client : Relay(c) \in Datagram
  BY DEF Datagram, ToClient
<1>5. QED  BY <1>1, <1>2, <1>3, <1>4

(* A datagram to the server names its sender. *)
LEMMA Senders ==
  ASSUME NEW m \in ToServer
  PROVE  m.from \in Client
BY DEF ToServer, Hello, Data

(* Texts of different clients or numbers differ. *)
LEMMA TextsDiffer ==
  ASSUME NEW c, NEW n, NEW k, NEW d, NEW o, NEW j, Text(c, n, k) = Text(d, o, j)
  PROVE  c = d /\ n = o /\ k = j
<1>1. Text(c, n, k).to = Text(d, o, j).to /\ Text(c, n, k).n = Text(d, o, j).n
      /\ Text(c, n, k).k = Text(d, o, j).k
  OBVIOUS
<1>2. QED  BY <1>1 DEF Text

LEMMA RelayIsNoText ==
  ASSUME NEW c, NEW n, NEW k, NEW d
  PROVE  Text(c, n, k) # Relay(d)
<1>1. Text(c, n, k).type = "text" /\ Relay(d).type = "relay"
  BY DEF Text, Relay
<1>2. QED  BY <1>1

LEMMA ClientsSentAreNoTexts ==
  ASSUME NEW c, NEW n, NEW k, NEW m \in ToServer
  PROVE  Text(c, n, k) # m
<1>1. m.type \in {"hello", "data"}
  BY DEF ToServer, Hello, Data
<1>2. Text(c, n, k).type = "text"
  BY DEF Text
<1>3. QED  BY <1>1, <1>2

(* The clients after the lobby has taken one more. *)
LEMMA Appended ==
  ASSUME clients \in Seq(Client), NEW x \in Client
  PROVE  /\ Append(clients, x) \in Seq(Client)
         /\ Len(Append(clients, x)) = Len(clients) + 1
         /\ \A i \in 1 .. Len(clients) : Append(clients, x)[i] = clients[i]
         /\ Append(clients, x)[Len(clients) + 1] = x
OBVIOUS

-----------------------------------------------------------------------------
(* Types.                                                                  *)

LEMMA InitTypes == Init => Types
<1> SUFFICES ASSUME Init PROVE Types
  OBVIOUS
<1> USE BoundsAssumption DEF BoundsAssumption
<1>1. ServerTypes
  <2>1. <<>> \in Seq(Client) /\ Len(<<>>) = 0
    BY EmptySeq
  <2>2. clients \in Seq(Client) /\ Len(clients) = 0
    BY <2>1 DEF Init
  <2>3. MaxPlayers \in Nat /\ 0 < MaxPlayers
    OBVIOUS
  <2>4. Len(clients) <= MaxPlayers /\ Len(clients) < MaxPlayers
    BY <2>2, <2>3
  <2>5. turn \in Slot
    BY <2>3 DEF Init, Slot
  <2>6. /\ server = "start" /\ winsock \in BOOLEAN /\ unreachable \in BOOLEAN
        /\ udp_listener_socket = "none"
    BY DEF Init
  <2>7. QED  BY <2>2, <2>4, <2>5, <2>6 DEF ServerTypes
<1>2. ClientTypes
  BY DEF Init, ClientTypes
<1>3. QED  BY <1>1, <1>2 DEF Init, Types

LEMMA ServerTypesKept == Types /\ [Next]_vars => ServerTypes'
<1> SUFFICES ASSUME Types, [Next]_vars PROVE ServerTypes'
  OBVIOUS
<1> USE BoundsAssumption DEF BoundsAssumption, Types
<1>1. CASE \E m \in net : AdmitPlayer(m)
  <2>1. PICK m \in net : AdmitPlayer(m)
    BY <1>1
  <2>2. m \in ToServer /\ clients' = Append(clients, m.from) /\ server = "lobby"
        /\ UNCHANGED <<resources, turn, unreachable>>
    BY <2>1 DEF AdmitPlayer, Admit
  <2>3. clients' \in Seq(Client) /\ Len(clients') = Len(clients) + 1
    BY <2>2, Senders, Appended DEF ServerTypes
  <2>4. IF Len(clients') < MaxPlayers THEN server' = server ELSE server' = "relay"
    BY <2>1 DEF AdmitPlayer, Admit
  <2>5. QED
    BY <2>2, <2>3, <2>4 DEF ServerTypes, resources
<1>2. CASE \E m \in net : RelayReceive(m)
  <2>1. PICK m \in net : RelayReceive(m)
    BY <1>2
  <2>2. /\ m \in ToServer /\ clients' = [clients EXCEPT ![turn] = m.from]
        /\ UNCHANGED <<server, resources, unreachable>>
        /\ server = "relay"
    BY <2>1 DEF RelayReceive, RelayReceiveFrom
  <2>3. clients' \in Seq(Client) /\ Len(clients') = Len(clients)
    BY <2>2, Senders, ExceptSeq DEF ServerTypes, Slot
  <2>4. turn' \in Slot
    BY <2>1 DEF RelayReceive, RelayReceiveFrom, NextTurn, TurnBefore, ServerTypes, Slot
  <2>5. QED
    BY <2>2, <2>3, <2>4 DEF ServerTypes, resources
<1>3. CASE Startup \/ FindName \/ CreateSocket \/ BindSocket \/ LobbyError
  <2>1. UNCHANGED <<clients, turn>>
    BY <1>3 DEF Startup, FindName, CreateSocket, BindSocket, LobbyError
  <2>2. winsock' \in BOOLEAN /\ unreachable' \in BOOLEAN
    BY <1>3 DEF Startup, FindName, CreateSocket, BindSocket, LobbyError, ServerTypes
  <2>3. udp_listener_socket' \in {"none", "open", "closed"}
    BY <1>3 DEF Startup, FindName, CreateSocket, BindSocket, LobbyError, ServerTypes
  <2>4. server' \in {"name", "socket", "bind", "lobby", "down"} /\ server \notin {"relay", "down"}
    <3>1. CASE Startup  BY <3>1 DEF Startup
    <3>2. CASE FindName  BY <3>2 DEF FindName
    <3>3. CASE CreateSocket  BY <3>3 DEF CreateSocket
    <3>4. CASE BindSocket  BY <3>4 DEF BindSocket
    <3>5. CASE LobbyError  BY <3>5 DEF LobbyError
    <3>6. QED  BY <1>3, <3>1, <3>2, <3>3, <3>4, <3>5
  <2>5. QED  BY <2>1, <2>2, <2>3, <2>4 DEF ServerTypes
<1>4. CASE RelayError
  <2>1. UNCHANGED <<server, resources, clients>> /\ unreachable' = FALSE
    BY <1>4 DEF RelayError
  <2>2. turn' \in Slot
    BY <1>4 DEF RelayError, NextTurn, TurnBefore, ServerTypes, Slot
  <2>3. QED  BY <2>1, <2>2 DEF ServerTypes, resources
<1>5. CASE \E c \in Client, m \in net : Refuse(c, m)
  BY <1>5 DEF Refuse, ServerTypes, resources
<1>6. CASE UNCHANGED serverVars
  BY <1>6 DEF serverVars, resources, ServerTypes
<1>7. QED
  BY <1>1, <1>2, <1>3, <1>4, <1>5, <1>6 DEF Next, ServerReceive, vars, ConnectFails, ConnectFailsAt,
     WaitForStartFails, ConnectToServer, BroadcastHello, StopConnecting, StoreNumber, HelloAnswered,
     MainLoop, InitClient, SpaceBar, GoOffline, Quit, WaitForStart, DataTransfer,
     DataLoop, PrepareData, SendFails, SendData, ReceiveData, Lose

LEMMA NetKept == Types /\ [Next]_vars => net' \subseteq Datagram
<1> SUFFICES ASSUME Types, [Next]_vars PROVE net' \subseteq Datagram
  OBVIOUS
<1> USE BoundsAssumption DEF BoundsAssumption, Types
<1>1. CASE \E m \in net : AdmitPlayer(m)
  <2>1. PICK m \in net : AdmitPlayer(m)
    BY <1>1
  <2>2. m.from \in Client /\ clients' = Append(clients, m.from) /\ server = "lobby"
    BY <2>1, Senders DEF AdmitPlayer, Admit
  <2>3. clients' \in Seq(Client) /\ Len(clients') = Len(clients) + 1 /\ Len(clients') \in Slot
    BY <2>2, Appended DEF ServerTypes, Slot
  <2>4. Text(m.from, Len(clients), Len(clients')) \in Datagram
    BY <2>2, <2>3, Sent DEF ServerTypes
  <2>5. CASE Len(clients') < MaxPlayers
    BY <2>1, <2>4, <2>5 DEF AdmitPlayer, Admit
  <2>6. CASE ~(Len(clients') < MaxPlayers)
    <3>1. \A i \in Slot : clients'[i] \in Client
      BY <2>3, <2>6 DEF Slot
    <3>2. {Text(clients'[i], MaxPlayers, i) : i \in Slot} \subseteq Datagram
      BY <3>1, Sent
    <3>3. QED  BY <2>1, <2>4, <2>6, <3>2 DEF AdmitPlayer, Admit
  <2>7. QED  BY <2>5, <2>6
<1>2. CASE \E m \in net : RelayReceive(m)
  <2>1. PICK m \in net : RelayReceive(m)
    BY <1>2
  <2>2. \A k \in Slot : clients'[k] \in Client
    <3>1. ServerTypes' /\ server' = "relay"
      BY <2>1, ServerTypesKept DEF RelayReceive, RelayReceiveFrom
    <3>2. QED  BY <3>1 DEF ServerTypes, Slot
  <2>3. {Relay(clients'[k]) : k \in Slot} \subseteq Datagram
    BY <2>2, Sent
  <2>4. QED
    BY <2>1, <2>3 DEF RelayReceive, RelayReceiveFrom, NextTurn, TurnBefore
<1>3. CASE RelayError
  <2>1. \A k \in Slot : clients[k] \in Client
    BY <1>3 DEF RelayError, ServerTypes, Slot
  <2>2. {Relay(clients[k]) : k \in Slot} \subseteq Datagram
    BY <2>1, Sent
  <2>3. QED  BY <1>3, <2>2 DEF RelayError, NextTurn, TurnBefore
<1>4. CASE \E c \in Client : BroadcastHello(c)
  <2>1. PICK c \in Client : BroadcastHello(c)
    BY <1>4
  <2>2. hellos' \in 1 .. MaxHello
    BY <2>1 DEF BroadcastHello, ClientTypes
  <2>3. QED  BY <2>1, <2>2, Sent DEF BroadcastHello
<1>5. CASE \E c \in Client : SendData(c)
  BY <1>5, Sent DEF SendData
<1>6. CASE net' \subseteq net
  BY <1>6
<1>7. QED
  BY <1>1, <1>2, <1>3, <1>4, <1>5, <1>6 DEF Next, ServerReceive, vars, Startup, FindName,
     CreateSocket, BindSocket, LobbyError, ConnectFails, ConnectFailsAt, WaitForStartFails, ConnectToServer,
     StopConnecting, StoreNumber, HelloAnswered, MainLoop, InitClient, SpaceBar, GoOffline,
     Quit, WaitForStart, DataTransfer, DataLoop, PrepareData, SendFails, ReceiveData, Lose, Refuse

(* What the end of a process writes. *)
LEMMA EndsTypes ==
  ASSUME ClientTypes, NEW c \in Client, NEW how \in {"quit", "crashed"}, Ends(c, how)
  PROVE  /\ app' \in [Client -> {"runs", "quit", "crashed"}]
         /\ connect' \in [Client -> {"none", "hello", "receive", "store", "done"}]
         /\ response' \in [Client -> Datagram \cup {Nothing}]
         /\ \A d \in Client : response'[d] \in ToClient(d) \cup {Nothing}
         /\ broadcast_socket' \in [Client -> {"none", "open", "closed"}]
         /\ main' \in [Client -> {"init", "frame", "offline"}]
         /\ data' \in [Client -> {"none", "spin", "receive", "ended"}]
BY DEF Ends, CloseSocket, ClientTypes

LEMMA ClientTypesKept == Types /\ [Next]_vars => ClientTypes'
<1> SUFFICES ASSUME Types, [Next]_vars PROVE ClientTypes'
  OBVIOUS
<1> USE DEF Types
<1>1. CASE UNCHANGED clientVars
  BY <1>1 DEF clientVars, atomics, ClientTypes
<1>2. CASE ConnectFails
  <2>1. PICK c \in Client :
          /\ broadcast_socket' = [broadcast_socket EXCEPT ![c] = "closed"]
          /\ connect' = [connect EXCEPT ![c] = "done"]
          /\ UNCHANGED <<app, hellos, response, main, data, atomics>>
    BY <1>2, PlayersAssumption DEF ConnectFails, ConnectFailsAt, CloseSocket, PlayersAssumption
  <2>2. QED  BY <2>1 DEF ClientTypes, atomics
<1>3. ASSUME NEW c \in Client, BroadcastHello(c) PROVE ClientTypes'
  BY <1>3, BoundsAssumption DEF BoundsAssumption, BroadcastHello, ClientTypes, atomics
<1>4. ASSUME NEW c \in Client, StopConnecting(c) PROVE ClientTypes'
  BY <1>4 DEF StopConnecting, ClientTypes, atomics
<1>5. ASSUME NEW c \in Client, NEW m \in net, HelloAnswered(c, m) PROVE ClientTypes'
  BY <1>5, ClientDatagrams DEF HelloAnswered, ClientTypes
<1>6. ASSUME NEW c \in Client, StoreNumber(c) PROVE ClientTypes'
  <2>1. UNCHANGED <<hellos, av_connected, av_start, av_player_max>>
    BY <1>6 DEF StoreNumber
  <2>2. CASE response[c].type = "text" /\ ~Ends(c, "crashed")
    <3>1. response[c] \in ToClient(c)
      BY <2>2 DEF ClientTypes, Nothing
    <3>2. response[c].n \in -1 .. MaxPlayers
      BY <2>2, <3>1, ClientDatagrams
    <3>3. QED
      BY <1>6, <2>1, <2>2, <3>2 DEF StoreNumber, ClientTypes
  <2>3. CASE Ends(c, "crashed") /\ UNCHANGED av_player_num
    BY <2>1, <2>3, EndsTypes DEF ClientTypes
  <2>4. CASE response[c].type = "text" /\ Ends(c, "crashed")
    <3>1. response[c] \in ToClient(c)
      BY <2>4 DEF ClientTypes, Nothing
    <3>2. response[c].n \in -1 .. MaxPlayers
      BY <2>4, <3>1, ClientDatagrams
    <3>3. av_player_num' \in [Client -> -1 .. MaxPlayers]
      BY <1>6, <3>2 DEF StoreNumber, ClientTypes
    <3>4. QED  BY <2>1, <2>4, <3>3, EndsTypes DEF ClientTypes
  <2>5. QED  BY <1>6, <2>2, <2>3, <2>4 DEF StoreNumber
<1>7. ASSUME NEW c \in Client, InitClient(c) PROVE ClientTypes'
  BY <1>7 DEF InitClient, ClientTypes, atomics
<1>8. ASSUME NEW c \in Client, SpaceBar(c) PROVE ClientTypes'
  BY <1>8 DEF SpaceBar, ClientTypes
<1>9. ASSUME NEW c \in Client, GoOffline(c) PROVE ClientTypes'
  BY <1>9 DEF GoOffline, ClientTypes
<1>10. ASSUME NEW c \in Client, Quit(c) PROVE ClientTypes'
  BY <1>10, EndsTypes DEF Quit, ClientTypes, atomics
<1>11. ASSUME NEW c \in Client, NEW m \in net, WaitForStart(c, m) PROVE ClientTypes'
  <2>1. UNCHANGED <<hellos, av_connected, av_player_num>>
    BY <1>11 DEF WaitForStart
  <2>2. CASE m.type = "text"
    <3>1. m.n \in -1 .. MaxPlayers
      BY <1>11, <2>2, ClientDatagrams DEF WaitForStart
    <3>2. QED
      BY <1>11, <2>1, <2>2, <3>1 DEF WaitForStart, ClientTypes, threads
  <2>3. CASE Ends(c, "crashed") /\ UNCHANGED <<av_player_max, av_start>>
    BY <2>1, <2>3, EndsTypes DEF ClientTypes
  <2>4. QED  BY <1>11, <2>2, <2>3 DEF WaitForStart
<1>12. ASSUME NEW c \in Client, SendData(c) PROVE ClientTypes'
  BY <1>12 DEF SendData, ClientTypes, atomics
<1>15. CASE WaitForStartFails
  <2>1. PICK c \in Client :
          /\ broadcast_socket' = [broadcast_socket EXCEPT ![c] = "closed"]
          /\ UNCHANGED <<app, hellos, threads, atomics>>
    BY <1>15, PlayersAssumption DEF WaitForStartFails, CloseSocket, PlayersAssumption
  <2>2. QED  BY <2>1 DEF ClientTypes, atomics, threads
<1>16. ASSUME NEW c \in Client, PrepareData(c) \/ SendFails(c) PROVE ClientTypes'
  BY <1>16 DEF PrepareData, SendFails, CloseSocket, ClientTypes, atomics
<1>13. ASSUME NEW c \in Client, NEW m \in net, ReceiveData(c, m) PROVE ClientTypes'
  <2>1. CASE Ends(c, "crashed")
    BY <1>13, <2>1, EndsTypes DEF ReceiveData, ClientTypes, atomics
  <2>2. CASE ~Ends(c, "crashed")
    BY <1>13, <2>2 DEF ReceiveData, ClientTypes, atomics
  <2>3. QED  BY <2>1, <2>2
<1>14. QED
  BY <1>1, <1>2, <1>3, <1>4, <1>5, <1>6, <1>7, <1>8, <1>9, <1>10, <1>11, <1>12, <1>13, <1>15,
     <1>16 DEF Next, ServerReceive, DataLoop, vars, AdmitPlayer, Admit, RelayReceive, RelayReceiveFrom,
     Startup, FindName, CreateSocket, BindSocket, LobbyError, RelayError,
     ConnectToServer, MainLoop, DataTransfer, DataLoop, PrepareData, SendFails, Lose, Refuse, clientVars, serverVars

LEMMA TypesKept == Types /\ [Next]_vars => Types'
BY ServerTypesKept, NetKept, ClientTypesKept DEF Types

LEMMA SpecTypes == Spec => []Types
BY InitTypes, TypesKept, PTL DEF Spec

(* Every variable keeps its type, for any number of clients and slots: no  *)
(* step of the relay leaves the slots, and no number is stored that the    *)
(* server does not send.                                                   *)
THEOREM LobbyTypeCorrect == Spec => []TypeOK
<1>1. Types => TypeOK
  BY DEF Types, ServerTypes, ClientTypes, TypeOK
<1>2. QED  BY <1>1, SpecTypes, PTL

-----------------------------------------------------------------------------
(* Numbers.                                                                *)

LEMMA InitNumbers == Init => SlotsTold /\ OneOwner
<1>1. SUFFICES ASSUME Init, NEW c \in Client, NEW n PROVE ~Told(c, n)
  BY DEF SlotsTold, OneOwner
<1>2. QED  BY <1>1 DEF Init, Told, Nothing

(* A number a client gets by any step but the admission of a player it had *)
(* before, in another form.                                                *)
LEMMA NothingNew ==
  ASSUME Types, NEW c \in Client, NEW n, Told(c, n)', [Next]_vars,
         ~\E m \in net : AdmitPlayer(m)
  PROVE  Told(c, n)
<1> USE DEF Types
<1>1. (\E k \in Slot : Text(c, n, k) \in net') => \E k \in Slot : Text(c, n, k) \in net
  <2>1. SUFFICES ASSUME NEW k \in Slot, Text(c, n, k) \in net'
                 PROVE  Text(c, n, k) \in net
    OBVIOUS
  <2>2. CASE \E m \in net : RelayReceive(m)
    BY <2>1, <2>2, RelayIsNoText DEF RelayReceive, RelayReceiveFrom, NextTurn, TurnBefore
  <2>3. CASE RelayError
    BY <2>1, <2>3, RelayIsNoText DEF RelayError, NextTurn, TurnBefore
  <2>4. CASE \E d \in Client : BroadcastHello(d)
    <3>1. PICK d \in Client : BroadcastHello(d)
      BY <2>4
    <3>2. Hello(d, hellos') \in ToServer
      BY <3>1, BoundsAssumption DEF BroadcastHello, ClientTypes, BoundsAssumption, ToServer
    <3>3. QED
      BY <2>1, <3>1, <3>2, ClientsSentAreNoTexts DEF BroadcastHello
  <2>5. CASE \E d \in Client : SendData(d)
    <3>1. PICK d \in Client : SendData(d)
      BY <2>5
    <3>2. Data(d) \in ToServer
      BY DEF ToServer
    <3>3. QED  BY <2>1, <3>1, <3>2, ClientsSentAreNoTexts DEF SendData
  <2>6. CASE net' \subseteq net
    BY <2>1, <2>6
  <2>7. QED
    BY <2>2, <2>3, <2>4, <2>5, <2>6 DEF Next, ServerReceive, vars, Startup, FindName,
       CreateSocket, BindSocket, LobbyError, ConnectFails, ConnectFailsAt, WaitForStartFails, ConnectToServer,
       StopConnecting, StoreNumber, HelloAnswered, MainLoop, InitClient, SpaceBar, GoOffline,
       Quit, WaitForStart, DataTransfer, DataLoop, PrepareData, SendFails, ReceiveData, Lose, Refuse
<1>2. CASE \E m \in net : HelloAnswered(c, m)
  <2>1. PICK m \in net : HelloAnswered(c, m)
    BY <1>2
  <2>2. response'[c] = m /\ UNCHANGED av_player_num /\ m \in ToClient(c)
    BY <2>1 DEF HelloAnswered, ClientTypes
  <2>3. m.type = "text" => \E k \in Slot : Text(c, m.n, k) \in net
    BY <2>2, ClientDatagrams
  <2>4. QED  BY <1>1, <2>2, <2>3 DEF Told
<1>3. CASE StoreNumber(c)
  <2>1. \/ /\ response[c].type = "text"
           /\ av_player_num' = [av_player_num EXCEPT ![c] = response[c].n]
           /\ response' = [response EXCEPT ![c] = Nothing]
        \/ UNCHANGED av_player_num /\ response' = [response EXCEPT ![c] = Nothing]
    BY <1>3 DEF StoreNumber, Ends
  <2>2. response'[c].type # "text"
    BY <2>1 DEF ClientTypes, Nothing
  <2>3. QED  BY <1>1, <2>1, <2>2 DEF Told, ClientTypes
<1>4. CASE response'[c] \in {response[c], Nothing} /\ av_player_num'[c] = av_player_num[c]
  BY <1>1, <1>4 DEF Told, Nothing
<1>5. ASSUME NEW d \in Client, d # c, NEW m \in net, HelloAnswered(d, m)
      PROVE  response'[c] = response[c] /\ av_player_num'[c] = av_player_num[c]
  BY <1>5 DEF HelloAnswered, ClientTypes
<1>6. ASSUME NEW d \in Client, d # c, StoreNumber(d)
      PROVE  response'[c] = response[c] /\ av_player_num'[c] = av_player_num[c]
  BY <1>6 DEF StoreNumber, Ends, ClientTypes
<1>7. ASSUME NEW d \in Client, NEW how, Ends(d, how)
      PROVE  response'[c] \in {response[c], Nothing}
  BY <1>7 DEF Ends, ClientTypes
<1>8. ASSUME NEW d \in Client, Quit(d) \/ \E m \in net : WaitForStart(d, m) \/ ReceiveData(d, m)
      PROVE  response'[c] \in {response[c], Nothing} /\ av_player_num'[c] = av_player_num[c]
  <2>1. UNCHANGED av_player_num
    BY <1>8 DEF Quit, WaitForStart, ReceiveData, atomics
  <2>2. UNCHANGED response \/ \E how : Ends(d, how)
    BY <1>8 DEF Quit, WaitForStart, ReceiveData, threads
  <2>3. QED  BY <2>1, <2>2, <1>7
<1>9. CASE UNCHANGED <<response, av_player_num>>
  BY <1>4, <1>9
<1>10. QED
  <2>1. UNCHANGED <<response, av_player_num>>
        \/ \E d \in Client : \/ StoreNumber(d) \/ \E m \in net : HelloAnswered(d, m)
                             \/ Quit(d) \/ \E m \in net : WaitForStart(d, m) \/ ReceiveData(d, m)
    BY DEF Next, ServerReceive, vars, RelayReceive, RelayReceiveFrom, RelayError, Startup,
       FindName, CreateSocket, BindSocket, LobbyError, ConnectFails, ConnectFailsAt,
       WaitForStartFails, ConnectToServer, BroadcastHello, StopConnecting, MainLoop, InitClient, SpaceBar,
       GoOffline, DataTransfer, DataLoop, PrepareData, SendFails, SendData, Lose, Refuse, clientVars, threads, atomics
  <2>2. QED  BY <2>1, <1>2, <1>3, <1>4, <1>5, <1>6, <1>8, <1>9

(* What the admission of a player tells: the player its slot, and with the *)
(* last slot everybody the start signal.                                   *)
LEMMA Admitted ==
  ASSUME Types, NEW m \in net, AdmitPlayer(m), NEW c \in Client, NEW n, Told(c, n)'
  PROVE  \/ Told(c, n)
         \/ c = m.from /\ n = Len(clients)
         \/ n = MaxPlayers /\ server' = "relay"
<1>1. UNCHANGED <<response, av_player_num>>
  BY DEF AdmitPlayer, Admit, clientVars, atomics
<1>2. CASE \E k \in Slot : Text(c, n, k) \in net'
  <2>1. PICK k \in Slot : Text(c, n, k) \in net'
    BY <1>2
  <2>2. CASE Text(c, n, k) \in net
    BY <2>2 DEF Told
  <2>3. CASE Text(c, n, k) = Text(m.from, Len(clients), Len(clients'))
    BY <2>3, TextsDiffer
  <2>4. CASE /\ server' = "relay"
             /\ \E i \in Slot : Text(c, n, k) = Text(clients'[i], MaxPlayers, i)
    BY <2>4, TextsDiffer
  <2>5. QED
    BY <2>1, <2>2, <2>3, <2>4 DEF AdmitPlayer, Admit
<1>3. QED  BY <1>1, <1>2 DEF Told

LEMMA SlotsToldKept == Types /\ SlotsTold /\ [Next]_vars => SlotsTold'
<1>1. SUFFICES ASSUME Types, SlotsTold, [Next]_vars, server' \notin {"relay", "down"},
                      NEW c \in Client, NEW n \in 0 .. MaxPlayers, Told(c, n)'
               PROVE  n < Len(clients') /\ clients'[n + 1] = c
  BY DEF SlotsTold
<1>2. CASE \E m \in net : AdmitPlayer(m)
  <2>1. PICK m \in net : AdmitPlayer(m)
    BY <1>2
  <2>2. m.from \in Client /\ clients' = Append(clients, m.from) /\ server = "lobby"
    BY <2>1, Senders DEF AdmitPlayer, Admit
  <2>3. CASE Told(c, n)
    <3>1. n < Len(clients) /\ clients[n + 1] = c
      BY <2>2, <2>3, <1>1 DEF SlotsTold
    <3>2. n + 1 \in 1 .. Len(clients) /\ clients \in Seq(Client)
      BY <1>1, <3>1 DEF Types, ServerTypes
    <3>3. QED  BY <2>2, <3>1, <3>2, Appended
  <2>4. CASE c = m.from /\ n = Len(clients)
    BY <1>1, <2>2, <2>4, Appended DEF Types, ServerTypes
  <2>5. QED  BY <1>1, <2>1, <2>3, <2>4, Admitted
<1>3. CASE ~\E m \in net : AdmitPlayer(m)
  <2>1. Told(c, n)
    BY <1>1, <1>3, NothingNew
  <2>2. server \notin {"relay", "down"} /\ UNCHANGED clients
    BY <1>1, <1>3 DEF Next, ServerReceive, vars, RelayReceive, RelayReceiveFrom, RelayError,
       Startup, FindName, CreateSocket, BindSocket, LobbyError,
       ConnectFails, ConnectFailsAt, WaitForStartFails, ConnectToServer, BroadcastHello, StopConnecting, StoreNumber,
       HelloAnswered, MainLoop, InitClient, SpaceBar, GoOffline, Quit, WaitForStart,
       DataTransfer, DataLoop, PrepareData, SendFails, SendData, ReceiveData, Lose, Refuse, serverVars
  <2>3. QED  BY <1>1, <2>1, <2>2 DEF SlotsTold
<1>4. QED  BY <1>2, <1>3

LEMMA OneOwnerKept == Types /\ SlotsTold /\ OneOwner /\ [Next]_vars => OneOwner'
<1>1. SUFFICES ASSUME Types, SlotsTold, OneOwner, [Next]_vars,
                      NEW c \in Client, NEW d \in Client, NEW n \in 0 .. MaxPlayers - 1,
                      Told(c, n)', Told(d, n)'
               PROVE  c = d
  BY DEF OneOwner
<1>2. n \in 0 .. MaxPlayers /\ n # MaxPlayers
  BY BoundsAssumption DEF BoundsAssumption
<1>3. CASE \E m \in net : AdmitPlayer(m)
  <2>1. PICK m \in net : AdmitPlayer(m)
    BY <1>3
  <2>2. ~Told(c, Len(clients)) /\ ~Told(d, Len(clients))
    <3>1. server = "lobby"
      BY <2>1 DEF AdmitPlayer, Admit
    <3>2. Len(clients) \in 0 .. MaxPlayers
      BY <1>1, BoundsAssumption DEF Types, ServerTypes, BoundsAssumption
    <3>3. QED  BY <1>1, <3>1, <3>2 DEF SlotsTold
  <2>3. Told(c, n) \/ (c = m.from /\ n = Len(clients))
    BY <1>1, <1>2, <2>1, Admitted
  <2>4. Told(d, n) \/ (d = m.from /\ n = Len(clients))
    BY <1>1, <1>2, <2>1, Admitted
  <2>5. QED  BY <1>1, <2>2, <2>3, <2>4 DEF OneOwner
<1>4. CASE ~\E m \in net : AdmitPlayer(m)
  <2>1. Told(c, n) /\ Told(d, n)
    BY <1>1, <1>4, NothingNew
  <2>2. QED  BY <1>1, <2>1 DEF OneOwner
<1>5. QED  BY <1>3, <1>4

(* A client never goes by the number of another one, nor by one that is    *)
(* not its slot while the lobby fills: answers repeated after a timeout,   *)
(* overtaking each other or taken for the start signal make no difference. *)
THEOREM LobbyNumbersAgree == Spec => []NumbersAgree
<1>1. ASSUME Types, SlotsTold, OneOwner PROVE NumbersAgree
  <2>1. NumberIsSlot
    <3>1. SUFFICES ASSUME NEW c \in Client, server = "lobby", av_player_num[c] # -1
                   PROVE  /\ av_player_num[c] < Len(clients)
                          /\ clients[av_player_num[c] + 1] = c
      BY DEF NumberIsSlot
    <3>2. av_player_num[c] \in 0 .. MaxPlayers
      BY <1>1, <3>1 DEF Types, ClientTypes
    <3>3. Told(c, av_player_num[c])
      BY <3>1 DEF Told
    <3>4. QED  BY <1>1, <3>1, <3>2, <3>3 DEF SlotsTold
  <2>2. NumbersUnique
    <3>1. SUFFICES ASSUME NEW c \in Client, NEW d \in Client, c # d,
                          av_player_num[c] = av_player_num[d],
                          av_player_num[c] \notin {-1, MaxPlayers}
                   PROVE  FALSE
      BY DEF NumbersUnique
    <3>2. av_player_num[c] \in 0 .. MaxPlayers - 1
      BY <1>1, <3>1, BoundsAssumption DEF Types, ClientTypes, BoundsAssumption
    <3>3. Told(c, av_player_num[c]) /\ Told(d, av_player_num[c])
      BY <3>1 DEF Told
    <3>4. QED  BY <1>1, <3>1, <3>2, <3>3 DEF OneOwner
  <2>3. QED  BY <2>1, <2>2 DEF NumbersAgree
<1>2. QED
  BY <1>1, InitTypes, InitNumbers, TypesKept, SlotsToldKept, OneOwnerKept, PTL DEF Spec

-----------------------------------------------------------------------------
(* Sockets.                                                                *)

LEMMA InitSockets == Init => Acquired /\ ServerReleases /\ Connected
BY DEF Init, Acquired, ServerReleases, Connected

LEMMA ServerSocketsKept ==
  Acquired /\ ServerReleases /\ [Next]_vars => Acquired' /\ ServerReleases'
<1> SUFFICES ASSUME Acquired, ServerReleases, [Next]_vars PROVE Acquired' /\ ServerReleases'
  OBVIOUS
<1>1. CASE Startup
  BY <1>1 DEF Startup, Acquired, ServerReleases
<1>2. CASE FindName
  BY <1>2 DEF FindName, Acquired, ServerReleases
<1>3. CASE CreateSocket
  BY <1>3 DEF CreateSocket, Acquired, ServerReleases
<1>4. CASE BindSocket
  BY <1>4 DEF BindSocket, Acquired, ServerReleases
<1>5. CASE LobbyError
  BY <1>5 DEF LobbyError, Acquired, ServerReleases
<1>6. CASE UNCHANGED resources /\ (server' = server \/ server' = "relay")
  BY <1>6 DEF resources, Acquired, ServerReleases
<1>7. QED
  BY <1>1, <1>2, <1>3, <1>4, <1>5, <1>6 DEF Next, ServerReceive, vars, AdmitPlayer, Admit,
     RelayReceive, RelayReceiveFrom, RelayError, ConnectFails, ConnectFailsAt, WaitForStartFails, ConnectToServer,
     BroadcastHello, StopConnecting, StoreNumber, HelloAnswered, MainLoop, InitClient,
     SpaceBar, GoOffline, Quit, WaitForStart, DataTransfer, DataLoop, PrepareData, SendFails, SendData, ReceiveData, Lose,
     Refuse, serverVars

(* What Connected says of one client. *)
ConnectedAt(c) ==
  /\ app[c] = "runs" /\ av_connected[c] => connect[c] \in {"store", "done"}
  /\ app[c] = "runs" /\ data[c] = "receive" =>
       av_start[c] /\ connect[c] \in {"store", "done"} /\ broadcast_socket[c] = "open"
  /\ main[c] = "init" => ~av_connected[c] /\ connect[c] = "none" /\ data[c] # "receive"

LEMMA EndsConnected ==
  ASSUME ClientTypes, NEW d \in Client, NEW how \in {"quit", "crashed"}, Ends(d, how),
         UNCHANGED av_connected, av_start' \in {av_start, [av_start EXCEPT ![d] = TRUE]},
         NEW c \in Client, ConnectedAt(c)
  PROVE  ConnectedAt(c)'
BY DEF Ends, CloseSocket, ClientTypes, ConnectedAt

LEMMA ConnectedKept == Types /\ Connected /\ [Next]_vars => Connected'
<1>1. SUFFICES ASSUME Types, Connected, [Next]_vars, NEW c \in Client PROVE ConnectedAt(c)'
  BY DEF Connected, ConnectedAt
<1>2. ConnectedAt(c) /\ ClientTypes
  BY <1>1 DEF Connected, ConnectedAt, Types
<1>3. CASE UNCHANGED <<app, broadcast_socket, connect, main, data, av_connected, av_start>>
  BY <1>2, <1>3 DEF ConnectedAt
<1>4. CASE ConnectFails
  <2>1. PICK d \in Client :
          /\ app[d] = "runs" /\ connect[d] \in {"hello", "receive"}
          /\ broadcast_socket' = [broadcast_socket EXCEPT ![d] = "closed"]
          /\ connect' = [connect EXCEPT ![d] = "done"]
          /\ UNCHANGED <<app, main, data, av_connected, av_start>>
    BY <1>4, PlayersAssumption DEF ConnectFails, ConnectFailsAt, CloseSocket,
       PlayersAssumption, atomics
  <2>2. QED  BY <1>2, <2>1 DEF ConnectedAt, ClientTypes
<1>5. CASE WaitForStartFails
  <2>1. PICK d \in Client :
          /\ ~av_start[d]
          /\ broadcast_socket' = [broadcast_socket EXCEPT ![d] = "closed"]
          /\ UNCHANGED <<app, connect, main, data, av_connected, av_start>>
    BY <1>5, PlayersAssumption DEF WaitForStartFails, CloseSocket, PlayersAssumption,
       threads, atomics
  <2>2. QED  BY <1>2, <2>1 DEF ConnectedAt, ClientTypes
<1>6. ASSUME NEW d \in Client, BroadcastHello(d) PROVE ConnectedAt(c)'
  BY <1>2, <1>6 DEF BroadcastHello, ConnectedAt, ClientTypes, atomics
<1>7. ASSUME NEW d \in Client, StopConnecting(d) PROVE ConnectedAt(c)'
  BY <1>2, <1>7 DEF StopConnecting, ConnectedAt, ClientTypes, atomics
<1>8. ASSUME NEW d \in Client, NEW m \in net, HelloAnswered(d, m) PROVE ConnectedAt(c)'
  BY <1>2, <1>8 DEF HelloAnswered, ConnectedAt, ClientTypes
<1>9. ASSUME NEW d \in Client, StoreNumber(d) PROVE ConnectedAt(c)'
  <2>1. CASE Ends(d, "crashed")
    BY <1>2, <1>9, <2>1, EndsConnected DEF StoreNumber
  <2>2. CASE ~Ends(d, "crashed")
    BY <1>2, <1>9, <2>2 DEF StoreNumber, ConnectedAt, ClientTypes
  <2>3. QED  BY <2>1, <2>2
<1>10. ASSUME NEW d \in Client, InitClient(d) PROVE ConnectedAt(c)'
  BY <1>2, <1>10 DEF InitClient, ConnectedAt, ClientTypes, atomics
<1>11. ASSUME NEW d \in Client, SpaceBar(d) PROVE ConnectedAt(c)'
  BY <1>2, <1>11 DEF SpaceBar, ConnectedAt, ClientTypes
<1>12. ASSUME NEW d \in Client, GoOffline(d) PROVE ConnectedAt(c)'
  BY <1>2, <1>12 DEF GoOffline, ConnectedAt, ClientTypes
<1>13. ASSUME NEW d \in Client, Quit(d) PROVE ConnectedAt(c)'
  BY <1>2, <1>13, EndsConnected DEF Quit, atomics
<1>14. ASSUME NEW d \in Client, NEW m \in net, WaitForStart(d, m) PROVE ConnectedAt(c)'
  <2>1. CASE Ends(d, "crashed")
    BY <1>2, <1>14, <2>1, EndsConnected DEF WaitForStart
  <2>2. CASE ~Ends(d, "crashed")
    BY <1>2, <1>14, <2>2 DEF WaitForStart, threads, ConnectedAt, ClientTypes
  <2>3. QED  BY <2>1, <2>2
<1>15. ASSUME NEW d \in Client, PrepareData(d) \/ SendFails(d) PROVE ConnectedAt(c)'
  BY <1>2, <1>15 DEF PrepareData, SendFails, CloseSocket, ConnectedAt, ClientTypes, atomics
<1>16. ASSUME NEW d \in Client, SendData(d) PROVE ConnectedAt(c)'
  <2>1. ConnectedAt(d)
    BY <1>1, <1>16 DEF Connected, ConnectedAt
  <2>2. QED
    BY <1>2, <1>16, <2>1 DEF SendData, InLoop, Playing, Bound, ConnectedAt, ClientTypes, atomics
<1>17. ASSUME NEW d \in Client, NEW m \in net, ReceiveData(d, m) PROVE ConnectedAt(c)'
  <2>1. CASE Ends(d, "crashed")
    BY <1>2, <1>17, <2>1, EndsConnected DEF ReceiveData, atomics
  <2>2. CASE ~Ends(d, "crashed")
    BY <1>2, <1>17, <2>2 DEF ReceiveData, atomics, ConnectedAt, ClientTypes
  <2>3. QED  BY <2>1, <2>2
<1>18. QED
  <2>1. CASE \/ \E m \in net : ServerReceive(m)
             \/ Startup \/ FindName \/ CreateSocket \/ BindSocket \/ LobbyError \/ RelayError
             \/ \E d \in Client : Lose(d) \/ \E m \in net : Refuse(d, m)
             \/ UNCHANGED vars
    BY <1>3, <2>1 DEF ServerReceive, AdmitPlayer, Admit, RelayReceive, RelayReceiveFrom,
       Startup, FindName, CreateSocket, BindSocket, LobbyError, RelayError,
       Lose, Refuse, vars, clientVars, atomics
  <2>2. QED
    BY <1>1, <1>4, <1>5, <1>6, <1>7, <1>8, <1>9, <1>10, <1>11, <1>12, <1>13, <1>14, <1>15,
       <1>16, <1>17, <2>1 DEF Next, ConnectToServer, MainLoop, DataTransfer, DataLoop

(* Every way out of the server gives back its socket and Winsock, and the  *)
(* threads of a client that close the socket on an error never close it    *)
(* under the data thread that waits for an answer: the one that connects   *)
(* has left its loop by then, and the main thread waits for no start any   *)
(* more.                                                                   *)
THEOREM LobbySocketsInOrder == Spec => []SocketsInOrder
<1>1. ASSUME ServerReleases, Connected PROVE SocketsInOrder
  BY <1>1 DEF SocketsInOrder, SocketKept, Connected
<1>2. QED
  BY <1>1, InitTypes, InitSockets, TypesKept, ServerSocketsKept, ConnectedKept, PTL DEF Spec
=============================================================================
