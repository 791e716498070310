--------------------------- MODULE SaveUsSession ---------------------------
(***************************************************************************)
(* The multiplayer session of "2.0 Save Us": one server that also plays    *)
(* (id 0), and clients that join it over UDP, share ships and scores, die, *)
(* win and leave.  Sources: game/network (server.cpp, client.cpp,          *)
(* networking.cpp) and the parts of game/state_ingame.cpp that broadcast.  *)
(*                                                                         *)
(* The network is the set of all datagrams ever sent; a datagram in it may *)
(* be received never, once or several times, in any order.  This is UDP's  *)
(* loss, reordering and duplication, and it subsumes retransmission        *)
(* (UpdateSendedPackets sends a stored datagram again): module             *)
(* SaveUsLink models the retransmission timers themselves.                 *)
(*                                                                         *)
(* Both programs are single-threaded: a frame drains the socket, updates   *)
(* timers, then runs the game.  Datagrams may arrive at any time, so every *)
(* interleaving of one-datagram steps with game steps is a behaviour.      *)
(*                                                                         *)
(* Left out: positions, particles and asteroids, and the packets that only *)
(* carry them (NET_PLAYER_UPDATE, NET_PLAYER_PRTCL_MOVE,                   *)
(* NET_ASTEROID_DESTROY): their handlers change nothing modelled here.     *)
(* NET_ASTEROID_UPDATE is kept, as the traffic that may overtake a         *)
(* SYN_ACK.  A packet sent without expect_ack has no number here: no       *)
(* receiver looks at it.                                                   *)
(***************************************************************************)
EXTENDS Integers, FiniteSets, Sequences

CONSTANTS
  Client,       \* the client processes
  Server,       \* the server process
  Port,         \* the UDP port each client process was given by its host
  Shooter,      \* bound: the processes whose player ever fires
  Mortal,       \* bound: the processes whose ship ever runs out of lives
  Frames,       \* bound: whether the server's frames send their asteroids
  PointsToWin,  \* points_to_win
  MaxId,        \* bound on clients_count
  MaxSeq,       \* bound on a peer's m_seq
  MaxKill       \* bound on the asteroids a player destroys

ASSUME SessionAssumption ==
  /\ Server \notin Client
  /\ Shooter \subseteq Client \cup {Server}
  /\ Mortal \subseteq Client \cup {Server}
  /\ Frames \in BOOLEAN
  /\ PointsToWin \in Nat \ {0}
  /\ MaxId \in Nat
  /\ MaxSeq \in Nat
  /\ MaxKill \in Nat

Proc == Client \cup {Server}
Ids  == 0 .. MaxId

NoScore    == -1                        \* the id has no entry in mScores
NoScores   == [i \in Ids |-> NoScore]
Unnumbered == -1                        \* sequence of a packet nobody acknowledges

-----------------------------------------------------------------------------
(* Packets: the header (flag, type, expect_ack, sequence, id) and the two  *)
(* payloads that matter, the ships of a SYN_ACK and a score table.         *)

Flags == {"FIN", "SYN", "ACK", "SYN_ACK", "SEQ"}
Types == {"CONECTION", "PLAYER_NEW", "PLAYER_DEATH", "SCORE_UPDATE",
          "PLAYER_SHOT", "ASTEROID_UPDATE", "PLAYER_DISCONECTS",
          "GAME_OVER", "GAME_WON"}
Tables == [Ids -> Nat \cup {NoScore}]

Packet == [src : Proc, dst : Proc, flag : Flags, type : Types, id : Ids,
           sequence : Nat \cup {Unnumbered}, expect_ack : BOOLEAN,
           ships : SUBSET Ids, scores : Tables]

\* Mutant: CreateHeader writes the flag and the type into each other's place
BareSwapped(src, dst, flag, type, id, sequence, expect_ack) ==
  [src |-> src, dst |-> dst, flag |-> type, type |-> flag, id |-> id,
   sequence |-> sequence, expect_ack |-> expect_ack,
   ships |-> {}, scores |-> NoScores]

Bare(src, dst, flag, type, id, sequence, expect_ack) ==
  [src |-> src, dst |-> dst, flag |-> flag, type |-> type, id |-> id,
   sequence |-> sequence, expect_ack |-> expect_ack,
   ships |-> {}, scores |-> NoScores]

Data(src, dst, type, id, sequence, expect_ack, scores) ==
  [Bare(src, dst, "SEQ", type, id, sequence, expect_ack)
     EXCEPT !.scores = scores]

AckOf(m, src, dst, id) ==
  Bare(src, dst, "ACK", m.type, id, m.sequence, FALSE)

\* Mutant: an acknowledgement clears sended_packets
EraseAll(sended, seq) == {}

\* sended_packets.erase(seq) and sended_packets[m.sequence] = m
Erase(sended, seq) == {m \in sended : m.sequence # seq}
Store(sended, m)   == Erase(sended, m.sequence) \cup {m}

-----------------------------------------------------------------------------
VARIABLES
  srv,            \* "up", "closed" by ShutDown, or "crashed" on a null pointer
  clients_count,  \* the last id given to a client
  mClients,       \* the ids the server holds a servers_client for
  endpoint,       \* m_remote_endpoint of each servers_client
  seq,            \* m_seq of each servers_client
  sended,         \* sended_packets of each servers_client
  pc,             \* "off", "connecting", "playing", "gone" or "crashed" client
  m_id,           \* the id the client plays with, 0 when it has none
  c_seq,          \* m_seq of each client
  c_sended,       \* sended_packets of each client
  mGame,          \* the Game singleton of each process
  bullets,        \* owners of the projectiles the server has simulated
  kills,          \* history: asteroids each id destroyed on the server
  net             \* every datagram ever sent

serverVars == <<srv, clients_count, mClients, endpoint, seq, sended>>
clientVars == <<pc, m_id, c_seq, c_sended>>
vars == <<serverVars, clientVars, mGame, bullets, kills, net>>

World == [mShips : SUBSET Ids, mScores : Tables, spShip : BOOLEAN,
          game_ended : BOOLEAN, game_won : BOOLEAN, won_id : Ids]

TypeOK ==
  /\ srv \in {"up", "closed", "crashed"}
  /\ clients_count \in Ids
  /\ mClients \subseteq Ids
  /\ endpoint \in [Ids -> Proc]
  /\ seq \in [Ids -> Nat]
  /\ sended \in [Ids -> SUBSET Packet]
  /\ pc \in [Client -> {"off", "connecting", "playing", "gone", "crashed"}]
  /\ m_id \in [Client -> Ids]
  /\ c_seq \in [Client -> Nat]
  /\ c_sended \in [Client -> SUBSET Packet]
  /\ mGame \in [Proc -> World]
  /\ bullets \subseteq Ids
  /\ kills \in [Ids -> Nat]
  /\ net \subseteq Packet

\* Game::Load leaves an empty game; Game::Init gives the server its own ship.
EmptyGame ==
  [mShips |-> {}, mScores |-> NoScores, spShip |-> FALSE,
   game_ended |-> FALSE, game_won |-> FALSE, won_id |-> 0]

ServerGame ==
  [EmptyGame EXCEPT !.mShips = {0}, !.mScores = [NoScores EXCEPT ![0] = 0],
                    !.spShip = TRUE]

Init ==
  /\ srv = "up"
  /\ clients_count = 0
  /\ mClients = {}
  /\ endpoint = [i \in Ids |-> Server]
  /\ seq = [i \in Ids |-> 0]
  /\ sended = [i \in Ids |-> {}]
  /\ pc = [c \in Client |-> "off"]
  /\ m_id = [c \in Client |-> 0]
  /\ c_seq = [c \in Client |-> 0]
  /\ c_sended = [c \in Client |-> {}]
  /\ mGame = [p \in Proc |-> IF p = Server THEN ServerGame ELSE EmptyGame]
  /\ bullets = {}
  /\ kills = [i \in Ids |-> 0]
  /\ net = {}

-----------------------------------------------------------------------------
(* The game's side of a packet: NetworkManager, the same code on both ends. *)

\* CreateShip, and the handler of NET_PLAYER_NEW
CreateShip(g, i) ==
  [g EXCEPT !.mShips = @ \cup {i}, !.mScores = [@ EXCEPT ![i] = 0]]

\* Mutant: RemovePlayer forgets the ship
RemovePlayerScore(g, i) ==
  [g EXCEPT !.mScores = [@ EXCEPT ![i] = NoScore]]

\* RemovePlayer: without a ship it returns before it erases the score
RemovePlayer(g, i) ==
  IF i \in g.mShips
  THEN [g EXCEPT !.mShips = @ \ {i}, !.mScores = [@ EXCEPT ![i] = NoScore]]
  ELSE g

\* Mutant: NET_SCORE_UPDATE adds the scores of the packet
AddScores(mine, sent) ==
  [i \in Ids |-> IF sent[i] = NoScore \/ mine[i] = NoScore
                 THEN mine[i] ELSE mine[i] + sent[i]]

\* NET_SCORE_UPDATE assigns every score of the packet, known id or not
CopyScores(mine, sent) ==
  [i \in Ids |-> IF sent[i] = NoScore THEN mine[i] ELSE sent[i]]

\* NET_GAME_WON: BroadCastMsg sends it without data, so won_id reads as 0
Won(g, id) ==
  [g EXCEPT !.game_won = TRUE, !.won_id = id, !.mShips = {}, !.spShip = FALSE]

\* The player's own ship is hit with no ship left; its score stays
LoseShip(g, i) == [g EXCEPT !.spShip = FALSE, !.mShips = @ \ {i}]

ProcessPacket(g, m) ==
  CASE m.type = "PLAYER_NEW"        -> CreateShip(g, m.id)
    [] m.type = "PLAYER_DEATH"      -> [g EXCEPT !.mShips = @ \ {m.id}]
    [] m.type = "SCORE_UPDATE"      ->
         [g EXCEPT !.mScores = CopyScores(@, m.scores)]
    [] m.type = "PLAYER_DISCONECTS" -> RemovePlayer(g, m.id)
    [] m.type = "GAME_OVER"         -> [g EXCEPT !.game_ended = TRUE]
    [] m.type = "GAME_WON"          -> Won(g, 0)
    [] OTHER                        -> g

\* NET_PLAYER_SHOT, _BOMB and _MISSILE dereference mShips[header.id] unchecked
NullShip(g, m) == m.type = "PLAYER_SHOT" /\ m.id \notin g.mShips

\* AllShipsPacketProcess(new_ship = true) followed by Game::Init
JoinGame(g, ships, id) ==
  LET known == ships \ g.mShips
      all   == g.mShips \cup ships \cup {id}
  IN  [g EXCEPT !.mShips = all, !.spShip = TRUE,
                !.mScores = [i \in Ids |-> IF \/ i \in known
                                              \/ i < Cardinality(all)
                                           THEN 0 ELSE @[i]]]

-----------------------------------------------------------------------------
(* server::SendMsg: to every client but the one the packet is about; id 0  *)
(* is the server itself, so then it is to all.                             *)

Recipients(cs, id) == {i \in cs : id = 0 \/ i # id}

\* expect_ack = false
Relayed(id, type, scores) ==
  {Data(Server, endpoint[i], type, id, Unnumbered, FALSE, scores) :
     i \in Recipients(mClients, id)}

\* expect_ack = true: each of the posts takes the next m_seq of each client
Post(type, scores) == [type |-> type, scores |-> scores]

Numbered(i, id, posts) ==
  {Data(Server, endpoint[i], posts[k].type, id, seq[i] + k, TRUE,
        posts[k].scores) : k \in 1 .. Len(posts)}

\* "stored" is sended and "sent" the datagrams before the broadcast
Broadcast(cs, id, posts, stored, sent) ==
  LET to == Recipients(cs, id)
  IN  /\ \A i \in to : seq[i] + Len(posts) <= MaxSeq
      /\ seq' = [i \in Ids |-> IF i \in to THEN seq[i] + Len(posts) ELSE seq[i]]
      /\ sended' = [i \in Ids |-> IF i \in to
                                  THEN stored[i] \cup Numbered(i, id, posts)
                                  ELSE stored[i]]
      /\ net' = net \cup sent \cup UNION {Numbered(i, id, posts) : i \in to}

-----------------------------------------------------------------------------
(* Server: datagrams.                                                      *)

Received(p, m) == m \in net /\ m.dst = p

\* RemoveClient
RemoveClient(i) ==
  /\ mClients' = mClients \ {i}
  /\ mGame' = [mGame EXCEPT ![Server] = RemovePlayer(@, i)]
  /\ Broadcast(mClients \ {i}, i, <<Post("PLAYER_DISCONECTS", NoScores)>>,
               [sended EXCEPT ![i] = {}], {})
  /\ UNCHANGED <<srv, clients_count, endpoint, clientVars, bullets, kills>>

\* ConnectClient, NET_FIN (RemoveClient ignores an unknown id)
ServerReceiveFin(m) ==
  /\ srv = "up"
  /\ Received(Server, m) /\ m.type = "CONECTION" /\ m.flag = "FIN"
  /\ m.id \in mClients
  /\ RemoveClient(m.id)

\* Mutant: the found client is missed
NeverTheSame(i, c) == FALSE

\* CheckDuplicateClient compares the new address with itself and then the ports
SameEndpoint(i, c) == Port[endpoint[i]] = Port[c]

SynAck(i, c) ==
  [Bare(Server, c, "SYN_ACK", "CONECTION", i, 0, TRUE)
     EXCEPT !.ships = mGame[Server].mShips]

\* Mutant: the new id is the number of clients
ServerReceiveSynReuse(m) ==
  /\ srv = "up"
  /\ Received(Server, m) /\ m.flag = "SYN"
  /\ \A i \in mClients : ~SameEndpoint(i, m.src)
  /\ Cardinality(mClients) < MaxId
  /\ LET new == Cardinality(mClients) + 1
         ans == SynAck(new, m.src)
     IN  /\ clients_count' = new
         /\ mClients' = mClients \cup {new}
         /\ endpoint' = [endpoint EXCEPT ![new] = m.src]
         /\ seq' = [seq EXCEPT ![new] = 0]
         /\ sended' = [sended EXCEPT ![new] = {ans}]
         /\ net' = net \cup {ans}
  /\ UNCHANGED <<srv, clientVars, mGame, bullets, kills>>

\* ConnectClient, NET_SYN from an address without a servers_client
ServerReceiveSyn(m) ==
  /\ srv = "up"
  /\ Received(Server, m) /\ m.flag = "SYN"
  /\ \A i \in mClients : ~SameEndpoint(i, m.src)
  /\ clients_count < MaxId
  /\ LET new == clients_count + 1
         ans == SynAck(new, m.src)
     IN  /\ clients_count' = new
         /\ mClients' = mClients \cup {new}
         /\ endpoint' = [endpoint EXCEPT ![new] = m.src]
         /\ seq' = [seq EXCEPT ![new] = 0]
         /\ sended' = [sended EXCEPT ![new] = {ans}]
         /\ net' = net \cup {ans}
  /\ UNCHANGED <<srv, clientVars, mGame, bullets, kills>>

\* ConnectClient, NET_SYN from an address that has one: it is answered again
ServerReceiveSynAgain(m) ==
  /\ srv = "up"
  /\ Received(Server, m) /\ m.flag = "SYN"
  /\ \E i \in mClients :
       /\ SameEndpoint(i, m.src)
       /\ LET ans == SynAck(i, endpoint[i])
          IN  /\ sended' = [sended EXCEPT ![i] = Store(@, ans)]
              /\ net' = net \cup {ans}
  /\ UNCHANGED <<srv, clients_count, mClients, endpoint, seq, clientVars,
                 mGame, bullets, kills>>

\* Mutant: the id is not looked up before the player enters the game
ConnectAckUnchecked(m) ==
  /\ srv = "up"
  /\ Received(Server, m) /\ m.type = "CONECTION" /\ m.flag = "ACK"
  /\ mGame' = [mGame EXCEPT ![Server] = CreateShip(@, m.id)]
  /\ Broadcast(mClients, m.id, <<Post("PLAYER_NEW", NoScores)>>,
               [sended EXCEPT ![m.id] = Erase(@, m.sequence)], {})
  /\ UNCHANGED <<srv, clients_count, mClients, endpoint, clientVars, bullets,
                 kills>>

\* ConnectClient, NET_ACK: the player enters the game
ServerReceiveConnectAck(m) ==
  /\ srv = "up"
  /\ Received(Server, m) /\ m.type = "CONECTION" /\ m.flag = "ACK"
  /\ m.id \in mClients
  /\ mGame' = [mGame EXCEPT ![Server] = CreateShip(@, m.id)]
  /\ Broadcast(mClients, m.id, <<Post("PLAYER_NEW", NoScores)>>,
               [sended EXCEPT ![m.id] = Erase(@, m.sequence)], {})
  /\ UNCHANGED <<srv, clients_count, mClients, endpoint, clientVars, bullets,
                 kills>>

\* the same for an id that is not in mClients: mClients[id] is a null pointer
ServerCrashOnConnectAck(m) ==
  /\ srv = "up"
  /\ Received(Server, m) /\ m.type = "CONECTION" /\ m.flag = "ACK"
  /\ m.id \notin mClients
  /\ srv' = "crashed"
  /\ UNCHANGED <<clients_count, mClients, endpoint, seq, sended, clientVars,
                 mGame, bullets, kills, net>>

\* ProcessPacket, NET_ACK (Update drops a packet of an unknown id)
ServerReceiveAck(m) ==
  /\ srv = "up"
  /\ Received(Server, m) /\ m.type # "CONECTION" /\ m.flag = "ACK"
  /\ m.id \in mClients
  /\ sended' = [sended EXCEPT ![m.id] = Erase(@, m.sequence)]
  /\ UNCHANGED <<srv, clients_count, mClients, endpoint, seq, clientVars,
                 mGame, bullets, kills, net>>

\* ProcessPacket, NET_SEQ: acknowledge, relay to the others, then play it
ServerReceiveData(m) ==
  /\ srv = "up"
  /\ Received(Server, m) /\ m.flag = "SEQ"
  /\ m.id \in mClients
  /\ net' = net \cup Relayed(m.id, m.type, m.scores)
              \cup (IF m.expect_ack THEN {AckOf(m, Server, endpoint[m.id], 0)}
                                    ELSE {})
  /\ \/ /\ NullShip(mGame[Server], m)
        /\ srv' = "crashed"
        /\ UNCHANGED <<mGame, bullets>>
     \/ /\ ~NullShip(mGame[Server], m)
        /\ mGame' = [mGame EXCEPT ![Server] = ProcessPacket(@, m)]
        /\ bullets' = IF m.type = "PLAYER_SHOT" THEN bullets \cup {m.id}
                                                ELSE bullets
        /\ srv' = srv
  /\ UNCHANGED <<clients_count, mClients, endpoint, seq, sended, clientVars,
                 kills>>

-----------------------------------------------------------------------------
(* Server: timers, game and shutdown.                                      *)

\* Update: servers_client::Update found current_alive_time over alive_timer
ServerTimeout(i) ==
  /\ srv = "up"
  /\ i \in mClients
  /\ RemoveClient(i)

\* Game::Update broadcasts the asteroids in every frame
ServerFrame ==
  /\ srv = "up"
  /\ Frames
  /\ net' = net \cup Relayed(0, "ASTEROID_UPDATE", NoScores)
  /\ UNCHANGED <<serverVars, clientVars, mGame, bullets, kills>>

ServerShoot ==
  /\ srv = "up"
  /\ Server \in Shooter
  /\ mGame[Server].spShip
  /\ bullets' = bullets \cup {0}
  /\ net' = net \cup Relayed(0, "PLAYER_SHOT", NoScores)
  /\ UNCHANGED <<serverVars, clientVars, mGame, kills>>

\* A projectile of player i destroys an asteroid: mScores[pSrc->m_id]++
ServerKill(i) ==
  /\ srv = "up"
  /\ i \in bullets
  /\ kills[i] < MaxKill
  /\ LET old   == mGame[Server].mScores
         table == [old EXCEPT ![i] = IF @ = NoScore THEN 1 ELSE @ + 1]
     IN  /\ mGame' = [mGame EXCEPT ![Server] = [@ EXCEPT !.mScores = table]]
         /\ net' = net \cup Relayed(0, "SCORE_UPDATE", table)
  /\ kills' = [kills EXCEPT ![i] = @ + 1]
  /\ UNCHANGED <<serverVars, clientVars, bullets>>

\* The server's ship is hit with no ship left
ServerDie ==
  /\ srv = "up"
  /\ Server \in Mortal
  /\ mGame[Server].spShip
  /\ mGame' = [mGame EXCEPT ![Server] = LoseShip(@, 0)]
  /\ Broadcast(mClients, 0,
               <<Post("PLAYER_DEATH", NoScores),
                 Post("SCORE_UPDATE", mGame[Server].mScores)>>, sended, {})
  /\ UNCHANGED <<srv, clients_count, mClients, endpoint, clientVars, bullets,
                 kills>>

\* Mutant: one point too early
EarlyWinners == {i \in Ids : mGame[Server].mScores[i] + 1 >= PointsToWin}

\* The head of Game::Update: no ship is left, or somebody has the points
Winners == {i \in Ids : mGame[Server].mScores[i] >= PointsToWin}

ServerEndGame ==
  /\ srv = "up"
  /\ ~mGame[Server].game_ended
  /\ ~mGame[Server].game_won
  /\ LET over  == mGame[Server].mShips = {}
         g     == [mGame[Server] EXCEPT !.game_ended = over]
         posts == IF over THEN <<Post("GAME_OVER", NoScores)>> ELSE <<>>
     IN  \/ /\ over /\ Winners = {}
            /\ mGame' = [mGame EXCEPT ![Server] = g]
            /\ Broadcast(mClients, 0, posts, sended, {})
         \/ \E i \in Winners :
              /\ mGame' = [mGame EXCEPT ![Server] = Won(g, i)]
              /\ Broadcast(mClients, 0,
                           Append(posts, Post("GAME_WON", NoScores)), sended, {})
  /\ UNCHANGED <<srv, clients_count, mClients, endpoint, clientVars, bullets,
                 kills>>

\* ShutDown: the window is closed, or 30 seconds have passed since the end
ServerClose ==
  /\ srv = "up"
  /\ srv' = "closed"
  /\ net' = net \cup {Bare(Server, endpoint[i], "FIN", "CONECTION", 0,
                           seq[i] + 1, TRUE) : i \in mClients}
  /\ sended' = [i \in Ids |-> {}]
  /\ UNCHANGED <<clients_count, mClients, endpoint, seq, clientVars, mGame,
                 bullets, kills>>

-----------------------------------------------------------------------------
(* Client: connection.                                                     *)

Syn(c) == Bare(c, Server, "SYN", "CONECTION", 0, 0, TRUE)

\* ConnectToServer sends the SYN.  Its retry timer adds GetDt(), which is 0
\* before the first frame has ended, so it never fires.
ClientStart(c) ==
  /\ pc[c] = "off"
  /\ pc' = [pc EXCEPT ![c] = "connecting"]
  /\ c_sended' = [c_sended EXCEPT ![c] = {Syn(c)}]
  /\ net' = net \cup {Syn(c)}
  /\ UNCHANGED <<serverVars, m_id, c_seq, mGame, bullets, kills>>

ConnectAck(c, id) == Bare(c, Server, "ACK", "CONECTION", id, 0, FALSE)

IsSynAck(m) == m.flag = "SYN_ACK" /\ m.type = "CONECTION" /\ m.sequence = 0

\* ConnectToServer, the first datagram is the SYN_ACK
ClientConnect(c, m) ==
  /\ pc[c] = "connecting"
  /\ Received(c, m) /\ IsSynAck(m)
  /\ pc' = [pc EXCEPT ![c] = "playing"]
  /\ m_id' = [m_id EXCEPT ![c] = m.id]
  /\ c_sended' = [c_sended EXCEPT ![c] = Erase(@, m.sequence)]
  /\ mGame' = [mGame EXCEPT ![c] = JoinGame(@, m.ships, m.id)]
  /\ net' = net \cup {ConnectAck(c, m.id)}
  /\ UNCHANGED <<serverVars, c_seq, bullets, kills>>

\* ConnectToServer, any other datagram: it returns false, Start ignores that,
\* and the client plays with id 0 and no ship
ClientConnectFails(c, m) ==
  /\ pc[c] = "connecting"
  /\ Received(c, m) /\ ~IsSynAck(m)
  /\ pc' = [pc EXCEPT ![c] = "playing"]
  /\ c_sended' = [c_sended EXCEPT ![c] = Erase(@, m.sequence)]
  /\ UNCHANGED <<serverVars, m_id, c_seq, mGame, bullets, kills, net>>

\* recvfrom fails: the host reports that nobody listens on the server's port
ClientConnectError(c) ==
  /\ pc[c] = "connecting"
  /\ srv # "up"
  /\ pc' = [pc EXCEPT ![c] = "playing"]
  /\ UNCHANGED <<serverVars, m_id, c_seq, c_sended, mGame, bullets, kills, net>>

-----------------------------------------------------------------------------
(* Client: datagrams, game and shutdown.                                   *)

\* ShutDown: window closed, game over for 30 seconds, server silent for 20
ClientQuit(c) ==
  /\ pc[c] = "playing"
  /\ pc' = [pc EXCEPT ![c] = "gone"]
  /\ c_sended' = [c_sended EXCEPT ![c] = {}]
  /\ net' = net \cup {Bare(c, Server, "FIN", "CONECTION", m_id[c], 0, TRUE)}
  /\ UNCHANGED <<serverVars, m_id, c_seq, mGame, bullets, kills>>

\* ProcessPacket, NET_FIN: the client leaves, unless a later datagram of the
\* same Update overwrites "alive", and then the FIN has no effect
ClientReceiveFin(c, m) ==
  /\ Received(c, m) /\ m.flag = "FIN"
  /\ ClientQuit(c)

\* ProcessPacket, NET_SYN_ACK: the acknowledgement carries this client's id
ClientReceiveSynAck(c, m) ==
  /\ pc[c] = "playing"
  /\ Received(c, m) /\ m.flag = "SYN_ACK"
  /\ net' = net \cup {ConnectAck(c, m_id[c])}
  /\ UNCHANGED <<serverVars, clientVars, mGame, bullets, kills>>

ClientReceiveAck(c, m) ==
  /\ pc[c] = "playing"
  /\ Received(c, m) /\ m.flag = "ACK"
  /\ c_sended' = [c_sended EXCEPT ![c] = Erase(@, m.sequence)]
  /\ UNCHANGED <<serverVars, pc, m_id, c_seq, mGame, bullets, kills, net>>

\* ProcessPacket, NET_SEQ: acknowledge, then play it
ClientReceiveData(c, m) ==
  /\ pc[c] = "playing"
  /\ Received(c, m) /\ m.flag = "SEQ"
  /\ net' = net \cup (IF m.expect_ack THEN {AckOf(m, c, Server, m_id[c])}
                                       ELSE {})
  /\ \/ /\ NullShip(mGame[c], m)
        /\ pc' = [pc EXCEPT ![c] = "crashed"]
        /\ UNCHANGED mGame
     \/ /\ ~NullShip(mGame[c], m)
        /\ mGame' = [mGame EXCEPT ![c] = ProcessPacket(@, m)]
        /\ UNCHANGED pc
  /\ UNCHANGED <<serverVars, m_id, c_seq, c_sended, bullets, kills>>

ClientShoot(c) ==
  /\ pc[c] = "playing"
  /\ c \in Shooter
  /\ mGame[c].spShip
  /\ net' = net \cup {Data(c, Server, "PLAYER_SHOT", m_id[c], Unnumbered,
                           FALSE, NoScores)}
  /\ UNCHANGED <<serverVars, clientVars, mGame, bullets, kills>>

\* The client's ship is hit with no ship left.  It reports its death, and its
\* own copy of the scores, to the server.
ClientDie(c) ==
  /\ pc[c] = "playing"
  /\ c \in Mortal
  /\ mGame[c].spShip
  /\ mGame' = [mGame EXCEPT ![c] = LoseShip(@, m_id[c])]
  /\ c_seq' = [c_seq EXCEPT ![c] = @ + 2]
  /\ LET sent == {Data(c, Server, "PLAYER_DEATH", m_id[c], c_seq[c] + 1, TRUE,
                       NoScores),
                  Data(c, Server, "SCORE_UPDATE", m_id[c], c_seq[c] + 2, TRUE,
                       mGame[c].mScores)}
     IN  /\ c_sended' = [c_sended EXCEPT ![c] = @ \cup sent]
         /\ net' = net \cup sent
  /\ UNCHANGED <<serverVars, pc, m_id, bullets, kills>>

-----------------------------------------------------------------------------
ServerReceive(m) ==
  \/ ServerReceiveFin(m)
  \/ ServerReceiveSyn(m)
  \/ ServerReceiveSynAgain(m)
  \/ ServerReceiveConnectAck(m)
  \/ ServerCrashOnConnectAck(m)
  \/ ServerReceiveAck(m)
  \/ ServerReceiveData(m)

ServerStep ==
  \/ \E i \in Ids : ServerTimeout(i) \/ ServerKill(i)
  \/ ServerFrame
  \/ ServerShoot
  \/ ServerDie
  \/ ServerEndGame
  \/ ServerClose

ClientReceive(c, m) ==
  \/ ClientConnect(c, m)
  \/ ClientConnectFails(c, m)
  \/ ClientReceiveFin(c, m)
  \/ ClientReceiveSynAck(c, m)
  \/ ClientReceiveAck(c, m)
  \/ ClientReceiveData(c, m)

ClientStep(c) ==
  \/ ClientStart(c)
  \/ ClientConnectError(c)
  \/ ClientQuit(c)
  \/ ClientShoot(c)
  \/ ClientDie(c)

Next ==
  \/ \E m \in net : ServerReceive(m)
  \/ ServerStep
  \/ \E c \in Client : ClientStep(c) \/ \E m \in net : ClientReceive(c, m)

Spec == Init /\ [][Next]_vars

-----------------------------------------------------------------------------
(* Properties.                                                             *)

(* A ship the server shows belongs to the server's own player or to a      *)
(* connected client: RemoveClient takes the ship before it forgets the     *)
(* client, and no late packet of that client brings the ship back.         *)
ServerShipsConnected == mGame[Server].mShips \subseteq {0} \cup mClients

(* CheckDuplicateClient: however often a SYN is repeated, one address has  *)
(* at most one servers_client at a time.                                   *)
OneSessionPerAddress ==
  \A i, j \in mClients : Port[endpoint[i]] = Port[endpoint[j]] => i = j

(* Two clients never play under the same id, even if their hosts gave them *)
(* the same port: a SYN_ACK only goes to the address its id was given to.  *)
UniqueIds ==
  \A c, d \in Client : c # d /\ m_id[c] = m_id[d] => m_id[c] = 0

(* No process ever shows, and no packet ever carries, more points for a    *)
(* player than asteroids that player destroyed, whatever stale tables are  *)
(* applied in whatever order.                                              *)
ScoresEarned ==
  /\ \A p \in Proc : \A i \in Ids : mGame[p].mScores[i] <= kills[i]
  /\ \A m \in net : \A i \in Ids : m.scores[i] <= kills[i]

(* The server declares a winner only if that player really destroyed       *)
(* points_to_win asteroids.                                                *)
WinnerEarned ==
  mGame[Server].game_won => kills[mGame[Server].won_id] >= PointsToWin

(* Membership is replicated: a connected client shows the ship of every    *)
(* other player the server shows, or the packet that creates it is still   *)
(* waiting for the client's acknowledgement, or the player's death or the  *)
(* end of the game has been announced.  The client's address must have had *)
(* no other session: what an earlier one sent carries the same numbers,    *)
(* and its late acknowledgement erases what the present one still waits    *)
(* for (server.cpp:200).                                                   *)
Announced(p) ==
  \E m \in net : \/ m.type = "PLAYER_DEATH" /\ m.id = p
                 \/ m.type = "GAME_WON"

Sessions == 1 .. clients_count
OnlySession(i) == \A j \in Sessions : endpoint[j] = endpoint[i] => j = i

PlayersReplicated ==
  \A c \in Client :
    srv = "up" /\ pc[c] = "playing" /\ m_id[c] \in mClients /\ OnlySession(m_id[c]) =>
      \A p \in mGame[Server].mShips \ {m_id[c]} :
        \/ p \in mGame[c].mShips
        \/ \E m \in sended[m_id[c]] : m.type = "PLAYER_NEW" /\ m.id = p
        \/ Announced(p)

(* A removed id stays removed: no later SYN, ACK, score table or death     *)
(* lets the server hold a session or a ship for it again.                  *)
RemovedForGood ==
  [][\A i \in 1 .. clients_count :
       i \notin mClients => i \notin mClients' /\ i \notin mGame'[Server].mShips]_vars

-----------------------------------------------------------------------------
(* What the documentation and the comments say, and the code does not do.  *)

(* client.cpp:224: "if the server didnt recieved the acknowledge of the     *)
(* syn ack connect we resend it".  An acknowledgement that is resent, or   *)
(* late, should not bring the server down.                                 *)
ReackIsHarmless ==
  [][~\E m \in net : ServerCrashOnConnectAck(m)]_vars

(* server.cpp:152: "if the connection is ended so we remove the client     *)
(* from every simulation".  Once a client has acknowledged everything the  *)
(* server sent to it, it shows no ship of a removed client.                *)
RemovedEverywhere ==
  \A c \in Client :
    /\ srv = "up" /\ pc[c] = "playing" /\ m_id[c] \in mClients
    /\ sended[m_id[c]] = {}
    => mGame[c].mShips \subseteq {0} \cup mClients

=============================================================================
