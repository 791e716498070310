------------------------ MODULE SaveUsSession_proofs ------------------------
(***************************************************************************)
(* Theorems about SaveUsSession for any number of clients, whatever ports  *)
(* they have and whatever the bounds are: types, membership, who is who on *)
(* the wire; and, in the second part, what a session shares: the points a  *)
(* table shows were earned, and so was a victory, and every client learns  *)
(* of every player.                                                        *)
(***************************************************************************)
EXTENDS SaveUsSession, TLAPS

(* What the proofs need to know of the constants.                          *)
LEMMA ConstantFacts ==
  /\ Server \notin Client
  /\ Server \in Proc
  /\ Client \subseteq Proc
  /\ 0 \in Ids
  /\ Ids \subseteq Nat
  /\ NoScores \in Tables
BY SessionAssumption
DEF SessionAssumption, Proc, Ids, NoScores, NoScore, Tables

-----------------------------------------------------------------------------
(* Packets.                                                                *)

(* CreateHeader makes a packet of well-typed parts. *)
LEMMA BareType ==
  ASSUME NEW src \in Proc, NEW dst \in Proc, NEW flag \in Flags,
         NEW type \in Types, NEW id \in Ids,
         NEW sequence \in Nat \cup {Unnumbered}, NEW expect_ack \in BOOLEAN
  PROVE  Bare(src, dst, flag, type, id, sequence, expect_ack) \in Packet
BY ConstantFacts DEF Bare, Packet

LEMMA DataType ==
  ASSUME NEW src \in Proc, NEW dst \in Proc, NEW type \in Types, NEW id \in Ids,
         NEW sequence \in Nat \cup {Unnumbered}, NEW expect_ack \in BOOLEAN,
         NEW scores \in Tables
  PROVE  Data(src, dst, type, id, sequence, expect_ack, scores) \in Packet
BY ConstantFacts DEF Data, Bare, Packet, Flags

LEMMA AckType ==
  ASSUME NEW m \in Packet, NEW src \in Proc, NEW dst \in Proc, NEW id \in Ids
  PROVE  AckOf(m, src, dst, id) \in Packet
<1>1. m.type \in Types /\ m.sequence \in Nat \cup {Unnumbered} BY DEF Packet
<1>2. QED BY <1>1, BareType DEF AckOf, Flags

(* erase removes packets and adds none; storing adds the one stored. *)
LEMMA EraseSubset ==
  ASSUME NEW S, NEW n
  PROVE  Erase(S, n) \subseteq S
BY DEF Erase

LEMMA StoreType ==
  ASSUME NEW S \in SUBSET Packet, NEW m \in Packet
  PROVE  Store(S, m) \in SUBSET Packet
BY DEF Store, Erase

-----------------------------------------------------------------------------
(* The game's side of a packet.                                            *)

LEMMA CreateShipType ==
  ASSUME NEW g \in World, NEW i \in Ids
  PROVE  CreateShip(g, i) \in World
<1>1. [g.mScores EXCEPT ![i] = 0] \in Tables BY DEF World, Tables
<1>2. QED BY <1>1 DEF CreateShip, World

LEMMA RemovePlayerType ==
  ASSUME NEW g \in World, NEW i \in Ids
  PROVE  RemovePlayer(g, i) \in World
<1>1. [g.mScores EXCEPT ![i] = NoScore] \in Tables BY DEF World, Tables
<1>2. QED BY <1>1 DEF RemovePlayer, World

LEMMA CopyScoresType ==
  ASSUME NEW mine \in Tables, NEW sent \in Tables
  PROVE  CopyScores(mine, sent) \in Tables
BY DEF CopyScores, Tables

LEMMA WonType ==
  ASSUME NEW g \in World, NEW i \in Ids
  PROVE  Won(g, i) \in World
BY DEF Won, World

LEMMA LoseShipType ==
  ASSUME NEW g \in World, NEW i \in Ids
  PROVE  LoseShip(g, i) \in World
BY DEF LoseShip, World

LEMMA JoinGameType ==
  ASSUME NEW g \in World, NEW ships \in SUBSET Ids, NEW i \in Ids
  PROVE  JoinGame(g, ships, i) \in World
<1> DEFINE all == g.mShips \cup ships \cup {i}
           table == [k \in Ids |-> IF \/ k \in ships \ g.mShips
                                      \/ k < Cardinality(all)
                                   THEN 0 ELSE g.mScores[k]]
<1>1. table \in Tables BY DEF World, Tables
<1>2. all \in SUBSET Ids BY DEF World
<1>3. JoinGame(g, ships, i) =
        [g EXCEPT !.mShips = all, !.spShip = TRUE, !.mScores = table]
  BY DEF JoinGame
<1>4. QED BY <1>1, <1>2, <1>3 DEF World

(* Every packet leaves a well-typed game. *)
LEMMA ProcessPacketType ==
  ASSUME NEW g \in World, NEW m \in Packet
  PROVE  ProcessPacket(g, m) \in World
<1>1. m.id \in Ids /\ m.scores \in Tables /\ 0 \in Ids
  BY ConstantFacts DEF Packet
<1>2. CreateShip(g, m.id) \in World BY <1>1, CreateShipType
<1>3. [g EXCEPT !.mShips = @ \ {m.id}] \in World BY DEF World
<1>4. [g EXCEPT !.mScores = CopyScores(@, m.scores)] \in World
  <2>1. CopyScores(g.mScores, m.scores) \in Tables
    BY <1>1, CopyScoresType DEF World
  <2>2. QED BY <2>1 DEF World
<1>5. RemovePlayer(g, m.id) \in World BY <1>1, RemovePlayerType
<1>6. [g EXCEPT !.game_ended = TRUE] \in World BY DEF World
<1>7. Won(g, 0) \in World BY <1>1, WonType
<1>8. QED BY <1>2, <1>3, <1>4, <1>5, <1>6, <1>7 DEF ProcessPacket

-----------------------------------------------------------------------------
(* server::SendMsg.                                                        *)

LEMMA RelayedType ==
  ASSUME TypeOK, NEW id \in Ids, NEW type \in Types, NEW scores \in Tables
  PROVE  Relayed(id, type, scores) \subseteq Packet
<1>1. ASSUME NEW i \in Recipients(mClients, id)
      PROVE  Data(Server, endpoint[i], type, id, Unnumbered, FALSE, scores) \in Packet
  <2>1. endpoint[i] \in Proc BY DEF TypeOK, Recipients
  <2>2. QED BY <2>1, DataType, ConstantFacts
<1>2. QED BY <1>1 DEF Relayed

Posting == [type : Types, scores : Tables]
Posts   == Seq(Posting)

LEMMA NumberedType ==
  ASSUME TypeOK, NEW i \in Ids, NEW id \in Ids, NEW posts \in Posts
  PROVE  Numbered(i, id, posts) \subseteq Packet
<1>1. endpoint[i] \in Proc /\ seq[i] \in Nat BY DEF TypeOK
<1>2. ASSUME NEW k \in 1 .. Len(posts)
      PROVE  Data(Server, endpoint[i], posts[k].type, id, seq[i] + k, TRUE,
                  posts[k].scores) \in Packet
  <2>1. posts[k] \in Posting BY DEF Posts
  <2>2. posts[k].type \in Types /\ posts[k].scores \in Tables BY <2>1
  DEF Posting
  <2>3. seq[i] + k \in Nat \cup {Unnumbered} BY <1>1
  <2>4. QED BY <1>1, <2>2, <2>3, DataType, ConstantFacts
<1>3. QED BY <1>2 DEF Numbered

(* The packets of a broadcast. *)
LEMMA NumberedSets ==
  ASSUME TypeOK, NEW cs \in SUBSET Ids, NEW id \in Ids, NEW posts \in Posts
  PROVE  /\ \A k \in Recipients(cs, id) : Numbered(k, id, posts) \subseteq Packet
         /\ Len(posts) \in Nat
BY NumberedType DEF Recipients, Posts

LEMMA PostType ==
  ASSUME NEW type \in Types, NEW scores \in Tables
  PROVE  Post(type, scores) \in Posting
BY DEF Post, Posting

(* The fields of a datagram on the network. *)
LEMMA FieldTypes ==
  ASSUME TypeOK, NEW m \in net
  PROVE  /\ m \in Packet
         /\ m.src \in Proc /\ m.dst \in Proc /\ m.id \in Ids /\ m.type \in Types
         /\ m.sequence \in Nat \cup {Unnumbered}
         /\ m.ships \in SUBSET Ids /\ m.scores \in Tables
BY DEF TypeOK, Packet

-----------------------------------------------------------------------------
(* Type correctness.                                                       *)

LEMMA RemoveClientType ==
  ASSUME TypeOK, NEW i \in Ids, RemoveClient(i)
  PROVE  TypeOK'
<1> DEFINE posts == <<Post("PLAYER_DISCONECTS", NoScores)>>
           stored == [sended EXCEPT ![i] = {}]
<1>1. posts \in Posts
  <2>1. Post("PLAYER_DISCONECTS", NoScores) \in Posting
    BY PostType, ConstantFacts DEF Types
  <2>2. QED BY <2>1 DEF Posts
<1>2. stored \in [Ids -> SUBSET Packet] BY DEF TypeOK
<1>3. Broadcast(mClients \ {i}, i, posts, stored, {}) BY DEF RemoveClient
<1>4. /\ seq' \in [Ids -> Nat]
      /\ sended' \in [Ids -> SUBSET Packet]
      /\ net' \subseteq Packet
  <2> HIDE DEF posts, stored
  <2>1. mClients \ {i} \in SUBSET Ids BY DEF TypeOK
  <2>2. /\ \A k \in Recipients(mClients \ {i}, i) : Numbered(k, i, posts) \subseteq Packet
        /\ Len(posts) \in Nat
    BY <1>1, <2>1, NumberedSets
  <2>3. seq' \in [Ids -> Nat] BY <1>3, <2>2 DEF Broadcast, TypeOK
  <2>4. sended' \in [Ids -> SUBSET Packet] BY <1>2, <1>3, <2>2 DEF Broadcast
  <2>5. net' \subseteq Packet BY <1>3, <2>2 DEF Broadcast, TypeOK
  <2>6. QED BY <2>3, <2>4, <2>5
<1>5. mGame' \in [Proc -> World]
  BY ConstantFacts, RemovePlayerType DEF RemoveClient, TypeOK
<1>6. QED BY <1>4, <1>5 DEF RemoveClient, TypeOK, clientVars

LEMMA SynAckType ==
  ASSUME TypeOK, NEW i \in Ids, NEW c \in Proc
  PROVE  SynAck(i, c) \in Packet
<1>1. Bare(Server, c, "SYN_ACK", "CONECTION", i, 0, TRUE) \in Packet
  BY BareType, ConstantFacts DEF Flags, Types
<1>2. mGame[Server].mShips \in SUBSET Ids
  BY ConstantFacts DEF TypeOK, World
<1>3. QED BY <1>1, <1>2 DEF SynAck, Packet

LEMMA ServerReceiveType ==
  ASSUME TypeOK, NEW m \in net, ServerReceive(m)
  PROVE  TypeOK'
<1>1. CASE ServerReceiveFin(m)
  BY <1>1, FieldTypes, RemoveClientType DEF ServerReceiveFin
<1>2. CASE ServerReceiveSyn(m)
  <2> DEFINE new == clients_count + 1
  <2>1. new \in Ids BY <1>2, SessionAssumption
  DEF ServerReceiveSyn, TypeOK, Ids, SessionAssumption
  <2>2. SynAck(new, m.src) \in Packet BY <2>1, FieldTypes, SynAckType
  <2> HIDE DEF new
  <2>3. /\ clients_count' = new
        /\ mClients' = mClients \cup {new}
        /\ endpoint' = [endpoint EXCEPT ![new] = m.src]
        /\ seq' = [seq EXCEPT ![new] = 0]
        /\ sended' = [sended EXCEPT ![new] = {SynAck(new, m.src)}]
        /\ net' = net \cup {SynAck(new, m.src)}
    BY <1>2 DEF ServerReceiveSyn, new
  <2>4. QED BY <1>2, <2>1, <2>2, <2>3, FieldTypes
  DEF ServerReceiveSyn, TypeOK, clientVars
<1>3. CASE ServerReceiveSynAgain(m)
  <2>1. PICK i \in mClients :
          /\ sended' = [sended EXCEPT ![i] = Store(@, SynAck(i, endpoint[i]))]
          /\ net' = net \cup {SynAck(i, endpoint[i])}
    BY <1>3 DEF ServerReceiveSynAgain
  <2>2. i \in Ids /\ endpoint[i] \in Proc /\ sended[i] \in SUBSET Packet BY
  DEF TypeOK
  <2>3. SynAck(i, endpoint[i]) \in Packet BY <2>2, SynAckType
  <2>4. Store(sended[i], SynAck(i, endpoint[i])) \in SUBSET Packet
    BY <2>2, <2>3, StoreType
  <2>5. QED BY <1>3, <2>1, <2>3, <2>4
  DEF ServerReceiveSynAgain, TypeOK, clientVars
<1>4. CASE ServerReceiveConnectAck(m)
  <2> DEFINE posts == <<Post("PLAYER_NEW", NoScores)>>
             stored == [sended EXCEPT ![m.id] = Erase(@, m.sequence)]
  <2>1. posts \in Posts
    <3>1. Post("PLAYER_NEW", NoScores) \in Posting BY PostType, ConstantFacts
    DEF Types
    <3>2. QED BY <3>1 DEF Posts
  <2>2. stored \in [Ids -> SUBSET Packet] BY FieldTypes, EraseSubset DEF TypeOK
  <2>3. Broadcast(mClients, m.id, posts, stored, {}) BY <1>4
  DEF ServerReceiveConnectAck
  <2>4. /\ seq' \in [Ids -> Nat]
        /\ sended' \in [Ids -> SUBSET Packet]
        /\ net' \subseteq Packet
    <3> HIDE DEF posts, stored
    <3>1. mClients \in SUBSET Ids /\ m.id \in Ids BY FieldTypes DEF TypeOK
    <3>2. /\ \A k \in Recipients(mClients, m.id) : Numbered(k, m.id, posts) \subseteq Packet
          /\ Len(posts) \in Nat
      BY <2>1, <3>1, NumberedSets
    <3>3. seq' \in [Ids -> Nat] BY <2>3, <3>2 DEF Broadcast, TypeOK
    <3>4. sended' \in [Ids -> SUBSET Packet] BY <2>2, <2>3, <3>2 DEF Broadcast
    <3>5. net' \subseteq Packet BY <2>3, <3>2 DEF Broadcast, TypeOK
    <3>6. QED BY <3>3, <3>4, <3>5
  <2>5. mGame' \in [Proc -> World]
    BY <1>4, ConstantFacts, FieldTypes, CreateShipType
    DEF ServerReceiveConnectAck, TypeOK
  <2>6. QED BY <1>4, <2>4, <2>5 DEF ServerReceiveConnectAck, TypeOK, clientVars
<1>5. CASE ServerCrashOnConnectAck(m)
  BY <1>5 DEF ServerCrashOnConnectAck, TypeOK, clientVars
<1>6. CASE ServerReceiveAck(m)
  <2>1. sended' \in [Ids -> SUBSET Packet]
    BY <1>6, FieldTypes, EraseSubset DEF ServerReceiveAck, TypeOK
  <2>2. QED BY <1>6, <2>1 DEF ServerReceiveAck, TypeOK, clientVars
<1>7. CASE ServerReceiveData(m)
  <2>1. m.id \in mClients /\ endpoint[m.id] \in Proc
    BY <1>7, FieldTypes DEF ServerReceiveData, TypeOK
  <2>2. Relayed(m.id, m.type, m.scores) \subseteq Packet BY FieldTypes, RelayedType
  <2>3. AckOf(m, Server, endpoint[m.id], 0) \in Packet
    BY <2>1, FieldTypes, ConstantFacts, AckType
  <2>4. net' \subseteq Packet BY <1>7, <2>2, <2>3 DEF ServerReceiveData, TypeOK
  <2>5. mGame' \in [Proc -> World]
    BY <1>7, ConstantFacts, FieldTypes, ProcessPacketType
    DEF ServerReceiveData, TypeOK
  <2>6. srv' \in {"up", "closed", "crashed"} /\ bullets' \subseteq Ids
    BY <1>7, FieldTypes DEF ServerReceiveData, TypeOK
  <2>7. QED BY <1>7, <2>4, <2>5, <2>6 DEF ServerReceiveData, TypeOK, clientVars
<1>8. QED BY <1>1, <1>2, <1>3, <1>4, <1>5, <1>6, <1>7 DEF ServerReceive

(* The server's game with a new score table. *)
LEMMA KillType ==
  ASSUME TypeOK, NEW i \in Ids, ServerKill(i)
  PROVE  TypeOK'
<1> DEFINE old   == mGame[Server].mScores
           table == [old EXCEPT ![i] = IF @ = NoScore THEN 1 ELSE @ + 1]
<1>1. old \in Tables BY ConstantFacts DEF TypeOK, World
<1>2. table \in Tables BY <1>1 DEF Tables, NoScore
<1>3. /\ mGame' = [mGame EXCEPT ![Server] = [@ EXCEPT !.mScores = table]]
      /\ net' = net \cup Relayed(0, "SCORE_UPDATE", table)
      /\ kills' = [kills EXCEPT ![i] = @ + 1]
  BY DEF ServerKill
<1> HIDE DEF table
<1>4. mGame' \in [Proc -> World]
  BY <1>2, <1>3, ConstantFacts DEF TypeOK, World
<1>5. Relayed(0, "SCORE_UPDATE", table) \subseteq Packet
  BY <1>2, ConstantFacts, RelayedType DEF Types
<1>6. QED BY <1>3, <1>4, <1>5 DEF ServerKill, TypeOK, serverVars, clientVars

LEMMA ServerDieType ==
  ASSUME TypeOK, ServerDie
  PROVE  TypeOK'
<1> DEFINE posts == <<Post("PLAYER_DEATH", NoScores),
                      Post("SCORE_UPDATE", mGame[Server].mScores)>>
<1>1. posts \in Posts
  <2>1. mGame[Server].mScores \in Tables BY ConstantFacts DEF TypeOK, World
  <2>2. Post("PLAYER_DEATH", NoScores) \in Posting
    BY PostType, ConstantFacts DEF Types
  <2>3. Post("SCORE_UPDATE", mGame[Server].mScores) \in Posting
    BY <2>1, PostType DEF Types
  <2>4. QED BY <2>2, <2>3 DEF Posts
<1>2. Broadcast(mClients, 0, posts, sended, {}) BY DEF ServerDie
<1>3. /\ seq' \in [Ids -> Nat]
      /\ sended' \in [Ids -> SUBSET Packet]
      /\ net' \subseteq Packet
  <2> HIDE DEF posts
  <2>1. mClients \in SUBSET Ids BY DEF TypeOK
  <2>2. /\ \A k \in Recipients(mClients, 0) : Numbered(k, 0, posts) \subseteq Packet
        /\ Len(posts) \in Nat
    BY <1>1, <2>1, ConstantFacts, NumberedSets
  <2>3. seq' \in [Ids -> Nat] BY <1>2, <2>2 DEF Broadcast, TypeOK
  <2>4. sended' \in [Ids -> SUBSET Packet] BY <1>2, <2>2 DEF Broadcast, TypeOK
  <2>5. net' \subseteq Packet BY <1>2, <2>2 DEF Broadcast, TypeOK
  <2>6. QED BY <2>3, <2>4, <2>5
<1>4. mGame' \in [Proc -> World]
  BY ConstantFacts, LoseShipType DEF ServerDie, TypeOK
<1>5. QED BY <1>3, <1>4 DEF ServerDie, TypeOK, clientVars

(* Both ways the game can end broadcast one or two packets. *)
LEMMA ServerEndGameType ==
  ASSUME TypeOK, ServerEndGame
  PROVE  TypeOK'
<1> DEFINE over == mGame[Server].mShips = {}
           g    == [mGame[Server] EXCEPT !.game_ended = over]
           first == IF over THEN <<Post("GAME_OVER", NoScores)>> ELSE <<>>
           both  == Append(first, Post("GAME_WON", NoScores))
<1>1. Post("GAME_OVER", NoScores) \in Posting /\ Post("GAME_WON", NoScores) \in Posting
  BY PostType, ConstantFacts DEF Types
<1>2. first \in Posts
  BY <1>1 DEF Posts
<1>3. both \in Posts
  <2> HIDE DEF first
  <2>1. QED BY <1>1, <1>2 DEF Posts
<1>4. g \in World BY ConstantFacts DEF TypeOK, World
<1>5. PICK posts \in {first, both}, h \in World :
        /\ mGame' = [mGame EXCEPT ![Server] = h]
        /\ Broadcast(mClients, 0, posts, sended, {})
  <2>1. \/ /\ mGame' = [mGame EXCEPT ![Server] = g]
           /\ Broadcast(mClients, 0, first, sended, {})
        \/ \E i \in Winners :
             /\ mGame' = [mGame EXCEPT ![Server] = Won(g, i)]
             /\ Broadcast(mClients, 0, both, sended, {})
    BY DEF ServerEndGame
  <2>2. \A i \in Winners : Won(g, i) \in World BY <1>4, WonType DEF Winners
  <2> HIDE DEF over, g, first, both
  <2>3. QED BY <1>4, <2>1, <2>2
<1> HIDE DEF over, g, first, both
<1>6. /\ seq' \in [Ids -> Nat]
      /\ sended' \in [Ids -> SUBSET Packet]
      /\ net' \subseteq Packet
  <2>1. mClients \in SUBSET Ids /\ posts \in Posts BY <1>2, <1>3 DEF TypeOK
  <2>2. /\ \A k \in Recipients(mClients, 0) : Numbered(k, 0, posts) \subseteq Packet
        /\ Len(posts) \in Nat
    BY <2>1, ConstantFacts, NumberedSets
  <2>3. seq' \in [Ids -> Nat] BY <1>5, <2>2 DEF Broadcast, TypeOK
  <2>4. sended' \in [Ids -> SUBSET Packet] BY <1>5, <2>2 DEF Broadcast, TypeOK
  <2>5. net' \subseteq Packet BY <1>5, <2>2 DEF Broadcast, TypeOK
  <2>6. QED BY <2>3, <2>4, <2>5
<1>7. mGame' \in [Proc -> World] BY <1>5, ConstantFacts DEF TypeOK
<1>8. QED BY <1>6, <1>7 DEF ServerEndGame, TypeOK, clientVars

LEMMA ServerStepType ==
  ASSUME TypeOK, ServerStep
  PROVE  TypeOK'
<1>1. ASSUME NEW i \in Ids, ServerTimeout(i) PROVE TypeOK'
  BY <1>1, RemoveClientType DEF ServerTimeout
<1>2. ASSUME NEW i \in Ids, ServerKill(i) PROVE TypeOK' BY <1>2, KillType
<1>3. CASE ServerFrame
  <2>1. Relayed(0, "ASTEROID_UPDATE", NoScores) \subseteq Packet
    BY ConstantFacts, RelayedType DEF Types
  <2>2. QED BY <1>3, <2>1 DEF ServerFrame, TypeOK, serverVars, clientVars
<1>4. CASE ServerShoot
  <2>1. Relayed(0, "PLAYER_SHOT", NoScores) \subseteq Packet
    BY ConstantFacts, RelayedType DEF Types
  <2>2. QED BY <1>4, <2>1, ConstantFacts
  DEF ServerShoot, TypeOK, serverVars, clientVars
<1>5. CASE ServerDie BY <1>5, ServerDieType
<1>6. CASE ServerEndGame BY <1>6, ServerEndGameType
<1>7. CASE ServerClose
  <2>1. ASSUME NEW i \in mClients
        PROVE  Bare(Server, endpoint[i], "FIN", "CONECTION", 0, seq[i] + 1, TRUE) \in Packet
    <3>1. endpoint[i] \in Proc /\ seq[i] + 1 \in Nat \cup {Unnumbered} BY
    DEF TypeOK
    <3>2. QED BY <3>1, BareType, ConstantFacts DEF Flags, Types
  <2>2. net' \subseteq Packet BY <1>7, <2>1 DEF ServerClose, TypeOK
  <2>3. QED BY <1>7, <2>2 DEF ServerClose, TypeOK, clientVars
<1>8. QED BY <1>1, <1>2, <1>3, <1>4, <1>5, <1>6, <1>7 DEF ServerStep

LEMMA ClientReceiveType ==
  ASSUME TypeOK, NEW c \in Client, NEW m \in net, ClientReceive(c, m)
  PROVE  TypeOK'
<1>1. c \in Proc /\ m_id[c] \in Ids BY ConstantFacts DEF TypeOK
<1>2. ASSUME NEW i \in Ids PROVE ConnectAck(c, i) \in Packet
  BY <1>1, BareType, ConstantFacts DEF ConnectAck, Flags, Types
<1>3. CASE ClientConnect(c, m)
  <2>1. mGame' \in [Proc -> World]
    BY <1>1, <1>3, FieldTypes, JoinGameType DEF ClientConnect, TypeOK
  <2>2. c_sended' \in [Client -> SUBSET Packet]
    BY <1>3, EraseSubset DEF ClientConnect, TypeOK
  <2>3. net' \subseteq Packet BY <1>2, <1>3, FieldTypes
  DEF ClientConnect, TypeOK
  <2>4. QED BY <1>3, <2>1, <2>2, <2>3, FieldTypes
  DEF ClientConnect, TypeOK, serverVars
<1>4. CASE ClientConnectFails(c, m)
  <2>1. c_sended' \in [Client -> SUBSET Packet]
    BY <1>4, EraseSubset DEF ClientConnectFails, TypeOK
  <2>2. QED BY <1>4, <2>1 DEF ClientConnectFails, TypeOK, serverVars
<1>5. CASE ClientReceiveFin(c, m)
  <2>1. Bare(c, Server, "FIN", "CONECTION", m_id[c], 0, TRUE) \in Packet
    BY <1>1, BareType, ConstantFacts DEF Flags, Types
  <2>2. QED BY <1>5, <2>1 DEF ClientReceiveFin, ClientQuit, TypeOK, serverVars
<1>6. CASE ClientReceiveSynAck(c, m)
  BY <1>1, <1>2, <1>6 DEF ClientReceiveSynAck, TypeOK, serverVars, clientVars
<1>7. CASE ClientReceiveAck(c, m)
  <2>1. c_sended' \in [Client -> SUBSET Packet]
    BY <1>7, EraseSubset DEF ClientReceiveAck, TypeOK
  <2>2. QED BY <1>7, <2>1 DEF ClientReceiveAck, TypeOK, serverVars
<1>8. CASE ClientReceiveData(c, m)
  <2>1. AckOf(m, c, Server, m_id[c]) \in Packet
    BY <1>1, FieldTypes, ConstantFacts, AckType
  <2>2. net' \subseteq Packet BY <1>8, <2>1 DEF ClientReceiveData, TypeOK
  <2>3. mGame' \in [Proc -> World]
    BY <1>1, <1>8, FieldTypes, ProcessPacketType DEF ClientReceiveData, TypeOK
  <2>4. pc' \in [Client -> {"off", "connecting", "playing", "gone", "crashed"}]
    BY <1>8 DEF ClientReceiveData, TypeOK
  <2>5. QED BY <1>8, <2>2, <2>3, <2>4 DEF ClientReceiveData, TypeOK, serverVars
<1>9. QED BY <1>3, <1>4, <1>5, <1>6, <1>7, <1>8 DEF ClientReceive

LEMMA ClientStepType ==
  ASSUME TypeOK, NEW c \in Client, ClientStep(c)
  PROVE  TypeOK'
<1>1. c \in Proc /\ m_id[c] \in Ids /\ c_seq[c] \in Nat
  BY ConstantFacts DEF TypeOK
<1>2. CASE ClientStart(c)
  <2>1. Syn(c) \in Packet BY <1>1, BareType, ConstantFacts
  DEF Syn, Flags, Types
  <2>2. QED BY <1>2, <2>1 DEF ClientStart, TypeOK, serverVars
<1>3. CASE ClientConnectError(c)
  BY <1>3 DEF ClientConnectError, TypeOK, serverVars
<1>4. CASE ClientQuit(c)
  <2>1. Bare(c, Server, "FIN", "CONECTION", m_id[c], 0, TRUE) \in Packet
    BY <1>1, BareType, ConstantFacts DEF Flags, Types
  <2>2. QED BY <1>4, <2>1 DEF ClientQuit, TypeOK, serverVars
<1>5. CASE ClientShoot(c)
  <2>1. Data(c, Server, "PLAYER_SHOT", m_id[c], Unnumbered, FALSE, NoScores) \in Packet
    BY <1>1, DataType, ConstantFacts DEF Types
  <2>2. QED BY <1>5, <2>1 DEF ClientShoot, TypeOK, serverVars, clientVars
<1>6. CASE ClientDie(c)
  <2>1. mGame[c] \in World /\ mGame[c].mScores \in Tables BY <1>1
  DEF TypeOK, World
  <2>2. /\ c_seq[c] + 1 \in Nat \cup {Unnumbered}
        /\ c_seq[c] + 2 \in Nat \cup {Unnumbered}
        /\ c_seq[c] + 2 \in Nat
    BY <1>1
  <2>3. Data(c, Server, "PLAYER_DEATH", m_id[c], c_seq[c] + 1, TRUE, NoScores) \in Packet
    BY <1>1, <2>2, DataType, ConstantFacts DEF Types
  <2>4. Data(c, Server, "SCORE_UPDATE", m_id[c], c_seq[c] + 2, TRUE,
             mGame[c].mScores) \in Packet
    BY <1>1, <2>1, <2>2, DataType, ConstantFacts DEF Types
  <2>5. mGame' \in [Proc -> World]
    BY <1>1, <1>6, LoseShipType DEF ClientDie, TypeOK
  <2>6. c_seq' \in [Client -> Nat] BY <1>6, <2>2 DEF ClientDie, TypeOK
  <2>7. c_sended' \in [Client -> SUBSET Packet] /\ net' \subseteq Packet
    BY <1>6, <2>3, <2>4 DEF ClientDie, TypeOK
  <2>8. QED BY <1>6, <2>5, <2>6, <2>7 DEF ClientDie, TypeOK, serverVars
<1>7. QED BY <1>2, <1>3, <1>4, <1>5, <1>6 DEF ClientStep

LEMMA InitType ==
  ASSUME Init
  PROVE  TypeOK
<1>1. EmptyGame \in World /\ ServerGame \in World
  BY ConstantFacts DEF EmptyGame, ServerGame, World, Tables
<1>2. QED BY <1>1, ConstantFacts DEF Init, TypeOK

LEMMA NextType ==
  ASSUME TypeOK, [Next]_vars
  PROVE  TypeOK'
<1>1. CASE Next BY <1>1, ServerReceiveType, ServerStepType, ClientReceiveType,
                   ClientStepType DEF Next
<1>2. CASE UNCHANGED vars BY <1>2 DEF vars, serverVars, clientVars, TypeOK
<1>3. QED BY <1>1, <1>2

(* The types of the session's state hold for any number of clients: ids    *)
(* stay within the bound, every datagram is a packet, every game a World.  *)
THEOREM SessionTypeCorrect == Spec => []TypeOK
BY InitType, NextType, PTL DEF Spec

-----------------------------------------------------------------------------
(* Membership: who the server holds a session and a ship for.              *)

(* The inductive invariant.  The ids in use are ids that were given out:   *)
(* without it a removed id could be one the server is about to give.       *)
Membership ==
  /\ mClients \subseteq 1 .. clients_count
  /\ OneSessionPerAddress
  /\ ServerShipsConnected

SrvShips == mGame[Server].mShips

(* No packet the server plays adds a ship but that of its sender. *)
LEMMA ProcessPacketShips ==
  ASSUME NEW g \in World, NEW m \in Packet
  PROVE  ProcessPacket(g, m).mShips \subseteq g.mShips \cup {m.id}
<1>1. CreateShip(g, m.id).mShips = g.mShips \cup {m.id}
  BY DEF CreateShip, World
<1>2. [g EXCEPT !.mShips = @ \ {m.id}].mShips = g.mShips \ {m.id}
  BY DEF World
<1>3. [g EXCEPT !.mScores = CopyScores(@, m.scores)].mShips = g.mShips
  BY DEF World
<1>4. RemovePlayer(g, m.id).mShips \subseteq g.mShips BY
DEF RemovePlayer, World
<1>5. [g EXCEPT !.game_ended = TRUE].mShips = g.mShips BY DEF World
<1>6. Won(g, 0).mShips = {} BY DEF Won, World
<1>7. QED BY <1>1, <1>2, <1>3, <1>4, <1>5, <1>6 DEF ProcessPacket

(* What a step may do to the membership: nothing, forget a client and its  *)
(* ship, or give the next id to an address that has no session.            *)
Kept == /\ UNCHANGED <<clients_count, mClients, endpoint>>
        /\ SrvShips' \subseteq SrvShips \cup mClients

Removed(i) == /\ mClients' = mClients \ {i}
              /\ UNCHANGED <<clients_count, endpoint>>
              /\ SrvShips' \subseteq SrvShips \ {i}

Admitted(c) == /\ clients_count' = clients_count + 1
               /\ mClients' = mClients \cup {clients_count + 1}
               /\ endpoint' = [endpoint EXCEPT ![clients_count + 1] = c]
               /\ clients_count + 1 \in Ids
               /\ \A i \in mClients : Port[endpoint[i]] # Port[c]
               /\ UNCHANGED mGame

LEMMA RemoveClientMembership ==
  ASSUME TypeOK, NEW i \in Ids, RemoveClient(i)
  PROVE  Removed(i)
<1>1. mGame[Server] \in World BY ConstantFacts DEF TypeOK
<1>2. RemovePlayer(mGame[Server], i).mShips = SrvShips \ {i}
  BY <1>1 DEF RemovePlayer, World, SrvShips
<1>3. mGame'[Server] = RemovePlayer(mGame[Server], i)
  BY ConstantFacts DEF RemoveClient, TypeOK
<1>4. QED BY <1>2, <1>3 DEF RemoveClient, Removed, SrvShips

LEMMA ServerReceiveMembership ==
  ASSUME TypeOK, NEW m \in net, ServerReceive(m)
  PROVE  Kept \/ Removed(m.id) \/ Admitted(m.src)
<1>1. mGame[Server] \in World /\ mGame \in [Proc -> World]
  BY ConstantFacts DEF TypeOK
<1>2. CASE ServerReceiveFin(m)
  BY <1>2, FieldTypes, RemoveClientMembership DEF ServerReceiveFin
<1>3. CASE ServerReceiveSyn(m)
  <2>1. clients_count + 1 \in Ids
    BY <1>3, SessionAssumption
    DEF ServerReceiveSyn, TypeOK, Ids, SessionAssumption
  <2>2. QED BY <1>3, <2>1 DEF ServerReceiveSyn, SameEndpoint, Admitted
<1>4. CASE ServerReceiveSynAgain(m)
  BY <1>4 DEF ServerReceiveSynAgain, Kept, SrvShips
<1>5. CASE ServerReceiveConnectAck(m)
  <2>1. mGame'[Server] = CreateShip(mGame[Server], m.id)
    BY <1>1, <1>5, ConstantFacts DEF ServerReceiveConnectAck
  <2>2. SrvShips' = SrvShips \cup {m.id}
    BY <1>1, <2>1 DEF CreateShip, World, SrvShips
  <2>3. QED BY <1>5, <2>2 DEF ServerReceiveConnectAck, Kept
<1>6. CASE ServerCrashOnConnectAck(m)
  BY <1>6 DEF ServerCrashOnConnectAck, Kept, SrvShips
<1>7. CASE ServerReceiveAck(m)
  BY <1>7 DEF ServerReceiveAck, Kept, SrvShips
<1>8. CASE ServerReceiveData(m)
  <2>1. mGame'[Server] \in {mGame[Server], ProcessPacket(mGame[Server], m)}
    BY <1>1, <1>8, ConstantFacts DEF ServerReceiveData
  <2>2. SrvShips' \subseteq SrvShips \cup {m.id}
    BY <1>1, <2>1, FieldTypes, ProcessPacketShips DEF SrvShips
  <2>3. QED BY <1>8, <2>2 DEF ServerReceiveData, Kept
<1>9. QED BY <1>2, <1>3, <1>4, <1>5, <1>6, <1>7, <1>8 DEF ServerReceive

(* No step of the server's own adds a ship. *)
LEMMA ServerStepShips ==
  ASSUME TypeOK, ServerStep
  PROVE  SrvShips' \subseteq SrvShips
<1>1. mGame[Server] \in World /\ mGame \in [Proc -> World]
  BY ConstantFacts DEF TypeOK
<1>2. ASSUME NEW i \in Ids, ServerTimeout(i) PROVE SrvShips' \subseteq SrvShips
  BY <1>2, RemoveClientMembership DEF ServerTimeout, Removed
<1>3. ASSUME NEW i \in Ids, ServerKill(i) PROVE SrvShips' = SrvShips
  <2>1. PICK t : mGame' = [mGame EXCEPT ![Server] = [@ EXCEPT !.mScores = t]]
    BY <1>3 DEF ServerKill
  <2>2. QED BY <1>1, <2>1, ConstantFacts DEF World, SrvShips
<1>4. CASE ServerFrame \/ ServerShoot \/ ServerClose
  BY <1>4 DEF ServerFrame, ServerShoot, ServerClose, SrvShips
<1>5. CASE ServerDie
  <2>1. mGame'[Server] = LoseShip(mGame[Server], 0)
    BY <1>1, <1>5, ConstantFacts DEF ServerDie
  <2>2. QED BY <1>1, <2>1 DEF LoseShip, World, SrvShips
<1>6. CASE ServerEndGame
  <2> DEFINE g == [mGame[Server] EXCEPT !.game_ended = (mGame[Server].mShips = {})]
  <2>1. g \in World /\ g.mShips = SrvShips BY <1>1 DEF World, SrvShips
  <2>2. \/ mGame' = [mGame EXCEPT ![Server] = g]
        \/ \E i \in Winners : mGame' = [mGame EXCEPT ![Server] = Won(g, i)]
    BY <1>6 DEF ServerEndGame
  <2> HIDE DEF g
  <2>3. \A i \in Winners : Won(g, i).mShips = {} BY <2>1 DEF Won, World
  <2>4. QED BY <1>1, <2>1, <2>2, <2>3, ConstantFacts DEF SrvShips
<1>7. QED BY <1>2, <1>3, <1>4, <1>5, <1>6 DEF ServerStep

LEMMA ServerStepMembership ==
  ASSUME TypeOK, ServerStep
  PROVE  Kept \/ \E i \in Ids : Removed(i)
<1>1. ASSUME NEW i \in Ids, ServerTimeout(i) PROVE Removed(i)
  BY <1>1, RemoveClientMembership DEF ServerTimeout
<1>2. CASE ~\E i \in Ids : ServerTimeout(i)
  <2>1. UNCHANGED <<clients_count, mClients, endpoint>>
    BY <1>2 DEF ServerStep, ServerKill, ServerFrame, ServerShoot, ServerDie,
       ServerEndGame, ServerClose, serverVars
  <2>2. QED BY <2>1, ServerStepShips DEF Kept
<1>3. QED BY <1>1, <1>2

LEMMA ClientMembership ==
  ASSUME TypeOK, NEW c \in Client,
         ClientStep(c) \/ \E m \in net : ClientReceive(c, m)
  PROVE  Kept
<1>1. c # Server BY ConstantFacts
<1>2. mGame'[Server] = mGame[Server]
  BY <1>1, ConstantFacts
     DEF ClientStep, ClientStart, ClientConnectError, ClientQuit, ClientShoot,
         ClientDie, ClientReceive, ClientConnect, ClientConnectFails,
         ClientReceiveFin, ClientReceiveSynAck, ClientReceiveAck,
         ClientReceiveData, TypeOK
<1>3. UNCHANGED serverVars
  BY DEF ClientStep, ClientStart, ClientConnectError, ClientQuit, ClientShoot,
         ClientDie, ClientReceive, ClientConnect, ClientConnectFails,
         ClientReceiveFin, ClientReceiveSynAck, ClientReceiveAck,
         ClientReceiveData
<1>4. QED BY <1>2, <1>3 DEF Kept, SrvShips, serverVars

LEMMA MembershipStep ==
  ASSUME TypeOK, [Next]_vars
  PROVE  \/ Kept
         \/ \E i \in Ids : Removed(i)
         \/ \E c \in Proc : Admitted(c)
<1>1. ASSUME NEW m \in net, ServerReceive(m)
      PROVE  Kept \/ (\E i \in Ids : Removed(i)) \/ (\E c \in Proc : Admitted(c))
  BY <1>1, FieldTypes, ServerReceiveMembership
<1>2. CASE ServerStep BY <1>2, ServerStepMembership
<1>3. ASSUME NEW c \in Client,
             ClientStep(c) \/ \E m \in net : ClientReceive(c, m)
      PROVE  Kept
  BY <1>3, ClientMembership
<1>4. CASE UNCHANGED vars
  BY <1>4 DEF Kept, SrvShips, vars, serverVars
<1>5. QED BY <1>1, <1>2, <1>3, <1>4 DEF Next

LEMMA MembershipInductive ==
  ASSUME TypeOK, TypeOK', Membership, [Next]_vars
  PROVE  Membership'
<1>1. clients_count \in Nat /\ mClients \subseteq Nat BY ConstantFacts
DEF TypeOK
<1>2. CASE Kept
  BY <1>2
  DEF Kept, Membership, OneSessionPerAddress, ServerShipsConnected, SrvShips
<1>3. ASSUME NEW i \in Ids, Removed(i) PROVE Membership'
  BY <1>3
  DEF Removed, Membership, OneSessionPerAddress, ServerShipsConnected, SrvShips
<1>4. ASSUME NEW c \in Proc, Admitted(c) PROVE Membership'
  <2>1. mClients' \subseteq 1 .. clients_count'
    BY <1>1, <1>4 DEF Admitted, Membership
  <2>2. clients_count + 1 \notin mClients BY <1>1 DEF Membership
  <2>3. OneSessionPerAddress'
    BY <1>4, <2>2 DEF Admitted, Membership, OneSessionPerAddress, TypeOK
  <2>4. ServerShipsConnected'
    BY <1>4 DEF Admitted, Membership, ServerShipsConnected
  <2>5. QED BY <2>1, <2>3, <2>4 DEF Membership
<1>5. QED BY <1>2, <1>3, <1>4, MembershipStep

LEMMA InitMembership ==
  ASSUME Init
  PROVE  Membership
<1>1. mGame[Server].mShips = {0}
  BY ConstantFacts DEF Init, ServerGame, EmptyGame
<1>2. QED BY <1>1
DEF Init, Membership, OneSessionPerAddress, ServerShipsConnected

THEOREM SessionMembership == Spec => [](TypeOK /\ Membership)
<1>1. Init => TypeOK /\ Membership BY InitType, InitMembership
<1>2. TypeOK /\ Membership /\ [Next]_vars => (TypeOK /\ Membership)'
  BY NextType, MembershipInductive
<1>3. QED BY <1>1, <1>2, PTL DEF Spec

(* The server never shows the ship of a client it has forgotten: see       *)
(* RemoveClient and the id check in front of ProcessPacket.                *)
THEOREM ShipsAreConnected == Spec => []ServerShipsConnected
BY SessionMembership, PTL DEF Membership

(* One address never has two sessions, however often its SYN is repeated:  *)
(* CheckDuplicateClient.                                                   *)
THEOREM SessionsAreUnique == Spec => []OneSessionPerAddress
BY SessionMembership, PTL DEF Membership

(* An id the server has removed never gets a session or a ship again: a    *)
(* step admits only the next id, and it adds only ships of sessions.       *)
THEOREM RemovedIdsStayRemoved == Spec => RemovedForGood
<1> DEFINE Stays ==
      \A i \in 1 .. clients_count :
        i \notin mClients => i \notin mClients' /\ i \notin mGame'[Server].mShips
<1>1. ASSUME TypeOK, Membership, Membership', [Next]_vars
      PROVE  Stays
  <2>1. clients_count \in Nat BY <1>1, ConstantFacts DEF TypeOK
  <2>2. ASSUME NEW i \in 1 .. clients_count, i \notin mClients
        PROVE  i \notin mClients'
    BY <1>1, <2>1, <2>2, MembershipStep DEF Kept, Removed, Admitted
  <2>3. mGame'[Server].mShips \subseteq {0} \cup mClients'
    BY <1>1 DEF Membership, ServerShipsConnected
  <2>4. QED BY <2>1, <2>2, <2>3
<1>2. TypeOK /\ Membership /\ Membership' /\ [Next]_vars => [Stays]_vars
  BY <1>1
<1>3. Spec => [][Stays]_vars
  <2> HIDE DEF Stays
  <2>1. QED BY <1>2, SessionMembership, PTL DEF Spec
<1>4. QED BY <1>3 DEF RemovedForGood

-----------------------------------------------------------------------------
(* The wire: whose ids they are and what packets there can be.             *)

(* An id belongs to one address for good: the one CheckDuplicateClient saw *)
(* when the id was given out.  A client plays with an id of its own        *)
(* address, and takes one only while it connects.                          *)
Addressed ==
  /\ \A i \in Sessions : endpoint[i] \in Client
  /\ \A m \in net : m.flag = "SYN" => m.src \in Client
  /\ \A m \in net : m.flag = "SYN_ACK" => m.id \in Sessions /\ m.dst = endpoint[m.id]
  /\ \A c \in Client : m_id[c] # 0 => m_id[c] \in Sessions /\ endpoint[m_id[c]] = c
  /\ \A c \in Client : pc[c] \in {"off", "connecting"} => m_id[c] = 0

(* What a client ever sends in a NET_SEQ packet. *)
FromClients == {"PLAYER_SHOT", "PLAYER_DEATH", "SCORE_UPDATE"}

(* The server is sent only what clients send, and an acknowledgement names *)
(* an id that was given out, or 0.                                         *)
ToServer == \A m \in net :
  /\ m.flag = "SEQ" => m.type # "CONECTION"
  /\ m.flag = "SEQ" /\ m.dst = Server => m.type \in FromClients
  /\ m.flag = "ACK" /\ m.type = "CONECTION" => m.sequence = 0
  /\ m.flag = "ACK" /\ m.dst = Server => m.id \in 0 .. clients_count

LEMMA AckFields ==
  ASSUME NEW m, NEW src, NEW dst, NEW id
  PROVE  LET a == AckOf(m, src, dst, id)
         IN  /\ a.flag = "ACK" /\ a.type = m.type /\ a.dst = dst
             /\ a.id = id /\ a.sequence = m.sequence
BY DEF AckOf, Bare

LEMMA RelayedFields ==
  ASSUME NEW id, NEW type, NEW scores, NEW m \in Relayed(id, type, scores)
  PROVE  /\ m.flag = "SEQ" /\ m.type = type /\ m.id = id /\ ~m.expect_ack
         /\ \E i \in mClients : m.dst = endpoint[i]
<1>1. PICK i \in Recipients(mClients, id) :
        m = Data(Server, endpoint[i], type, id, Unnumbered, FALSE, scores)
  BY DEF Relayed
<1>2. i \in mClients BY <1>1 DEF Recipients
<1>3. QED BY <1>1, <1>2 DEF Data, Bare

LEMMA SynAckFields ==
  ASSUME NEW i, NEW c
  PROVE  LET m == SynAck(i, c)
         IN  /\ m.flag = "SYN_ACK" /\ m.dst = c /\ m.id = i /\ m.sequence = 0
             /\ m.ships = SrvShips /\ m.type = "CONECTION"
BY DEF SynAck, Bare, SrvShips

(* A packet of a broadcast of posts about id, to the client of i. *)
Copy(i, k, id, posts) ==
  Data(Server, endpoint[i], posts[k].type, id, seq[i] + k, TRUE, posts[k].scores)

(* What a packet must be that a step sends: a SYN comes from a client; a   *)
(* SYN_ACK goes to the address its id was given to, with the ships the     *)
(* server shows; an acknowledgement to the server carries its client's id  *)
(* and answers a packet that the client has just played; a numbered packet *)
(* is a copy of the broadcast of this step.                                *)
FreshSyn(m) == m.flag = "SYN" => m.src \in Client

FreshAnswer(m) == m.flag = "SYN_ACK" =>
  /\ m.id \in mClients' /\ m.dst = endpoint'[m.id] /\ m.ships = SrvShips

FreshAck(m) == m.flag = "ACK" =>
  /\ m.type = "CONECTION" => m.sequence = 0
  /\ m.dst = Server =>
       \E c \in Client :
         /\ m.id = m_id'[c]
         /\ m.type # "CONECTION" =>
              \E n \in net :
                /\ n.flag = "SEQ" /\ n.expect_ack /\ n.dst = c /\ n.sequence = m.sequence
                /\ n.type = "PLAYER_NEW" => n.id \in mGame'[c].mShips

FreshData(m, id, posts) == m.flag = "SEQ" =>
  /\ m.type # "CONECTION"
  /\ m.dst = Server => m.type \in FromClients
  /\ m.type = "PLAYER_NEW" => m.id \in mClients
  /\ m.type = "PLAYER_DISCONECTS" => m.id \in mClients \ mClients'
  /\ m.expect_ack /\ m.dst # Server =>
       \E i \in mClients, k \in 1 .. Len(posts) :
         /\ m = Copy(i, k, id, posts)
         /\ seq'[i] = seq[i] + Len(posts)

Fresh(id, posts) ==
  /\ Len(posts) \in Nat
  /\ \A m \in net' \ net :
       FreshSyn(m) /\ FreshAnswer(m) /\ FreshAck(m) /\ FreshData(m, id, posts)

(* What a broadcast sends. *)
LEMMA BroadcastSends ==
  ASSUME TypeOK, NEW cs \in SUBSET Ids, NEW id \in Ids, NEW posts \in Posts, NEW stored,
         Broadcast(cs, id, posts, stored, {}), NEW m \in net' \ net
  PROVE  \E i \in Recipients(cs, id), k \in 1 .. Len(posts) :
           m = Copy(i, k, id, posts) /\ seq'[i] = seq[i] + Len(posts)
<1>1. net' = net \cup {} \cup UNION {Numbered(i, id, posts) : i \in Recipients(cs, id)}
  BY DEF Broadcast
<1>2. PICK i \in Recipients(cs, id) : m \in Numbered(i, id, posts)
  BY <1>1
<1>3. i \in Ids BY DEF Recipients
<1>4. seq'[i] = seq[i] + Len(posts) BY <1>3 DEF Broadcast
<1>5. QED BY <1>2, <1>4 DEF Numbered, Copy

LEMMA BroadcastFresh ==
  ASSUME TypeOK, Membership, Addressed, NEW cs \in SUBSET mClients, NEW id \in Ids,
         NEW posts \in Posts, NEW stored, Broadcast(cs, id, posts, stored, {}),
         cs \subseteq mClients',
         \A k \in 1 .. Len(posts) :
           /\ posts[k].type # "CONECTION"
           /\ posts[k].type = "PLAYER_NEW" => id \in mClients
           /\ posts[k].type = "PLAYER_DISCONECTS" => id \in mClients \ mClients'
  PROVE  Fresh(id, posts)
<1>1. Len(posts) \in Nat BY DEF Posts
<1>2. ASSUME NEW m \in net' \ net
      PROVE  FreshSyn(m) /\ FreshAnswer(m) /\ FreshAck(m) /\ FreshData(m, id, posts)
  <2>1. cs \in SUBSET Ids BY DEF TypeOK
  <2>2. PICK i \in Recipients(cs, id), k \in 1 .. Len(posts) :
          m = Copy(i, k, id, posts) /\ seq'[i] = seq[i] + Len(posts)
    BY <2>1, BroadcastSends
  <2>3. i \in mClients /\ i \in mClients' BY DEF Recipients
  <2>4. endpoint[i] # Server
    BY <2>3, ConstantFacts DEF Membership, Addressed, Sessions
  <2>5. /\ m.flag = "SEQ" /\ m.dst = endpoint[i] /\ m.type = posts[k].type /\ m.id = id
    BY <2>2 DEF Copy, Data, Bare
  <2>6. QED BY <2>2, <2>3, <2>4, <2>5
  DEF FreshSyn, FreshAnswer, FreshAck, FreshData
<1>3. QED BY <1>1, <1>2 DEF Fresh

(* Packets that are relayed. *)
LEMMA RelayedFresh ==
  ASSUME Membership, Addressed, NEW id, NEW type \in FromClients \cup {"ASTEROID_UPDATE"},
         NEW scores, NEW m \in Relayed(id, type, scores), NEW b, NEW posts
  PROVE  FreshSyn(m) /\ FreshAnswer(m) /\ FreshAck(m) /\ FreshData(m, b, posts)
<1>1. /\ m.flag = "SEQ" /\ m.type = type /\ ~m.expect_ack
      /\ \E i \in mClients : m.dst = endpoint[i]
  BY RelayedFields
<1>2. m.dst # Server
  BY <1>1, ConstantFacts DEF Membership, Addressed, Sessions
<1>3. QED BY <1>1, <1>2
DEF FreshSyn, FreshAnswer, FreshAck, FreshData, FromClients

LEMMA ServerReceiveFresh ==
  ASSUME TypeOK, Membership, Addressed, ToServer, NEW m \in net, ServerReceive(m)
  PROVE  \E id, posts : Fresh(id, posts)
<1>1. /\ m \in Packet /\ m.src \in Proc /\ m.id \in Ids /\ m.type \in Types
      /\ m.scores \in Tables
  BY FieldTypes
<1>2. ASSUME NEW S, net' = net \cup S,
             \A n \in S : FreshSyn(n) /\ FreshAnswer(n) /\ FreshAck(n) /\ FreshData(n, 0, <<>>)
      PROVE  Fresh(0, <<>>)
  BY <1>2 DEF Fresh
<1>3. CASE ServerReceiveFin(m)
  <2> DEFINE posts == <<Post("PLAYER_DISCONECTS", NoScores)>>
  <2>1. Broadcast(mClients \ {m.id}, m.id, posts, [sended EXCEPT ![m.id] = {}], {})
        /\ mClients' = mClients \ {m.id} /\ m.id \in mClients
    BY <1>3 DEF ServerReceiveFin, RemoveClient
  <2>2. posts \in Posts /\ \A k \in 1 .. Len(posts) : posts[k].type = "PLAYER_DISCONECTS"
    BY ConstantFacts DEF Post, Posts, Posting, Types
  <2> HIDE DEF posts
  <2>3. Fresh(m.id, posts)
    BY <1>1, <2>1, <2>2, BroadcastFresh
  <2>4. QED BY <2>3
<1>4. CASE ServerReceiveSyn(m)
  <2> DEFINE new == clients_count + 1
             a == SynAck(new, m.src)
  <2>1. /\ net' = net \cup {a} /\ srv = "up"
        /\ mClients' = mClients \cup {new} /\ endpoint' = [endpoint EXCEPT ![new] = m.src]
    BY <1>4 DEF ServerReceiveSyn
  <2>2. new \in Ids
    BY <1>4, SessionAssumption
    DEF ServerReceiveSyn, TypeOK, Ids, SessionAssumption
  <2>3. endpoint'[new] = m.src /\ new \in mClients'
    BY <2>1, <2>2 DEF TypeOK
  <2>4. a.flag = "SYN_ACK" /\ a.id = new /\ a.dst = m.src /\ a.ships = SrvShips
    BY SynAckFields
  <2> HIDE DEF a, new
  <2>5. ASSUME NEW n \in {a}
        PROVE  FreshSyn(n) /\ FreshAnswer(n) /\ FreshAck(n) /\ FreshData(n, 0, <<>>)
    <3>1. FreshAnswer(n) BY <2>3, <2>4 DEF FreshAnswer
    <3>2. FreshSyn(n) BY <2>4 DEF FreshSyn
    <3>3. FreshAck(n) BY <2>4 DEF FreshAck
    <3>4. FreshData(n, 0, <<>>) BY <2>4 DEF FreshData
    <3>5. QED BY <3>1, <3>2, <3>3, <3>4
  <2>6. \A n \in net' \ net : FreshSyn(n) /\ FreshAnswer(n) /\ FreshAck(n) /\ FreshData(n, 0, <<>>)
    BY <2>1, <2>5
  <2>7. Fresh(0, <<>>) BY <2>6 DEF Fresh
  <2>8. QED BY <2>7
<1>5. CASE ServerReceiveSynAgain(m)
  <2>1. PICK i \in mClients : net' = net \cup {SynAck(i, endpoint[i])}
    BY <1>5 DEF ServerReceiveSynAgain
  <2> DEFINE a == SynAck(i, endpoint[i])
  <2>2. srv = "up" /\ UNCHANGED <<mClients, endpoint>>
    BY <1>5 DEF ServerReceiveSynAgain
  <2>3. a.flag = "SYN_ACK" /\ a.id = i /\ a.dst = endpoint[i] /\ a.ships = SrvShips
    BY SynAckFields
  <2> HIDE DEF a
  <2>4. ASSUME NEW n \in {a}
        PROVE  FreshSyn(n) /\ FreshAnswer(n) /\ FreshAck(n) /\ FreshData(n, 0, <<>>)
    <3>1. FreshAnswer(n) BY <2>2, <2>3 DEF FreshAnswer
    <3>2. FreshSyn(n) BY <2>3 DEF FreshSyn
    <3>3. FreshAck(n) BY <2>3 DEF FreshAck
    <3>4. FreshData(n, 0, <<>>) BY <2>3 DEF FreshData
    <3>5. QED BY <3>1, <3>2, <3>3, <3>4
  <2>5. net' = net \cup {a} BY <2>1 DEF a
  <2>6. \A n \in net' \ net : FreshSyn(n) /\ FreshAnswer(n) /\ FreshAck(n) /\ FreshData(n, 0, <<>>)
    BY <2>4, <2>5
  <2>7. Fresh(0, <<>>) BY <2>6 DEF Fresh
  <2>8. QED BY <2>7
<1>6. CASE ServerReceiveConnectAck(m)
  <2> DEFINE posts == <<Post("PLAYER_NEW", NoScores)>>
             stored == [sended EXCEPT ![m.id] = Erase(@, m.sequence)]
  <2>1. Broadcast(mClients, m.id, posts, stored, {})
        /\ mClients' = mClients /\ m.id \in mClients
    BY <1>6 DEF ServerReceiveConnectAck
  <2>2. posts \in Posts /\ \A k \in 1 .. Len(posts) : posts[k].type = "PLAYER_NEW"
    BY ConstantFacts DEF Post, Posts, Posting, Types
  <2> HIDE DEF posts, stored
  <2>3. Fresh(m.id, posts)
    BY <1>1, <2>1, <2>2, BroadcastFresh
  <2>4. QED BY <2>3
<1>7. CASE ServerCrashOnConnectAck(m)
  <2>1. Fresh(0, <<>>) BY <1>7 DEF ServerCrashOnConnectAck, Fresh
  <2>2. QED BY <2>1
<1>8. CASE ServerReceiveAck(m)
  <2>1. Fresh(0, <<>>) BY <1>8 DEF ServerReceiveAck, Fresh
  <2>2. QED BY <2>1
<1>9. CASE ServerReceiveData(m)
  <2> DEFINE a == AckOf(m, Server, endpoint[m.id], 0)
             S == Relayed(m.id, m.type, m.scores) \cup (IF m.expect_ack THEN {a} ELSE {})
  <2>1. net' = net \cup S
    BY <1>9 DEF ServerReceiveData
  <2>2. m.type \in FromClients /\ m.type # "CONECTION" /\ m.id \in mClients
    BY <1>9 DEF ServerReceiveData, Received, ToServer
  <2>3. endpoint[m.id] # Server
    BY <2>2, ConstantFacts DEF Membership, Addressed, Sessions
  <2>4. a.flag = "ACK" /\ a.type = m.type /\ a.dst = endpoint[m.id]
    BY AckFields
  <2>5. FreshSyn(a) /\ FreshAnswer(a) /\ FreshAck(a) /\ FreshData(a, 0, <<>>)
    <3> HIDE DEF a
    <3>1. QED BY <2>2, <2>3, <2>4
    DEF FreshSyn, FreshAnswer, FreshAck, FreshData
  <2>6. \A n \in Relayed(m.id, m.type, m.scores) :
          FreshSyn(n) /\ FreshAnswer(n) /\ FreshAck(n) /\ FreshData(n, 0, <<>>)
    BY <2>2, RelayedFresh
  <2>7. \A n \in S : FreshSyn(n) /\ FreshAnswer(n) /\ FreshAck(n) /\ FreshData(n, 0, <<>>)
    BY <2>5, <2>6
  <2> HIDE DEF S
  <2>8. Fresh(0, <<>>) BY <1>2, <2>1, <2>7
  <2>9. QED BY <2>8
<1>10. QED BY <1>3, <1>4, <1>5, <1>6, <1>7, <1>8, <1>9 DEF ServerReceive

LEMMA RemoveClientFresh ==
  ASSUME TypeOK, Membership, Addressed, NEW i \in mClients, RemoveClient(i)
  PROVE  \E id, posts : Fresh(id, posts)
<1> DEFINE posts == <<Post("PLAYER_DISCONECTS", NoScores)>>
<1>1. Broadcast(mClients \ {i}, i, posts, [sended EXCEPT ![i] = {}], {})
      /\ mClients' = mClients \ {i} /\ i \in Ids
  BY DEF RemoveClient, TypeOK
<1>2. posts \in Posts /\ \A k \in 1 .. Len(posts) : posts[k].type = "PLAYER_DISCONECTS"
  BY ConstantFacts DEF Post, Posts, Posting, Types
<1> HIDE DEF posts
<1>3. Fresh(i, posts) BY <1>1, <1>2, BroadcastFresh
<1>4. QED BY <1>3

(* Packets without a number that the server's game broadcasts. *)
LEMMA FrameFresh ==
  ASSUME Membership, Addressed, NEW type \in FromClients \cup {"ASTEROID_UPDATE"},
         NEW scores, net' = net \cup Relayed(0, type, scores)
  PROVE  Fresh(0, <<>>)
<1>1. ASSUME NEW m \in net' \ net
      PROVE  FreshSyn(m) /\ FreshAnswer(m) /\ FreshAck(m) /\ FreshData(m, 0, <<>>)
  BY RelayedFresh
<1>2. QED BY <1>1 DEF Fresh

(* What the end of the game is broadcast with. *)
LEMMA EndPosts ==
  ASSUME TypeOK, ServerEndGame
  PROVE  \E posts \in Posts :
           /\ Broadcast(mClients, 0, posts, sended, {})
           /\ \A k \in 1 .. Len(posts) : posts[k].type \in {"GAME_OVER", "GAME_WON"}
<1> DEFINE over  == mGame[Server].mShips = {}
           first == IF over THEN <<Post("GAME_OVER", NoScores)>> ELSE <<>>
           both  == Append(first, Post("GAME_WON", NoScores))
<1>1. \/ Broadcast(mClients, 0, first, sended, {})
      \/ Broadcast(mClients, 0, both, sended, {})
  BY DEF ServerEndGame
<1>2. /\ first \in Posts
      /\ \A k \in 1 .. Len(first) : first[k].type \in {"GAME_OVER", "GAME_WON"}
  <2>1. Post("GAME_OVER", NoScores) \in Posting
        /\ Post("GAME_OVER", NoScores).type = "GAME_OVER"
    BY ConstantFacts DEF Post, Posting, Types
  <2>2. CASE over BY <2>1, <2>2 DEF Posts
  <2>3. CASE ~over BY <2>3 DEF Posts
  <2>4. QED BY <2>2, <2>3
<1>3. Post("GAME_WON", NoScores) \in Posting /\ Post("GAME_WON", NoScores).type = "GAME_WON"
  BY ConstantFacts DEF Post, Posting, Types
<1>4. /\ both \in Posts
      /\ \A k \in 1 .. Len(both) : both[k].type \in {"GAME_OVER", "GAME_WON"}
  <2> HIDE DEF first
  <2>1. QED BY <1>2, <1>3 DEF Posts
<1> HIDE DEF first, both
<1>5. QED BY <1>1, <1>2, <1>4

LEMMA ServerStepFresh ==
  ASSUME TypeOK, Membership, Addressed, ServerStep
  PROVE  \E id, posts : Fresh(id, posts)
<1>1. ASSUME NEW i \in Ids, ServerTimeout(i) PROVE \E id, posts : Fresh(id, posts)
  BY <1>1, RemoveClientFresh DEF ServerTimeout
<1>2. ASSUME NEW i \in Ids, ServerKill(i) PROVE Fresh(0, <<>>)
  <2>1. PICK t : net' = net \cup Relayed(0, "SCORE_UPDATE", t) BY <1>2
  DEF ServerKill
  <2>2. QED BY <2>1, FrameFresh DEF FromClients
<1>3. CASE ServerFrame
  <2>1. Fresh(0, <<>>) BY <1>3, FrameFresh DEF ServerFrame
  <2>2. QED BY <2>1
<1>4. CASE ServerShoot
  <2>1. Fresh(0, <<>>) BY <1>4, FrameFresh DEF ServerShoot, FromClients
  <2>2. QED BY <2>1
<1>5. CASE ServerDie
  <2> DEFINE posts == <<Post("PLAYER_DEATH", NoScores),
                        Post("SCORE_UPDATE", mGame[Server].mScores)>>
  <2>1. Broadcast(mClients, 0, posts, sended, {}) /\ mClients' = mClients
    BY <1>5 DEF ServerDie
  <2>2. posts \in Posts
        /\ \A k \in 1 .. Len(posts) : posts[k].type \in {"PLAYER_DEATH", "SCORE_UPDATE"}
    BY ConstantFacts DEF Post, Posts, Posting, Types, TypeOK, World
  <2> HIDE DEF posts
  <2>3. Fresh(0, posts)
    BY <2>1, <2>2, ConstantFacts, BroadcastFresh
  <2>4. QED BY <2>3
<1>6. CASE ServerEndGame
  <2>1. PICK posts \in Posts :
          /\ Broadcast(mClients, 0, posts, sended, {})
          /\ \A k \in 1 .. Len(posts) : posts[k].type \in {"GAME_OVER", "GAME_WON"}
    BY <1>6, EndPosts
  <2>2. mClients' = mClients BY <1>6 DEF ServerEndGame
  <2>3. Fresh(0, posts)
    BY <2>1, <2>2, ConstantFacts, BroadcastFresh
  <2>4. QED BY <2>3
<1>7. CASE ServerClose
  <2>1. ASSUME NEW m \in net' \ net PROVE m.flag = "FIN"
    BY <1>7, <2>1 DEF ServerClose, Bare
  <2>2. Fresh(0, <<>>)
    BY <2>1 DEF Fresh, FreshSyn, FreshAnswer, FreshAck, FreshData
  <2>3. QED BY <2>2
<1>8. QED BY <1>1, <1>2, <1>3, <1>4, <1>5, <1>6, <1>7 DEF ServerStep

LEMMA ClientFresh ==
  ASSUME TypeOK, Addressed, ToServer, NEW c \in Client,
         ClientStep(c) \/ \E m \in net : ClientReceive(c, m)
  PROVE  Fresh(0, <<>>)
<1> DEFINE Ok(n) == FreshSyn(n) /\ FreshAnswer(n) /\ FreshAck(n) /\ FreshData(n, 0, <<>>)
<1>1. SUFFICES ASSUME NEW n \in net' \ net PROVE Ok(n)
  BY DEF Fresh
<1>2. CASE n.flag = "SYN" /\ n.src = c
  BY <1>2 DEF FreshSyn, FreshAnswer, FreshAck, FreshData
<1>3. CASE n.flag = "FIN"
  BY <1>3 DEF FreshSyn, FreshAnswer, FreshAck, FreshData
<1>4. CASE n.flag = "ACK" /\ n.type = "CONECTION" /\ n.sequence = 0 /\ n.id = m_id'[c]
  BY <1>4 DEF FreshSyn, FreshAnswer, FreshAck, FreshData
<1>5. CASE n.flag = "SEQ" /\ n.dst = Server /\ n.type \in FromClients
  BY <1>5 DEF FreshSyn, FreshAnswer, FreshAck, FreshData, FromClients
<1>6. CASE \E m \in net : ClientReceiveData(c, m)
  <2>1. PICK m \in net : ClientReceiveData(c, m) BY <1>6
  <2>2. n = AckOf(m, c, Server, m_id[c]) /\ m.expect_ack
    BY <2>1 DEF ClientReceiveData
  <2>3. n.flag = "ACK" /\ n.type = m.type /\ n.dst = Server /\ n.id = m_id[c]
        /\ n.sequence = m.sequence
    BY <2>2 DEF AckOf, Bare
  <2>4. m_id'[c] = m_id[c] /\ m.flag = "SEQ" /\ m.dst = c /\ m.type # "CONECTION"
    BY <2>1 DEF ClientReceiveData, Received, ToServer
  <2>5. m.type = "PLAYER_NEW" => m.id \in mGame'[c].mShips
    <3>1. ASSUME m.type = "PLAYER_NEW" PROVE mGame'[c] = CreateShip(mGame[c], m.id)
      BY <2>1, <3>1, ConstantFacts
      DEF ClientReceiveData, NullShip, ProcessPacket, TypeOK
    <3>2. mGame[c] \in World BY ConstantFacts DEF TypeOK
    <3>3. CreateShip(mGame[c], m.id).mShips = mGame[c].mShips \cup {m.id}
      BY <3>2 DEF CreateShip, World
    <3>4. QED BY <3>1, <3>3
  <2>6. FreshAck(n) BY <2>2, <2>3, <2>4, <2>5 DEF FreshAck
  <2>7. QED BY <2>3, <2>6 DEF FreshSyn, FreshAnswer, FreshData
<1>7. QED
  <2>1. CASE ClientStart(c) BY <1>2, <2>1 DEF ClientStart, Syn, Bare
  <2>2. CASE ClientConnectError(c) BY <2>2 DEF ClientConnectError
  <2>3. CASE ClientQuit(c) BY <1>3, <2>3 DEF ClientQuit, Bare
  <2>4. CASE ClientShoot(c) BY <1>5, <2>4
  DEF ClientShoot, Data, Bare, FromClients
  <2>5. CASE ClientDie(c) BY <1>5, <2>5 DEF ClientDie, Data, Bare, FromClients
  <2>6. ASSUME NEW m \in net, ClientConnect(c, m) PROVE Ok(n)
    <3>1. n = ConnectAck(c, m.id) /\ m_id'[c] = m.id
      BY <2>6 DEF ClientConnect, TypeOK
    <3>2. QED BY <1>4, <3>1 DEF ConnectAck, Bare
  <2>7. ASSUME NEW m \in net, ClientConnectFails(c, m) PROVE Ok(n)
    BY <2>7 DEF ClientConnectFails
  <2>8. ASSUME NEW m \in net, ClientReceiveFin(c, m) PROVE Ok(n)
    BY <1>3, <2>8 DEF ClientReceiveFin, ClientQuit, Bare
  <2>9. ASSUME NEW m \in net, ClientReceiveSynAck(c, m) PROVE Ok(n)
    <3>1. n = ConnectAck(c, m_id[c]) /\ m_id'[c] = m_id[c]
      BY <2>9 DEF ClientReceiveSynAck, clientVars
    <3>2. QED BY <1>4, <3>1 DEF ConnectAck, Bare
  <2>10. ASSUME NEW m \in net, ClientReceiveAck(c, m) PROVE Ok(n)
    BY <2>10 DEF ClientReceiveAck
  <2> HIDE DEF Ok
  <2>11. QED
    BY <1>6, <2>1, <2>2, <2>3, <2>4, <2>5, <2>6, <2>7, <2>8, <2>9, <2>10
       DEF ClientStep, ClientReceive

(* Every step sends only such packets. *)
LEMMA NextFresh ==
  ASSUME TypeOK, Membership, Addressed, ToServer, [Next]_vars
  PROVE  \E id, posts : Fresh(id, posts)
<1>1. ASSUME NEW m \in net, ServerReceive(m) PROVE \E id, posts : Fresh(id, posts)
  BY <1>1, ServerReceiveFresh
<1>2. CASE ServerStep BY <1>2, ServerStepFresh
<1>3. ASSUME NEW c \in Client, ClientStep(c) \/ \E m \in net : ClientReceive(c, m)
      PROVE  \E id, posts : Fresh(id, posts)
  <2>1. Fresh(0, <<>>) BY <1>3, ClientFresh
  <2>2. QED BY <2>1
<1>4. CASE UNCHANGED vars
  <2>1. Fresh(0, <<>>) BY <1>4 DEF vars, Fresh
  <2>2. QED BY <2>1
<1>5. QED BY <1>1, <1>2, <1>3, <1>4 DEF Next

(* No datagram is taken back. *)
LEMMA NetGrows ==
  ASSUME [Next]_vars
  PROVE  net \subseteq net'
<1>1. ASSUME NEW m \in net, ServerReceive(m) PROVE net \subseteq net'
  BY <1>1 DEF ServerReceive, ServerReceiveFin, RemoveClient, ServerReceiveSyn,
     ServerReceiveSynAgain, ServerReceiveConnectAck, ServerCrashOnConnectAck,
     ServerReceiveAck, ServerReceiveData, Broadcast
<1>2. CASE ServerStep
  BY <1>2 DEF ServerStep, ServerTimeout, RemoveClient, ServerKill, ServerFrame,
     ServerShoot, ServerDie, ServerEndGame, ServerClose, Broadcast
<1>3. ASSUME NEW c \in Client, ClientStep(c) \/ \E m \in net : ClientReceive(c, m)
      PROVE  net \subseteq net'
  BY <1>3
  DEF ClientStep, ClientStart, ClientConnectError, ClientQuit, ClientShoot,
     ClientDie, ClientReceive, ClientConnect, ClientConnectFails, ClientReceiveFin,
     ClientReceiveSynAck, ClientReceiveAck, ClientReceiveData
<1>4. CASE UNCHANGED vars BY <1>4 DEF vars
<1>5. QED BY <1>1, <1>2, <1>3, <1>4 DEF Next

(* A step of the server leaves every client alone. *)
LEMMA ServerAlone ==
  ASSUME TypeOK, ServerStep \/ \E m \in net : ServerReceive(m)
  PROVE  UNCHANGED clientVars /\ \A c \in Client : mGame'[c] = mGame[c]
<1>1. \A c \in Client : c # Server BY ConstantFacts
<1>2. UNCHANGED clientVars
  BY DEF ServerStep, ServerTimeout, RemoveClient, ServerKill, ServerFrame,
     ServerShoot, ServerDie, ServerEndGame, ServerClose,
     ServerReceive, ServerReceiveFin, ServerReceiveSyn,
     ServerReceiveSynAgain, ServerReceiveConnectAck, ServerCrashOnConnectAck,
     ServerReceiveAck, ServerReceiveData
<1>3. mGame' = mGame \/ \E g : mGame' = [mGame EXCEPT ![Server] = g]
  BY DEF ServerStep, ServerTimeout, RemoveClient, ServerKill, ServerFrame,
     ServerShoot, ServerDie, ServerEndGame, ServerClose,
     ServerReceive, ServerReceiveFin, ServerReceiveSyn,
     ServerReceiveSynAgain, ServerReceiveConnectAck, ServerCrashOnConnectAck,
     ServerReceiveAck, ServerReceiveData
<1>4. QED BY <1>1, <1>2, <1>3, ConstantFacts DEF TypeOK

(* A step of one client leaves the server and the other clients alone. *)
LEMMA ClientAlone ==
  ASSUME TypeOK, NEW c \in Client, ClientStep(c) \/ \E m \in net : ClientReceive(c, m)
  PROVE  /\ UNCHANGED serverVars
         /\ \A d \in Client \ {c} :
              mGame'[d] = mGame[d] /\ m_id'[d] = m_id[d] /\ pc'[d] = pc[d]
<1>1. UNCHANGED serverVars
  BY DEF ClientStep, ClientStart, ClientConnectError, ClientQuit, ClientShoot,
     ClientDie, ClientReceive, ClientConnect, ClientConnectFails, ClientReceiveFin,
     ClientReceiveSynAck, ClientReceiveAck, ClientReceiveData
<1>2. ASSUME NEW d \in Client \ {c}
      PROVE  mGame'[d] = mGame[d] /\ m_id'[d] = m_id[d] /\ pc'[d] = pc[d]
  BY ConstantFacts
     DEF ClientStep, ClientStart, ClientConnectError, ClientQuit, ClientShoot,
     ClientDie, ClientReceive, ClientConnect, ClientConnectFails, ClientReceiveFin,
     ClientReceiveSynAck, ClientReceiveAck, ClientReceiveData, TypeOK, clientVars
<1>3. QED BY <1>1, <1>2

(* A client takes an id once, from a SYN_ACK, with the ships in it. *)
Joined(c) ==
  /\ m_id[c] = 0
  /\ \E m \in net : /\ m.flag = "SYN_ACK" /\ m.dst = c /\ m.id = m_id'[c]
                    /\ m.ships \subseteq mGame'[c].mShips

LEMMA IdStep ==
  ASSUME TypeOK, Addressed, [Next]_vars, NEW c \in Client
  PROVE  /\ m_id'[c] = m_id[c] \/ Joined(c)
         /\ pc'[c] \in {"off", "connecting"} => m_id'[c] = m_id[c] /\ pc[c] \in {"off", "connecting"}
<1>1. CASE ServerStep \/ \E m \in net : ServerReceive(m)
  BY <1>1, ServerAlone DEF clientVars
<1>2. ASSUME NEW d \in Client, ClientStep(d) \/ \E m \in net : ClientReceive(d, m), d # c
      PROVE  m_id'[c] = m_id[c] /\ pc'[c] = pc[c]
  BY <1>2, ClientAlone
<1>3. ASSUME NEW m \in net, ClientConnect(c, m)
      PROVE  Joined(c) /\ pc'[c] = "playing"
  <2>1. m_id[c] = 0 /\ m.flag = "SYN_ACK" /\ m.dst = c /\ m_id'[c] = m.id
        /\ pc'[c] = "playing"
    BY <1>3 DEF ClientConnect, IsSynAck, Received, Addressed, TypeOK
  <2>2. mGame'[c] = JoinGame(mGame[c], m.ships, m.id) /\ mGame[c] \in World
    BY <1>3, ConstantFacts DEF ClientConnect, TypeOK
  <2>3. JoinGame(mGame[c], m.ships, m.id).mShips = mGame[c].mShips \cup m.ships \cup {m.id}
    BY <2>2 DEF JoinGame, World
  <2>4. QED BY <2>1, <2>2, <2>3 DEF Joined
<1>4. CASE ClientStep(c) \/ \E m \in net : ClientReceive(c, m)
  <2>1. CASE \E m \in net : ClientConnect(c, m) BY <1>3, <2>1
  <2>2. CASE ~\E m \in net : ClientConnect(c, m)
    <3>1. m_id' = m_id
      BY <1>4, <2>2
        
         DEF ClientStep, ClientStart, ClientConnectError, ClientQuit,
             ClientShoot,
         ClientDie, ClientReceive, ClientConnectFails, ClientReceiveFin,
         ClientReceiveSynAck, ClientReceiveAck, ClientReceiveData, clientVars
    <3>2. pc'[c] \in {"off", "connecting"} => pc[c] \in {"off", "connecting"}
      BY <1>4, <2>2
        
         DEF ClientStep, ClientStart, ClientConnectError, ClientQuit,
             ClientShoot,
         ClientDie, ClientReceive, ClientConnectFails, ClientReceiveFin,
         ClientReceiveSynAck, ClientReceiveAck, ClientReceiveData, clientVars, TypeOK
    <3>3. QED BY <3>1, <3>2
  <2>3. QED BY <2>1, <2>2
<1>5. CASE UNCHANGED vars BY <1>5 DEF vars, clientVars
<1>6. QED BY <1>1, <1>2, <1>4, <1>5 DEF Next

(* Only a client is ever admitted. *)
LEMMA AdmittedClients ==
  ASSUME TypeOK, Addressed, [Next]_vars
  PROVE  \/ Kept
         \/ \E i \in Ids : Removed(i)
         \/ \E c \in Client : Admitted(c)
<1>1. ASSUME NEW m \in net, ServerReceive(m), m.flag = "SYN"
      PROVE  Kept \/ (\E i \in Ids : Removed(i)) \/ (\E c \in Client : Admitted(c))
  BY <1>1, FieldTypes, ServerReceiveMembership DEF Addressed
<1>2. ASSUME NEW m \in net, ServerReceive(m), m.flag # "SYN"
      PROVE  Kept \/ (\E i \in Ids : Removed(i))
  <2>1. clients_count' = clients_count /\ clients_count \in Nat
    BY <1>2, ConstantFacts
       DEF ServerReceive, ServerReceiveFin, RemoveClient, ServerReceiveSyn,
       ServerReceiveSynAgain, ServerReceiveConnectAck, ServerCrashOnConnectAck,
       ServerReceiveAck, ServerReceiveData, TypeOK
  <2>2. ~Admitted(m.src) BY <2>1 DEF Admitted
  <2>3. QED BY <1>2, <2>2, FieldTypes, ServerReceiveMembership
<1>3. CASE ServerStep BY <1>3, ServerStepMembership
<1>4. ASSUME NEW c \in Client,
             ClientStep(c) \/ \E m \in net : ClientReceive(c, m)
      PROVE  Kept
  BY <1>4, ClientMembership
<1>5. CASE UNCHANGED vars BY <1>5 DEF Kept, SrvShips, vars, serverVars
<1>6. QED BY <1>1, <1>2, <1>3, <1>4, <1>5 DEF Next

(* What a step does to the sessions. *)
LEMMA SessionStep ==
  ASSUME TypeOK, TypeOK', Membership, Addressed, [Next]_vars
  PROVE  /\ Sessions \subseteq Sessions' /\ 0 \notin Sessions'
         /\ \A i \in Sessions : endpoint'[i] = endpoint[i]
         /\ \A i \in Sessions' : endpoint'[i] \in Client
         /\ mClients \subseteq Sessions /\ mClients' \subseteq Sessions'
         /\ mClients' \cap Sessions \subseteq mClients
<1>1. clients_count \in Nat /\ mClients \subseteq Nat BY ConstantFacts
DEF TypeOK
<1>2. clients_count + 1 \in Nat BY <1>1
<1>3. ASSUME NEW i \in Ids, Removed(i)
      PROVE  /\ clients_count' = clients_count /\ endpoint' = endpoint
             /\ mClients' \subseteq mClients
  BY <1>3 DEF Removed
<1>4. ASSUME NEW c \in Client, Admitted(c)
      PROVE  /\ clients_count' = clients_count + 1
             /\ mClients' = mClients \cup {clients_count + 1}
             /\ \A i \in Sessions : endpoint'[i] = endpoint[i]
             /\ endpoint'[clients_count + 1] = c
  <2>1. /\ clients_count' = clients_count + 1 /\ clients_count + 1 \in Ids
        /\ mClients' = mClients \cup {clients_count + 1}
        /\ endpoint' = [endpoint EXCEPT ![clients_count + 1] = c]
    BY <1>4 DEF Admitted
  <2>2. \A i \in Sessions : i \in Ids /\ i # clients_count + 1
    BY <1>1, SessionAssumption DEF Sessions, SessionAssumption, TypeOK, Ids
  <2>3. endpoint'[clients_count + 1] = c BY <2>1 DEF TypeOK
  <2>4. ASSUME NEW i \in Sessions PROVE endpoint'[i] = endpoint[i]
    BY <2>1, <2>2 DEF TypeOK
  <2>5. QED BY <2>1, <2>3, <2>4
<1>5. CASE clients_count' = clients_count /\ endpoint' = endpoint /\ mClients' \subseteq mClients
  BY <1>1, <1>5 DEF Membership, Addressed, Sessions
<1>6. ASSUME NEW c \in Client, Admitted(c)
      PROVE  /\ Sessions' = Sessions \cup {clients_count + 1} /\ 0 \notin Sessions'
             /\ mClients \subseteq Sessions /\ clients_count + 1 \notin Sessions
             /\ endpoint'[clients_count + 1] \in Client
             /\ mClients' = mClients \cup {clients_count + 1}
             /\ \A i \in Sessions : endpoint'[i] = endpoint[i] /\ endpoint[i] \in Client
  <2>1. /\ Sessions' = Sessions \cup {clients_count + 1} /\ 0 \notin Sessions'
        /\ mClients \subseteq Sessions /\ clients_count + 1 \notin Sessions
    BY <1>1, <1>4, <1>6 DEF Sessions, Membership
  <2>2. \A i \in Sessions : endpoint[i] \in Client BY DEF Addressed
  <2>3. QED BY <1>4, <1>6, <2>1, <2>2
<1>7. (\E c \in Client : Admitted(c))
      \/ (clients_count' = clients_count /\ endpoint' = endpoint /\ mClients' \subseteq mClients)
  BY <1>2, <1>3, AdmittedClients DEF Kept
<1>8. CASE \E c \in Client : Admitted(c)
  <2>1. PICK c \in Client : Admitted(c) BY <1>8
  <2> DEFINE new == clients_count + 1
  <2>2. /\ Sessions' = Sessions \cup {new} /\ 0 \notin Sessions'
        /\ mClients \subseteq Sessions /\ new \notin Sessions
        /\ endpoint'[new] \in Client
        /\ mClients' = mClients \cup {new}
        /\ \A i \in Sessions : endpoint'[i] = endpoint[i] /\ endpoint[i] \in Client
    BY <1>6, <2>1
  <2> HIDE DEF new
  <2>3. QED BY <2>2
<1>9. QED BY <1>5, <1>7, <1>8

(* An address with one session had no other one before. *)
LEMMA OnlySessionStep ==
  ASSUME TypeOK, TypeOK', Membership, Addressed, [Next]_vars, NEW i \in Sessions',
         OnlySession(i)'
  PROVE  /\ i \in Sessions => OnlySession(i)
         /\ i \notin Sessions => \A j \in Sessions : endpoint[j] # endpoint'[i]
BY SessionStep DEF OnlySession

LEMMA AddressedInductive ==
  ASSUME TypeOK, TypeOK', Membership, Addressed, ToServer, [Next]_vars
  PROVE  Addressed'
<1>1. PICK id, posts : Fresh(id, posts) BY NextFresh
<1>2. \A i \in Sessions' : endpoint'[i] \in Client BY SessionStep
<1>3. \A m \in net' : m.flag = "SYN" => m.src \in Client
  BY <1>1 DEF Fresh, FreshSyn, Addressed
<1>4. \A m \in net' : m.flag = "SYN_ACK" => m.id \in Sessions' /\ m.dst = endpoint'[m.id]
  <2>1. ASSUME NEW m \in net', m.flag = "SYN_ACK", m \in net
        PROVE  m.id \in Sessions' /\ m.dst = endpoint'[m.id]
    BY <2>1, SessionStep DEF Addressed
  <2>2. ASSUME NEW m \in net' \ net, m.flag = "SYN_ACK"
        PROVE  m.id \in Sessions' /\ m.dst = endpoint'[m.id]
    BY <1>1, <2>2, SessionStep DEF Fresh, FreshAnswer
  <2>3. QED BY <2>1, <2>2
<1>5. ASSUME NEW c \in Client
      PROVE  /\ m_id'[c] # 0 => m_id'[c] \in Sessions' /\ endpoint'[m_id'[c]] = c
             /\ pc'[c] \in {"off", "connecting"} => m_id'[c] = 0
  <2>1. CASE m_id'[c] = m_id[c]
    BY <2>1, IdStep, SessionStep DEF Addressed
  <2>2. CASE Joined(c)
    BY <2>2, IdStep, SessionStep DEF Addressed, Joined
  <2>3. QED BY <2>1, <2>2, IdStep
<1>6. QED BY <1>2, <1>3, <1>4, <1>5 DEF Addressed

LEMMA ToServerInductive ==
  ASSUME TypeOK, TypeOK', Membership, Addressed, Addressed', ToServer, [Next]_vars
  PROVE  ToServer'
<1>1. PICK id, posts : Fresh(id, posts) BY NextFresh
<1>2. clients_count \in Nat /\ clients_count' \in Nat /\ clients_count <= clients_count'
  BY AdmittedClients, ConstantFacts DEF Kept, Removed, Admitted, TypeOK
<1>3. ASSUME NEW m \in net'
      PROVE  /\ m.flag = "SEQ" => m.type # "CONECTION"
             /\ m.flag = "SEQ" /\ m.dst = Server => m.type \in FromClients
             /\ m.flag = "ACK" /\ m.type = "CONECTION" => m.sequence = 0
  BY <1>1 DEF Fresh, FreshAck, FreshData, ToServer
<1>4. ASSUME NEW m \in net', m.flag = "ACK", m.dst = Server
      PROVE  m.id \in 0 .. clients_count'
  <2>1. CASE m \in net BY <1>2, <1>4, <2>1 DEF ToServer
  <2>2. CASE m \notin net
    <3>1. PICK c \in Client : m.id = m_id'[c]
      BY <1>1, <1>4, <2>2 DEF Fresh, FreshAck
    <3>2. m_id'[c] = 0 \/ m_id'[c] \in Sessions' BY DEF Addressed
    <3>3. QED BY <1>2, <3>1, <3>2 DEF Sessions
  <2>3. QED BY <2>1, <2>2
<1>5. QED BY <1>3, <1>4 DEF ToServer

(* The invariant of who is who on the wire.                                *)
Wire == Membership /\ Addressed /\ ToServer

(* Every datagram on the network fits the sessions there are: each id is   *)
(* of one address, and the server gets only what clients send.             *)
THEOREM SessionWire == Spec => [](TypeOK /\ Wire)
<1>1. Init => TypeOK /\ Wire
  <2>1. Init => Membership /\ TypeOK BY InitMembership, InitType
  <2>2. Init => Addressed /\ ToServer
    BY DEF Init, Addressed, ToServer, Sessions
  <2>3. QED BY <2>1, <2>2 DEF Wire
<1>2. TypeOK /\ Wire /\ [Next]_vars => (TypeOK /\ Wire)'
  <2> SUFFICES ASSUME TypeOK, Wire, [Next]_vars PROVE (TypeOK /\ Wire)'
    OBVIOUS
  <2>1. TypeOK' BY NextType
  <2>2. Membership' BY <2>1, MembershipInductive DEF Wire
  <2>3. Addressed' BY <2>1, AddressedInductive DEF Wire
  <2>4. ToServer' BY <2>1, <2>3, ToServerInductive DEF Wire
  <2>5. QED BY <2>1, <2>2, <2>3, <2>4 DEF Wire
<1>3. QED BY <1>1, <1>2, PTL DEF Spec

(* Two clients never play under the same id, even with the same port, and  *)
(* however often their SYN and its answers are repeated or reordered.      *)
THEOREM IdsAreUnique == Spec => []UniqueIds
<1>1. Wire => UniqueIds BY DEF Wire, Addressed, UniqueIds
<1>2. QED BY <1>1, SessionWire, PTL

-----------------------------------------------------------------------------
(* What a session shares.                                                  *)

(* The score tables nobody can object to. *)
Earned == {t \in Tables : \A i \in Ids : t[i] <= kills[i]}

(* The inductive invariant is ScoresEarned itself, in the shape the steps  *)
(* use it: tables travel from games to packets and from packets to games.  *)
GamesEarned   == \A p \in Proc : mGame[p].mScores \in Earned
PacketsEarned == \A m \in net : m.scores \in Earned

LEMMA ScoresAsTables ==
  ASSUME TypeOK
  PROVE  ScoresEarned <=> GamesEarned /\ PacketsEarned
<1>1. \A p \in Proc : mGame[p].mScores \in Tables BY DEF TypeOK, World
<1>2. \A m \in net : m.scores \in Tables BY FieldTypes
<1>3. QED BY <1>1, <1>2 DEF ScoresEarned, GamesEarned, PacketsEarned, Earned

LEMMA NothingIsEarned ==
  ASSUME TypeOK
  PROVE  NoScores \in Earned
BY ConstantFacts DEF TypeOK, Earned, NoScores, NoScore, Tables

-----------------------------------------------------------------------------
(* Games.                                                                  *)

LEMMA CreateShipEarned ==
  ASSUME TypeOK, NEW g \in World, NEW i \in Ids, g.mScores \in Earned
  PROVE  CreateShip(g, i).mScores \in Earned
<1>1. CreateShip(g, i).mScores = [g.mScores EXCEPT ![i] = 0]
  BY DEF CreateShip, World
<1>2. [g.mScores EXCEPT ![i] = 0] \in Earned
  BY DEF Earned, TypeOK, Tables
<1>3. QED BY <1>1, <1>2

LEMMA RemovePlayerEarned ==
  ASSUME TypeOK, NEW g \in World, NEW i \in Ids, g.mScores \in Earned
  PROVE  RemovePlayer(g, i).mScores \in Earned
<1>1. RemovePlayer(g, i).mScores \in {g.mScores, [g.mScores EXCEPT ![i] = NoScore]}
  BY DEF RemovePlayer, World
<1>2. [g.mScores EXCEPT ![i] = NoScore] \in Earned
  BY DEF Earned, TypeOK, Tables, NoScore
<1>3. QED BY <1>1, <1>2

LEMMA CopyScoresEarned ==
  ASSUME NEW mine \in Earned, NEW sent \in Earned
  PROVE  CopyScores(mine, sent) \in Earned
BY DEF CopyScores, Earned, Tables

(* A packet with an earned table leaves an earned table. *)
LEMMA ProcessPacketEarned ==
  ASSUME TypeOK, NEW g \in World, NEW m \in Packet,
         g.mScores \in Earned, m.scores \in Earned
  PROVE  ProcessPacket(g, m).mScores \in Earned
<1>1. m.id \in Ids BY DEF Packet
<1>2. CreateShip(g, m.id).mScores \in Earned BY <1>1, CreateShipEarned
<1>3. [g EXCEPT !.mShips = @ \ {m.id}].mScores \in Earned BY DEF World
<1>4. [g EXCEPT !.mScores = CopyScores(@, m.scores)].mScores \in Earned
  <2>1. CopyScores(g.mScores, m.scores) \in Earned BY CopyScoresEarned
  <2>2. QED BY <2>1 DEF World
<1>5. RemovePlayer(g, m.id).mScores \in Earned BY <1>1, RemovePlayerEarned
<1>6. [g EXCEPT !.game_ended = TRUE].mScores \in Earned BY DEF World
<1>7. Won(g, 0).mScores \in Earned BY DEF Won, World
<1>8. QED BY <1>2, <1>3, <1>4, <1>5, <1>6, <1>7 DEF ProcessPacket

LEMMA JoinGameEarned ==
  ASSUME TypeOK, NEW g \in World, NEW ships \in SUBSET Ids, NEW i \in Ids,
         g.mScores \in Earned
  PROVE  JoinGame(g, ships, i).mScores \in Earned
<1> DEFINE all == g.mShips \cup ships \cup {i}
           table == [k \in Ids |-> IF \/ k \in ships \ g.mShips
                                      \/ k < Cardinality(all)
                                   THEN 0 ELSE g.mScores[k]]
<1>1. JoinGame(g, ships, i).mScores = table BY DEF JoinGame, World
<1>2. \A k \in Ids : table[k] = 0 \/ table[k] = g.mScores[k] OBVIOUS
<1>3. table \in [Ids -> Nat \cup {NoScore}] BY DEF World, Tables
<1> HIDE DEF table
<1>4. table \in Earned
  <2>1. \A k \in Ids : table[k] <= kills[k] BY <1>2 DEF Earned, TypeOK
  <2>2. QED BY <1>3, <2>1 DEF Earned, Tables
<1>5. QED BY <1>1, <1>4

-----------------------------------------------------------------------------
(* Packets.                                                                *)

LEMMA BareScores ==
  ASSUME NEW src, NEW dst, NEW flag, NEW type, NEW id, NEW sequence, NEW expect_ack
  PROVE  Bare(src, dst, flag, type, id, sequence, expect_ack).scores = NoScores
BY DEF Bare

LEMMA RelayedScores ==
  ASSUME NEW id, NEW type, NEW scores
  PROVE  \A m \in Relayed(id, type, scores) : m.scores = scores
<1>1. ASSUME NEW m \in Relayed(id, type, scores)
      PROVE  m.scores = scores
  <2>1. PICK i \in Recipients(mClients, id) :
          m = Data(Server, endpoint[i], type, id, Unnumbered, FALSE, scores)
    BY DEF Relayed
  <2>2. QED BY <2>1 DEF Data, Bare
<1>2. QED BY <1>1

LEMMA NumberedScores ==
  ASSUME NEW i, NEW id, NEW posts, NEW S,
         \A k \in 1 .. Len(posts) : posts[k].scores \in S
  PROVE  \A m \in Numbered(i, id, posts) : m.scores \in S
<1>1. ASSUME NEW m \in Numbered(i, id, posts)
      PROVE  m.scores \in S
  <2>1. PICK k \in 1 .. Len(posts) :
          m = Data(Server, endpoint[i], posts[k].type, id, seq[i] + k, TRUE,
                   posts[k].scores)
    BY DEF Numbered
  <2>2. QED BY <2>1 DEF Data, Bare
<1>2. QED BY <1>1

(* A table that was earned stays so: kills only grow. *)
LEMMA EarnedStays ==
  ASSUME TypeOK, TypeOK', \A i \in Ids : kills[i] <= kills'[i]
  PROVE  Earned \subseteq Earned'
BY DEF Earned, TypeOK, Tables, NoScore

-----------------------------------------------------------------------------
(* Steps.  All but ServerKill leave kills, and so the set Earned, alone.   *)

(* One game changes, to one with an earned table. *)
LEMMA OneGameEarned ==
  ASSUME TypeOK, GamesEarned, UNCHANGED kills, NEW p \in Proc, NEW h,
         h.mScores \in Earned, mGame' = [mGame EXCEPT ![p] = h]
  PROVE  GamesEarned'
BY DEF GamesEarned, Earned, TypeOK

(* The packets of a broadcast carry the tables posted. *)
LEMMA BroadcastEarned ==
  ASSUME TypeOK, PacketsEarned, UNCHANGED kills, NEW cs \in SUBSET Ids,
         NEW id \in Ids, NEW posts,
         \A k \in 1 .. Len(posts) : posts[k].scores \in Earned,
         net' = net \cup {} \cup UNION {Numbered(i, id, posts) :
                                          i \in Recipients(cs, id)}
  PROVE  PacketsEarned'
<1>1. ASSUME NEW i \in Recipients(cs, id), NEW m \in Numbered(i, id, posts)
      PROVE  m.scores \in Earned
  BY NumberedScores
<1>2. \A m \in net' : m.scores \in Earned BY <1>1 DEF PacketsEarned
<1>3. QED BY <1>2 DEF PacketsEarned, Earned

LEMMA RemoveClientEarned ==
  ASSUME TypeOK, GamesEarned, PacketsEarned, NEW i \in Ids, RemoveClient(i)
  PROVE  GamesEarned' /\ PacketsEarned'
<1> DEFINE posts == <<Post("PLAYER_DISCONECTS", NoScores)>>
<1>1. Server \in Proc /\ mGame[Server] \in World /\ UNCHANGED kills
  BY ConstantFacts DEF TypeOK, RemoveClient
<1>2. GamesEarned'
  <2>1. RemovePlayer(mGame[Server], i).mScores \in Earned
    BY <1>1, RemovePlayerEarned DEF GamesEarned
  <2>2. QED BY <1>1, <2>1, OneGameEarned DEF RemoveClient
<1>3. \A k \in 1 .. Len(posts) : posts[k].scores \in Earned
  BY NothingIsEarned DEF Post
<1>4. net' = net \cup {} \cup UNION {Numbered(k, i, posts) :
                                       k \in Recipients(mClients \ {i}, i)}
  BY DEF RemoveClient, Broadcast
<1>5. PacketsEarned'
  <2> HIDE DEF posts
  <2>1. mClients \ {i} \in SUBSET Ids BY DEF TypeOK
  <2>2. QED BY <1>1, <1>3, <1>4, <2>1, BroadcastEarned
<1>6. QED BY <1>2, <1>5

LEMMA ServerReceiveEarned ==
  ASSUME TypeOK, GamesEarned, PacketsEarned, NEW m \in net, ServerReceive(m)
  PROVE  GamesEarned' /\ PacketsEarned'
<1>1. Server \in Proc /\ mGame[Server] \in World /\ m \in Packet /\ m.id \in Ids
  BY ConstantFacts, FieldTypes DEF TypeOK
<1>2. ASSUME NEW i, NEW c PROVE SynAck(i, c).scores \in Earned
  <2>1. SynAck(i, c).scores = NoScores BY DEF SynAck, Bare
  <2>2. QED BY <2>1, NothingIsEarned
<1>3. CASE ServerReceiveFin(m)
  BY <1>1, <1>3, RemoveClientEarned DEF ServerReceiveFin
<1>4. CASE ServerReceiveSyn(m)
  <2>1. /\ net' = net \cup {SynAck(clients_count + 1, m.src)}
        /\ UNCHANGED <<mGame, kills>>
    BY <1>4 DEF ServerReceiveSyn
  <2>2. SynAck(clients_count + 1, m.src).scores \in Earned BY <1>2
  <2>3. QED BY <2>1, <2>2 DEF GamesEarned, PacketsEarned, Earned
<1>5. CASE ServerReceiveSynAgain(m)
  <2>1. PICK i \in mClients : net' = net \cup {SynAck(i, endpoint[i])}
    BY <1>5 DEF ServerReceiveSynAgain
  <2>2. UNCHANGED <<mGame, kills>> BY <1>5 DEF ServerReceiveSynAgain
  <2>3. SynAck(i, endpoint[i]).scores \in Earned BY <1>2
  <2>4. QED BY <2>1, <2>2, <2>3 DEF GamesEarned, PacketsEarned, Earned
<1>6. CASE ServerReceiveConnectAck(m)
  <2> DEFINE posts == <<Post("PLAYER_NEW", NoScores)>>
  <2>1. UNCHANGED kills BY <1>6 DEF ServerReceiveConnectAck
  <2>2. GamesEarned'
    <3>1. CreateShip(mGame[Server], m.id).mScores \in Earned
      BY <1>1, CreateShipEarned DEF GamesEarned
    <3>2. QED BY <1>1, <1>6, <2>1, <3>1, OneGameEarned
    DEF ServerReceiveConnectAck
  <2>3. \A k \in 1 .. Len(posts) : posts[k].scores \in Earned
    BY NothingIsEarned DEF Post
  <2>4. net' = net \cup {} \cup UNION {Numbered(k, m.id, posts) :
                                         k \in Recipients(mClients, m.id)}
    BY <1>6 DEF ServerReceiveConnectAck, Broadcast
  <2>5. PacketsEarned'
    <3> HIDE DEF posts
    <3>1. mClients \in SUBSET Ids BY DEF TypeOK
    <3>2. QED BY <1>1, <2>1, <2>3, <2>4, <3>1, BroadcastEarned
  <2>6. QED BY <2>2, <2>5
<1>7. CASE ServerCrashOnConnectAck(m)
  BY <1>7 DEF ServerCrashOnConnectAck, GamesEarned, PacketsEarned, Earned
<1>8. CASE ServerReceiveAck(m)
  BY <1>8 DEF ServerReceiveAck, GamesEarned, PacketsEarned, Earned
<1>9. CASE ServerReceiveData(m)
  <2>1. UNCHANGED kills BY <1>9 DEF ServerReceiveData
  <2>2. GamesEarned'
    <3>1. ProcessPacket(mGame[Server], m).mScores \in Earned
      BY <1>1, ProcessPacketEarned DEF GamesEarned, PacketsEarned
    <3>2. \/ UNCHANGED mGame
          \/ mGame' = [mGame EXCEPT ![Server] = ProcessPacket(mGame[Server], m)]
      BY <1>9 DEF ServerReceiveData
    <3>3. CASE UNCHANGED mGame BY <2>1, <3>3 DEF GamesEarned, Earned
    <3>4. QED BY <1>1, <2>1, <3>1, <3>2, <3>3, OneGameEarned
  <2>3. \A n \in Relayed(m.id, m.type, m.scores) : n.scores \in Earned
    BY RelayedScores DEF PacketsEarned
  <2>4. AckOf(m, Server, endpoint[m.id], 0).scores \in Earned
    BY BareScores, NothingIsEarned DEF AckOf
  <2>5. \A n \in net' : n.scores \in Earned
    BY <1>9, <2>3, <2>4 DEF ServerReceiveData, PacketsEarned
  <2>6. QED BY <2>1, <2>2, <2>5 DEF PacketsEarned, Earned
<1>10. QED BY <1>3, <1>4, <1>5, <1>6, <1>7, <1>8, <1>9 DEF ServerReceive

(* The killer's new table counts one point more, as kills does. *)
LEMMA KillEarned ==
  ASSUME TypeOK, TypeOK', GamesEarned, PacketsEarned, NEW i \in Ids, ServerKill(i)
  PROVE  GamesEarned' /\ PacketsEarned'
<1> DEFINE old   == mGame[Server].mScores
           table == [old EXCEPT ![i] = IF @ = NoScore THEN 1 ELSE @ + 1]
<1>1. Server \in Proc /\ mGame \in [Proc -> World] /\ mGame[Server] \in World
  BY ConstantFacts DEF TypeOK
<1>2. /\ mGame' = [mGame EXCEPT ![Server] = [@ EXCEPT !.mScores = table]]
      /\ net' = net \cup Relayed(0, "SCORE_UPDATE", table)
      /\ kills' = [kills EXCEPT ![i] = @ + 1]
  BY DEF ServerKill
<1>3. \A k \in Ids : kills[k] <= kills'[k] BY <1>2 DEF TypeOK
<1>4. Earned \subseteq Earned' BY <1>3, EarnedStays
<1>5. table \in Earned'
  <2>1. old \in Earned BY <1>1 DEF GamesEarned
  <2>2. \A k \in Ids : table[k] <= kills'[k]
    BY <1>2, <2>1 DEF Earned, TypeOK, Tables, NoScore
  <2>3. table \in Tables BY <2>1 DEF Earned, Tables, NoScore
  <2>4. QED BY <2>2, <2>3 DEF Earned
<1> HIDE DEF table
<1>6. mGame'[Server].mScores = table BY <1>1, <1>2 DEF World
<1>7. \A p \in Proc : p # Server => mGame'[p] = mGame[p] BY <1>1, <1>2
<1>8. GamesEarned' BY <1>4, <1>5, <1>6, <1>7 DEF GamesEarned
<1>9. \A n \in Relayed(0, "SCORE_UPDATE", table) : n.scores = table
  BY RelayedScores
<1>10. PacketsEarned' BY <1>2, <1>4, <1>5, <1>9 DEF PacketsEarned
<1>11. QED BY <1>8, <1>10

LEMMA ServerStepEarned ==
  ASSUME TypeOK, TypeOK', GamesEarned, PacketsEarned, ServerStep
  PROVE  GamesEarned' /\ PacketsEarned'
<1>1. /\ Server \in Proc /\ mGame[Server] \in World /\ 0 \in Ids
      /\ mClients \in SUBSET Ids
  BY ConstantFacts DEF TypeOK
<1>2. ASSUME NEW i \in Ids, ServerTimeout(i) PROVE GamesEarned' /\ PacketsEarned'
  BY <1>2, RemoveClientEarned DEF ServerTimeout
<1>3. ASSUME NEW i \in Ids, ServerKill(i) PROVE GamesEarned' /\ PacketsEarned'
  BY <1>3, KillEarned
<1>4. ASSUME NEW type, UNCHANGED <<mGame, kills>>,
             net' = net \cup Relayed(0, type, NoScores)
      PROVE  GamesEarned' /\ PacketsEarned'
  <2>1. \A n \in Relayed(0, type, NoScores) : n.scores \in Earned
    BY RelayedScores, NothingIsEarned
  <2>2. QED BY <1>4, <2>1 DEF GamesEarned, PacketsEarned, Earned
<1>5. CASE ServerFrame BY <1>4, <1>5 DEF ServerFrame
<1>6. CASE ServerShoot BY <1>4, <1>6 DEF ServerShoot
<1>7. CASE ServerDie
  <2> DEFINE posts == <<Post("PLAYER_DEATH", NoScores),
                        Post("SCORE_UPDATE", mGame[Server].mScores)>>
  <2>1. UNCHANGED kills BY <1>7 DEF ServerDie
  <2>2. LoseShip(mGame[Server], 0).mScores \in Earned
    BY <1>1 DEF LoseShip, World, GamesEarned
  <2>3. GamesEarned' BY <1>1, <1>7, <2>1, <2>2, OneGameEarned DEF ServerDie
  <2>4. \A k \in 1 .. Len(posts) : posts[k].scores \in Earned
    BY <1>1, NothingIsEarned DEF Post, GamesEarned
  <2>5. net' = net \cup {} \cup UNION {Numbered(i, 0, posts) :
                                         i \in Recipients(mClients, 0)}
    BY <1>7 DEF ServerDie, Broadcast
  <2>6. PacketsEarned'
    <3> HIDE DEF posts
    <3>1. QED BY <1>1, <2>1, <2>4, <2>5, BroadcastEarned
  <2>7. QED BY <2>3, <2>6
<1>8. CASE ServerEndGame
  <2> DEFINE over  == mGame[Server].mShips = {}
             g     == [mGame[Server] EXCEPT !.game_ended = over]
             first == IF over THEN <<Post("GAME_OVER", NoScores)>> ELSE <<>>
             both  == Append(first, Post("GAME_WON", NoScores))
  <2>1. UNCHANGED kills BY <1>8 DEF ServerEndGame
  <2>2. PICK posts \in {first, both}, h \in {g} \cup {Won(g, i) : i \in Winners} :
          /\ mGame' = [mGame EXCEPT ![Server] = h]
          /\ Broadcast(mClients, 0, posts, sended, {})
    BY <1>8 DEF ServerEndGame
  <2>3. h.mScores \in Earned
    <3>1. g.mScores = mGame[Server].mScores BY <1>1 DEF World
    <3>2. \A i \in Winners : Won(g, i).mScores = mGame[Server].mScores
      BY <1>1 DEF World, Won
    <3>3. QED BY <1>1, <2>2, <3>1, <3>2 DEF GamesEarned
  <2>4. GamesEarned' BY <1>1, <2>1, <2>2, <2>3, OneGameEarned
  <2>5. \A k \in 1 .. Len(posts) : posts[k].scores \in Earned
    <3>1. \A k \in 1 .. Len(first) : first[k].scores \in Earned
      BY NothingIsEarned DEF Post
    <3>2. \A k \in 1 .. Len(both) : both[k].scores \in Earned
      BY NothingIsEarned DEF Post
    <3>3. QED BY <2>2, <3>1, <3>2
  <2>6. net' = net \cup {} \cup UNION {Numbered(i, 0, posts) :
                                         i \in Recipients(mClients, 0)}
    BY <2>2 DEF Broadcast
  <2>7. PacketsEarned' BY <1>1, <2>1, <2>5, <2>6, BroadcastEarned
  <2>8. QED BY <2>4, <2>7
<1>9. CASE ServerClose
  <2>1. \A n \in {Bare(Server, endpoint[i], "FIN", "CONECTION", 0, seq[i] + 1,
                       TRUE) : i \in mClients} : n.scores \in Earned
    BY BareScores, NothingIsEarned
  <2>2. QED BY <1>9, <2>1 DEF ServerClose, GamesEarned, PacketsEarned, Earned
<1>10. QED BY <1>2, <1>3, <1>5, <1>6, <1>7, <1>8, <1>9 DEF ServerStep

LEMMA ClientEarned ==
  ASSUME TypeOK, GamesEarned, PacketsEarned, NEW c \in Client,
         ClientStep(c) \/ \E m \in net : ClientReceive(c, m)
  PROVE  GamesEarned' /\ PacketsEarned'
<1>1. c \in Proc /\ mGame[c] \in World BY ConstantFacts DEF TypeOK
<1>2. ASSUME NEW i PROVE ConnectAck(c, i).scores \in Earned
  BY BareScores, NothingIsEarned DEF ConnectAck
<1>3. ASSUME NEW m \in net, ClientConnect(c, m) PROVE GamesEarned' /\ PacketsEarned'
  <2>1. JoinGame(mGame[c], m.ships, m.id).mScores \in Earned
    BY <1>1, FieldTypes, JoinGameEarned DEF GamesEarned
  <2>2. GamesEarned' BY <1>1, <1>3, <2>1, OneGameEarned DEF ClientConnect
  <2>3. PacketsEarned' BY <1>2, <1>3 DEF ClientConnect, PacketsEarned, Earned
  <2>4. QED BY <2>2, <2>3
<1>4. ASSUME NEW m \in net, ClientConnectFails(c, m)
      PROVE  GamesEarned' /\ PacketsEarned'
  BY <1>4 DEF ClientConnectFails, GamesEarned, PacketsEarned, Earned
<1>5. CASE ClientQuit(c)
  <2>1. Bare(c, Server, "FIN", "CONECTION", m_id[c], 0, TRUE).scores \in Earned
    BY BareScores, NothingIsEarned
  <2>2. QED BY <1>5, <2>1 DEF ClientQuit, GamesEarned, PacketsEarned, Earned
<1>6. ASSUME NEW m \in net, ClientReceiveSynAck(c, m)
      PROVE  GamesEarned' /\ PacketsEarned'
  BY <1>2, <1>6 DEF ClientReceiveSynAck, GamesEarned, PacketsEarned, Earned
<1>7. ASSUME NEW m \in net, ClientReceiveAck(c, m)
      PROVE  GamesEarned' /\ PacketsEarned'
  BY <1>7 DEF ClientReceiveAck, GamesEarned, PacketsEarned, Earned
<1>8. ASSUME NEW m \in net, ClientReceiveData(c, m)
      PROVE  GamesEarned' /\ PacketsEarned'
  <2>1. ProcessPacket(mGame[c], m).mScores \in Earned
    BY <1>1, FieldTypes, ProcessPacketEarned DEF GamesEarned, PacketsEarned
  <2>2. UNCHANGED kills BY <1>8 DEF ClientReceiveData
  <2>3. \/ UNCHANGED mGame
        \/ mGame' = [mGame EXCEPT ![c] = ProcessPacket(mGame[c], m)]
    BY <1>8 DEF ClientReceiveData
  <2>4. ASSUME UNCHANGED mGame PROVE GamesEarned'
    BY <2>2, <2>4 DEF GamesEarned, Earned
  <2>5. GamesEarned'
    <3> DEFINE h == ProcessPacket(mGame[c], m)
    <3>1. h.mScores \in Earned BY <2>1
    <3>2. mGame' = [mGame EXCEPT ![c] = h] \/ UNCHANGED mGame BY <2>3
    <3> HIDE DEF h
    <3>3. QED BY <1>1, <2>2, <2>4, <3>1, <3>2, OneGameEarned
  <2>6. AckOf(m, c, Server, m_id[c]).scores \in Earned
    BY BareScores, NothingIsEarned DEF AckOf
  <2>7. \A n \in net' : n.scores \in Earned
    BY <1>8, <2>6 DEF ClientReceiveData, PacketsEarned
  <2>8. QED BY <2>2, <2>5, <2>7 DEF PacketsEarned, Earned
<1>9. CASE ClientStart(c)
  <2>1. Syn(c).scores \in Earned BY BareScores, NothingIsEarned DEF Syn
  <2>2. QED BY <1>9, <2>1 DEF ClientStart, GamesEarned, PacketsEarned, Earned
<1>10. CASE ClientConnectError(c)
  BY <1>10 DEF ClientConnectError, GamesEarned, PacketsEarned, Earned
<1>11. CASE ClientShoot(c)
  <2>1. Data(c, Server, "PLAYER_SHOT", m_id[c], Unnumbered, FALSE,
             NoScores).scores = NoScores
    BY DEF Data, Bare
  <2>2. \A n \in net' : n.scores \in Earned
    BY <1>11, <2>1, NothingIsEarned DEF ClientShoot, PacketsEarned
  <2>3. UNCHANGED <<mGame, kills>> BY <1>11 DEF ClientShoot
  <2>4. QED BY <2>2, <2>3 DEF GamesEarned, PacketsEarned, Earned
<1>12. CASE ClientDie(c)
  <2> DEFINE death == Data(c, Server, "PLAYER_DEATH", m_id[c], c_seq[c] + 1, TRUE,
                           NoScores)
             score == Data(c, Server, "SCORE_UPDATE", m_id[c], c_seq[c] + 2, TRUE,
                           mGame[c].mScores)
  <2>1. death.scores = NoScores BY DEF Data, Bare
  <2>2. score.scores = mGame[c].mScores BY DEF Data, Bare
  <2>3. LoseShip(mGame[c], m_id[c]).mScores \in Earned
    BY <1>1 DEF LoseShip, World, GamesEarned
  <2>4. UNCHANGED kills BY <1>12 DEF ClientDie
  <2>5. GamesEarned' BY <1>1, <1>12, <2>3, <2>4, OneGameEarned DEF ClientDie
  <2>6. \A n \in net' : n.scores \in Earned
    <3>1. net' = net \cup {death, score} BY <1>12 DEF ClientDie
    <3> HIDE DEF death, score
    <3>2. QED BY <1>1, <2>1, <2>2, <3>1, NothingIsEarned
    DEF PacketsEarned, GamesEarned
  <2>7. QED BY <2>4, <2>5, <2>6 DEF PacketsEarned, Earned
<1>13. QED BY <1>3, <1>4, <1>5, <1>6, <1>7, <1>8, <1>9, <1>10, <1>11, <1>12
           DEF ClientStep, ClientReceive, ClientReceiveFin

LEMMA InitEarned ==
  ASSUME Init
  PROVE  GamesEarned /\ PacketsEarned
<1>1. TypeOK BY InitType
<1>2. EmptyGame.mScores \in Earned BY <1>1, NothingIsEarned DEF EmptyGame
<1>3. ServerGame.mScores \in Earned
  <2>1. ServerGame.mScores = [NoScores EXCEPT ![0] = 0]
    BY DEF ServerGame, EmptyGame
  <2>2. [NoScores EXCEPT ![0] = 0] \in Tables
    BY ConstantFacts DEF Tables
  <2>3. \A i \in Ids : [NoScores EXCEPT ![0] = 0][i] <= kills[i]
    BY <1>1, ConstantFacts DEF NoScores, NoScore, TypeOK
  <2>4. QED BY <2>1, <2>2, <2>3 DEF Earned
<1>4. QED BY <1>2, <1>3 DEF Init, GamesEarned, PacketsEarned

(* No table, in a game or on the network, ever credits a player with more  *)
(* asteroids than the player destroyed, however old the table is when it   *)
(* is applied: NET_SCORE_UPDATE, and the score line of the kill.           *)
THEOREM ScoresAreEarned == Spec => []ScoresEarned
<1>1. Init => GamesEarned /\ PacketsEarned BY InitEarned
<1>2. TypeOK /\ TypeOK' /\ GamesEarned /\ PacketsEarned /\ [Next]_vars
        => GamesEarned' /\ PacketsEarned'
  <2>1. CASE UNCHANGED vars
    BY <2>1 DEF vars, GamesEarned, PacketsEarned, Earned
  <2>2. QED BY <2>1, ServerReceiveEarned, ServerStepEarned, ClientEarned
  DEF Next
<1>3. TypeOK /\ GamesEarned /\ PacketsEarned => ScoresEarned BY ScoresAsTables
<1>4. QED BY <1>1, <1>2, <1>3, SessionTypeCorrect, PTL DEF Spec

-----------------------------------------------------------------------------
(* Victory.                                                                *)

SameWinner ==
  /\ mGame'[Server].game_won = mGame[Server].game_won
  /\ mGame'[Server].won_id = mGame[Server].won_id

(* Playing a packet of a client changes nothing about a victory.           *)
LEMMA FromClientsWin ==
  ASSUME NEW g \in World, NEW m \in Packet, m.type \in FromClients
  PROVE  /\ ProcessPacket(g, m).game_won = g.game_won
         /\ ProcessPacket(g, m).won_id = g.won_id
<1>1. ProcessPacket(g, m) \in {[g EXCEPT !.mShips = @ \ {m.id}],
                               [g EXCEPT !.mScores = CopyScores(@, m.scores)], g}
  BY DEF ProcessPacket, FromClients
<1>2. QED BY <1>1 DEF World

(* Only ServerEndGame declares a winner, and it is one of Winners.         *)
LEMMA WinStep ==
  ASSUME TypeOK, ToServer, [Next]_vars
  PROVE  SameWinner \/ (mGame'[Server].won_id \in Winners /\ UNCHANGED kills)
<1>1. mGame[Server] \in World /\ mGame \in [Proc -> World] /\ Server \in Proc /\ 0 \in Ids
  BY ConstantFacts DEF TypeOK
<1>2. CASE UNCHANGED mGame BY <1>2 DEF SameWinner
<1>3. ASSUME NEW i \in Ids, RemoveClient(i) PROVE SameWinner
  <2>1. mGame'[Server] = RemovePlayer(mGame[Server], i) BY <1>1, <1>3
  DEF RemoveClient
  <2>2. QED BY <1>1, <2>1 DEF SameWinner, RemovePlayer, World
<1>4. ASSUME NEW m \in net, ServerReceive(m) PROVE SameWinner
  <2>1. m \in Packet /\ m.id \in Ids BY FieldTypes
  <2>2. CASE ServerReceiveFin(m) BY <1>3, <2>1, <2>2 DEF ServerReceiveFin
  <2>3. CASE ServerReceiveConnectAck(m)
    <3>1. mGame'[Server] = CreateShip(mGame[Server], m.id)
      BY <1>1, <2>3 DEF ServerReceiveConnectAck
    <3>2. QED BY <1>1, <3>1 DEF SameWinner, CreateShip, World
  <2>4. CASE ServerReceiveData(m)
    <3>1. mGame'[Server] \in {mGame[Server], ProcessPacket(mGame[Server], m)}
      BY <1>1, <2>4 DEF ServerReceiveData
    <3>2. m.type \in FromClients BY <2>4
    DEF ServerReceiveData, Received, ToServer
    <3>3. QED BY <1>1, <2>1, <3>1, <3>2, FromClientsWin DEF SameWinner
  <2>5. CASE UNCHANGED mGame BY <2>5 DEF SameWinner
  <2>6. QED BY <1>4, <2>2, <2>3, <2>4, <2>5
            DEF ServerReceive, ServerReceiveSyn, ServerReceiveSynAgain,
            ServerCrashOnConnectAck, ServerReceiveAck
<1>5. ASSUME NEW i \in Ids, ServerKill(i) PROVE SameWinner
  <2>1. PICK t : mGame' = [mGame EXCEPT ![Server] = [@ EXCEPT !.mScores = t]]
    BY <1>5 DEF ServerKill
  <2>2. QED BY <1>1, <2>1 DEF SameWinner, World
<1>6. CASE ServerDie
  <2>1. mGame'[Server] = LoseShip(mGame[Server], 0) BY <1>1, <1>6 DEF ServerDie
  <2>2. QED BY <1>1, <2>1 DEF SameWinner, LoseShip, World
<1>7. CASE ServerEndGame
  <2> DEFINE g == [mGame[Server] EXCEPT !.game_ended = (mGame[Server].mShips = {})]
  <2>1. g \in World /\ g.game_won = mGame[Server].game_won /\ g.won_id = mGame[Server].won_id
    BY <1>1 DEF World
  <2>2. UNCHANGED kills
        /\ \/ mGame' = [mGame EXCEPT ![Server] = g]
           \/ \E i \in Winners : mGame' = [mGame EXCEPT ![Server] = Won(g, i)]
    BY <1>7 DEF ServerEndGame
  <2> HIDE DEF g
  <2>3. \A i \in Winners : Won(g, i).won_id = i BY <2>1 DEF Won, World
  <2>4. QED BY <1>1, <2>1, <2>2, <2>3 DEF SameWinner
<1>8. CASE ServerStep
  BY <1>2, <1>3, <1>5, <1>6, <1>7, <1>8
     DEF ServerStep, ServerTimeout, ServerFrame, ServerShoot, ServerClose
<1>9. ASSUME NEW c \in Client, ClientStep(c) \/ \E m \in net : ClientReceive(c, m)
      PROVE  SameWinner
  <2>1. c # Server BY ConstantFacts
  <2>2. mGame'[Server] = mGame[Server]
    BY <1>1, <1>9, <2>1
      
       DEF ClientStep, ClientStart, ClientConnectError, ClientQuit,
           ClientShoot,
       ClientDie, ClientReceive, ClientConnect, ClientConnectFails, ClientReceiveFin,
       ClientReceiveSynAck, ClientReceiveAck, ClientReceiveData
  <2>3. QED BY <2>2 DEF SameWinner
<1>10. CASE UNCHANGED vars BY <1>2, <1>10 DEF vars
<1>11. QED BY <1>4, <1>8, <1>9, <1>10 DEF Next

(* Asteroids once destroyed stay so. *)
LEMMA KillsGrow ==
  ASSUME TypeOK, [Next]_vars, NEW i \in Ids
  PROVE  kills[i] <= kills'[i]
<1>1. CASE UNCHANGED kills BY <1>1 DEF TypeOK
<1>2. ASSUME NEW j \in Ids, ServerKill(j) PROVE kills[i] <= kills'[i]
  BY <1>2 DEF ServerKill, TypeOK
<1>3. ASSUME NEW m \in net, ServerReceive(m) PROVE UNCHANGED kills
  BY <1>3 DEF ServerReceive, ServerReceiveFin, RemoveClient, ServerReceiveSyn,
     ServerReceiveSynAgain, ServerReceiveConnectAck, ServerCrashOnConnectAck,
     ServerReceiveAck, ServerReceiveData
<1>4. CASE ServerStep
  BY <1>1, <1>2, <1>4
  DEF ServerStep, ServerTimeout, RemoveClient, ServerFrame, ServerShoot,
     ServerDie, ServerEndGame, ServerClose
<1>5. ASSUME NEW c \in Client, ClientStep(c) \/ \E m \in net : ClientReceive(c, m)
      PROVE  UNCHANGED kills
  BY <1>5
  DEF ClientStep, ClientStart, ClientConnectError, ClientQuit, ClientShoot,
     ClientDie, ClientReceive, ClientConnect, ClientConnectFails, ClientReceiveFin,
     ClientReceiveSynAck, ClientReceiveAck, ClientReceiveData
<1>6. CASE UNCHANGED vars BY <1>1, <1>6 DEF vars
<1>7. QED BY <1>1, <1>3, <1>4, <1>5, <1>6 DEF Next

LEMMA WinnerInductive ==
  ASSUME TypeOK, TypeOK', ToServer, ScoresEarned, WinnerEarned, [Next]_vars
  PROVE  WinnerEarned'
<1>1. mGame[Server] \in World /\ mGame'[Server] \in World /\ Server \in Proc
  BY ConstantFacts DEF TypeOK
<1>2. CASE SameWinner
  <2> DEFINE i == mGame[Server].won_id
  <2>1. i \in Ids /\ PointsToWin \in Nat BY <1>1, SessionAssumption
  DEF World, SessionAssumption
  <2>2. kills[i] <= kills'[i] /\ kills[i] \in Nat /\ kills'[i] \in Nat
    BY <2>1, KillsGrow DEF TypeOK
  <2> HIDE DEF i
  <2>3. SUFFICES ASSUME mGame'[Server].game_won PROVE kills'[i] >= PointsToWin
    BY <1>2 DEF SameWinner, WinnerEarned, i
  <2>4. kills[i] >= PointsToWin BY <1>2, <2>3 DEF SameWinner, WinnerEarned, i
  <2>5. QED BY <2>1, <2>2, <2>4
<1>3. CASE mGame'[Server].won_id \in Winners /\ UNCHANGED kills
  <2> DEFINE i == mGame'[Server].won_id
  <2>1. i \in Ids /\ mGame[Server].mScores[i] >= PointsToWin BY <1>3
  DEF Winners
  <2>2. mGame[Server].mScores[i] <= kills[i] BY <1>1, <2>1 DEF ScoresEarned
  <2>3. /\ mGame[Server].mScores[i] \in Nat \cup {NoScore} /\ kills[i] \in Nat
        /\ PointsToWin \in Nat
    BY <1>1, <2>1, SessionAssumption
    DEF World, Tables, TypeOK, SessionAssumption
  <2>4. kills[i] >= PointsToWin BY <2>1, <2>2, <2>3 DEF NoScore
  <2>5. QED BY <1>3, <2>4 DEF WinnerEarned
<1>4. QED BY <1>2, <1>3, WinStep

(* The server declares a winner only if that player really destroyed       *)
(* points_to_win asteroids: no packet of a client can declare one, and the *)
(* score it reads is earned.  Of what a client shows it says nothing.      *)
THEOREM WinnersHaveEarned == Spec => []WinnerEarned
<1>1. Init => WinnerEarned
  <2>1. ServerGame.game_won = FALSE BY DEF ServerGame, EmptyGame
  <2>2. QED BY <2>1, ConstantFacts DEF Init, WinnerEarned
<1>2. TypeOK /\ TypeOK' /\ Wire /\ ScoresEarned /\ WinnerEarned /\ [Next]_vars => WinnerEarned'
  BY WinnerInductive DEF Wire
<1>3. QED BY <1>1, <1>2, SessionWire, ScoresAreEarned, PTL DEF Spec

-----------------------------------------------------------------------------
(* Membership on the clients.                                              *)

(* The packet that creates the ship of p waits for the acknowledgement of  *)
(* i.                                                                      *)
Pending(i, p) == \E m \in sended[i] : m.type = "PLAYER_NEW" /\ m.id = p

(* A ship a packet takes away has died or left, or the game was won. *)
LEMMA ProcessPacketLoss ==
  ASSUME NEW g \in World, NEW m \in Packet,
         NEW p \in g.mShips \ ProcessPacket(g, m).mShips
  PROVE  \/ m.type = "GAME_WON"
         \/ m.type \in {"PLAYER_DEATH", "PLAYER_DISCONECTS"} /\ m.id = p
<1>1. CreateShip(g, m.id).mShips = g.mShips \cup {m.id}
  BY DEF CreateShip, World
<1>2. [g EXCEPT !.mShips = @ \ {m.id}].mShips = g.mShips \ {m.id}
  BY DEF World
<1>3. [g EXCEPT !.mScores = CopyScores(@, m.scores)].mShips = g.mShips
  BY DEF World
<1>4. g.mShips \ {m.id} \subseteq RemovePlayer(g, m.id).mShips BY
DEF RemovePlayer, World
<1>5. [g EXCEPT !.game_ended = TRUE].mShips = g.mShips BY DEF World
<1>6. QED BY <1>1, <1>2, <1>3, <1>4, <1>5 DEF ProcessPacket

(* What a client played from the server has no other ship. *)
LEMMA FromClientsShips ==
  ASSUME NEW g \in World, NEW m \in Packet, m.type \in FromClients
  PROVE  ProcessPacket(g, m).mShips \subseteq g.mShips
<1>1. [g EXCEPT !.mShips = @ \ {m.id}].mShips = g.mShips \ {m.id}
  BY DEF World
<1>2. [g EXCEPT !.mScores = CopyScores(@, m.scores)].mShips = g.mShips
  BY DEF World
<1>3. QED BY <1>1, <1>2 DEF ProcessPacket, FromClients

(* NET_PLAYER_NEW and NET_PLAYER_DISCONECTS are about players the server   *)
(* gave an id to, and the latter about ones it has removed.                *)
AboutPlayers == \A m \in net : m.flag = "SEQ" =>
  /\ m.type = "PLAYER_NEW" => m.id \in Sessions
  /\ m.type = "PLAYER_DISCONECTS" => m.id \in Sessions \ mClients

(* A client forgets a ship only if it died or left, or the game was won. *)
LEMMA ShipsStep ==
  ASSUME TypeOK, AboutPlayers, [Next]_vars, NEW c \in Client, NEW p \in mGame[c].mShips
  PROVE  p \in mGame'[c].mShips \/ Announced(p)' \/ p \in Sessions \ mClients
<1>1. mGame[c] \in World /\ c \in Proc BY ConstantFacts DEF TypeOK
<1>2. CASE ServerStep \/ \E m \in net : ServerReceive(m)
  BY <1>2, ServerAlone
<1>3. ASSUME NEW d \in Client, ClientStep(d) \/ \E m \in net : ClientReceive(d, m), d # c
      PROVE  mGame'[c] = mGame[c]
  BY <1>3, ClientAlone
<1>4. CASE ClientDie(c)
  <2>1. mGame'[c] = LoseShip(mGame[c], m_id[c]) BY <1>1, <1>4
  DEF ClientDie, TypeOK
  <2>2. mGame'[c].mShips = mGame[c].mShips \ {m_id[c]} BY <1>1, <2>1
  DEF LoseShip, World
  <2> DEFINE m == Data(c, Server, "PLAYER_DEATH", m_id[c], c_seq[c] + 1, TRUE, NoScores)
  <2>3. m \in net' BY <1>4 DEF ClientDie
  <2>4. m.type = "PLAYER_DEATH" /\ m.id = m_id[c] BY DEF Data, Bare
  <2> HIDE DEF m
  <2>5. QED BY <2>2, <2>3, <2>4 DEF Announced
<1>5. ASSUME NEW m \in net, ClientConnect(c, m)
      PROVE  p \in mGame'[c].mShips
  <2>1. mGame'[c] = JoinGame(mGame[c], m.ships, m.id)
    BY <1>1, <1>5 DEF ClientConnect, TypeOK
  <2>2. QED BY <1>1, <2>1 DEF JoinGame, World
<1>6. ASSUME NEW m \in net, ClientReceiveData(c, m)
      PROVE  p \in mGame'[c].mShips \/ Announced(p)' \/ p \in Sessions \ mClients
  <2>1. mGame'[c] = mGame[c] \/ mGame'[c] = ProcessPacket(mGame[c], m)
    BY <1>1, <1>6 DEF ClientReceiveData, TypeOK
  <2>2. m \in Packet /\ m \in net' /\ m.flag = "SEQ"
    BY <1>6, FieldTypes DEF ClientReceiveData
  <2>3. CASE p \notin ProcessPacket(mGame[c], m).mShips
    <3>1. \/ m.type = "GAME_WON"
          \/ m.type \in {"PLAYER_DEATH", "PLAYER_DISCONECTS"} /\ m.id = p
      BY <1>1, <2>2, <2>3, ProcessPacketLoss
    <3>2. QED BY <2>2, <3>1 DEF Announced, AboutPlayers
  <2>4. QED BY <2>1, <2>3
<1>7. CASE ClientStep(c) \/ \E m \in net : ClientReceive(c, m)
  <2>1. CASE mGame' = mGame BY <2>1
  <2>2. CASE mGame' # mGame
    BY <1>4, <1>5, <1>6, <1>7, <2>2
      
       DEF ClientStep, ClientStart, ClientConnectError, ClientQuit,
           ClientShoot,
       ClientReceive, ClientConnectFails, ClientReceiveFin,
       ClientReceiveSynAck, ClientReceiveAck
  <2>3. QED BY <2>1, <2>2
<1>8. CASE UNCHANGED vars BY <1>8 DEF vars
<1>9. QED BY <1>2, <1>3, <1>7, <1>8 DEF Next

(* What a broadcast stores. *)
LEMMA BroadcastKeeps ==
  ASSUME TypeOK, NEW cs \in SUBSET Ids, NEW id \in Ids, NEW posts \in Posts, NEW stored,
         Broadcast(cs, id, posts, stored, {}), NEW i \in Ids
  PROVE  stored[i] \subseteq sended'[i] /\ seq[i] <= seq'[i]
<1>1. /\ seq' = [j \in Ids |-> IF j \in Recipients(cs, id) THEN seq[j] + Len(posts) ELSE seq[j]]
      /\ sended' = [j \in Ids |-> IF j \in Recipients(cs, id)
                                  THEN stored[j] \cup Numbered(j, id, posts)
                                  ELSE stored[j]]
  BY DEF Broadcast
<1>2. Len(posts) \in Nat /\ seq[i] \in Nat BY DEF Posts, TypeOK
<1>3. QED BY <1>1, <1>2

LEMMA BroadcastAdds ==
  ASSUME NEW cs \in SUBSET Ids, NEW id, NEW posts, NEW stored,
         Broadcast(cs, id, posts, stored, {}), NEW i \in Ids,
         NEW m \in sended'[i], m \notin stored[i]
  PROVE  i \in cs /\ m \in net' /\ m.flag = "SEQ" /\ m.expect_ack /\ m.dst = endpoint[i]
<1>1. i \in Recipients(cs, id) /\ m \in Numbered(i, id, posts) BY DEF Broadcast
<1>2. PICK k \in 1 .. Len(posts) : m = Copy(i, k, id, posts)
  BY <1>1 DEF Numbered, Copy
<1>3. m.flag = "SEQ" /\ m.expect_ack /\ m.dst = endpoint[i]
  BY <1>2 DEF Copy, Data, Bare
<1>4. i \in cs BY <1>1 DEF Recipients
<1>5. m \in net' BY <1>1 DEF Broadcast
<1>6. QED BY <1>3, <1>4, <1>5

LEMMA BroadcastReaches ==
  ASSUME NEW cs \in SUBSET Ids, NEW id, NEW posts, NEW stored,
         Broadcast(cs, id, posts, stored, {}), NEW i \in Ids, i \in Recipients(cs, id),
         NEW k \in 1 .. Len(posts)
  PROVE  \E m \in sended'[i] : m.type = posts[k].type /\ m.id = id
<1>1. Copy(i, k, id, posts) \in sended'[i]
  <2>1. Copy(i, k, id, posts) \in Numbered(i, id, posts) BY DEF Copy, Numbered
  <2>2. QED BY <2>1 DEF Broadcast
<1>2. Copy(i, k, id, posts).type = posts[k].type /\ Copy(i, k, id, posts).id = id
  BY DEF Copy, Data, Bare
<1>3. QED BY <1>1, <1>2

(* How the record of a session changes: what is stored for it is a packet  *)
(* to its client, what is erased was acknowledged.                         *)
Stored(i) ==
  \A m \in sended'[i] : m.type = "PLAYER_NEW" =>
    \/ m \in sended[i]
    \/ i \in mClients /\ m \in net' /\ m.flag = "SEQ" /\ m.expect_ack /\ m.dst = endpoint[i]

AckedBy(i, m, a) ==
  a.flag = "ACK" /\ a.dst = Server /\ a.type # "CONECTION" /\ a.id = i /\ a.sequence = m.sequence

Erased(i) ==
  i \in mClients' /\ srv' = "up" =>
    \A m \in sended[i] : \/ m \in sended'[i]
                         \/ m.sequence = 0
                         \/ \E a \in net : AckedBy(i, m, a)

Record(i) == Stored(i) /\ Erased(i) /\ seq[i] <= seq'[i]

LEMMA RecordKept ==
  ASSUME TypeOK, NEW i \in Ids, sended'[i] = sended[i], seq'[i] = seq[i]
  PROVE  Record(i)
BY DEF Record, Stored, Erased, TypeOK

LEMMA RemoveClientRecord ==
  ASSUME TypeOK, NEW j \in mClients, RemoveClient(j), NEW i \in Ids
  PROVE  Record(i)
<1> DEFINE posts == <<Post("PLAYER_DISCONECTS", NoScores)>>
           stored == [sended EXCEPT ![j] = {}]
<1>1. Broadcast(mClients \ {j}, j, posts, stored, {}) /\ mClients' = mClients \ {j}
      /\ j \in Ids /\ mClients \ {j} \in SUBSET Ids
  BY DEF RemoveClient, TypeOK
<1>2. posts \in Posts BY ConstantFacts DEF Post, Posts, Posting, Types
<1>3. stored[i] \subseteq sended[i] /\ (i # j => stored[i] = sended[i])
  BY <1>1 DEF TypeOK
<1> HIDE DEF posts, stored
<1>4. stored[i] \subseteq sended'[i] /\ seq[i] <= seq'[i]
  BY <1>1, <1>2, BroadcastKeeps
<1>5. Stored(i)
  <2>1. ASSUME NEW m \in sended'[i], m \notin stored[i]
        PROVE  i \in mClients /\ m \in net' /\ m.flag = "SEQ" /\ m.expect_ack /\ m.dst = endpoint[i]
    BY <1>1, <2>1, BroadcastAdds
  <2>2. QED BY <1>3, <2>1 DEF Stored
<1>6. Erased(i) BY <1>1, <1>3, <1>4 DEF Erased
<1>7. QED BY <1>4, <1>5, <1>6 DEF Record

LEMMA PostedRecord ==
  ASSUME TypeOK, NEW posts \in Posts, Broadcast(mClients, 0, posts, sended, {}), NEW i \in Ids
  PROVE  Record(i)
<1>1. mClients \in SUBSET Ids BY DEF TypeOK
<1>2. sended[i] \subseteq sended'[i] /\ seq[i] <= seq'[i]
  BY <1>1, ConstantFacts, BroadcastKeeps
<1>3. ASSUME NEW m \in sended'[i], m \notin sended[i]
      PROVE  i \in mClients /\ m \in net' /\ m.flag = "SEQ" /\ m.expect_ack /\ m.dst = endpoint[i]
  BY <1>1, <1>3, BroadcastAdds
<1>4. QED BY <1>2, <1>3 DEF Record, Stored, Erased

LEMMA SessionIds ==
  ASSUME TypeOK, Membership
  PROVE  Sessions \subseteq Ids /\ mClients \subseteq Sessions
BY SessionAssumption DEF SessionAssumption, TypeOK, Membership, Sessions, Ids

LEMMA ServerReceiveRecord ==
  ASSUME TypeOK, Membership, NEW m \in net, ServerReceive(m), ToServer, NEW i \in Sessions
  PROVE  Record(i)
<1>1. i \in Ids /\ m.id \in Ids /\ m.sequence \in Nat \cup {Unnumbered}
  BY FieldTypes, SessionIds
<1>2. CASE ServerReceiveFin(m)
  BY <1>1, <1>2, RemoveClientRecord DEF ServerReceiveFin
<1>3. CASE ServerReceiveSyn(m)
  <2>1. clients_count + 1 # i
    <3>1. clients_count \in Nat BY ConstantFacts DEF TypeOK
    <3>2. QED BY <3>1 DEF Sessions
  <2>2. sended'[i] = sended[i] /\ seq'[i] = seq[i]
    BY <1>1, <1>3, <2>1 DEF ServerReceiveSyn, TypeOK
  <2>3. QED BY <1>1, <2>2, RecordKept
<1>4. CASE ServerReceiveSynAgain(m)
  <2>1. PICK j \in mClients :
          sended' = [sended EXCEPT ![j] = Store(@, SynAck(j, endpoint[j]))]
    BY <1>4 DEF ServerReceiveSynAgain
  <2>2. seq' = seq BY <1>4 DEF ServerReceiveSynAgain
  <2>3. CASE i # j BY <1>1, <2>1, <2>2, <2>3, RecordKept DEF TypeOK
  <2>4. CASE i = j
    <3>1. sended'[i] = Store(sended[i], SynAck(i, endpoint[i])) BY <1>1,
       <2>1, <2>4
    DEF TypeOK
    <3>2. SynAck(i, endpoint[i]).type = "CONECTION" /\ SynAck(i, endpoint[i]).sequence = 0
      BY DEF SynAck, Bare
    <3>3. Stored(i) BY <3>1, <3>2 DEF Stored, Store, Erase
    <3>4. Erased(i) BY <3>1, <3>2 DEF Erased, Store, Erase
    <3>5. QED BY <1>1, <2>2, <3>3, <3>4 DEF Record, TypeOK
  <2>5. QED BY <2>3, <2>4
<1>5. CASE ServerReceiveConnectAck(m)
  <2> DEFINE posts == <<Post("PLAYER_NEW", NoScores)>>
             stored == [sended EXCEPT ![m.id] = Erase(@, m.sequence)]
  <2>1. Broadcast(mClients, m.id, posts, stored, {}) /\ mClients \in SUBSET Ids
    BY <1>5 DEF ServerReceiveConnectAck, TypeOK
  <2>2. posts \in Posts BY ConstantFacts DEF Post, Posts, Posting, Types
  <2>3. stored[i] = sended[i] \/ stored[i] = Erase(sended[i], 0)
    BY <1>1, <1>5 DEF ServerReceiveConnectAck, Received, ToServer, TypeOK
  <2>4. /\ stored[i] \subseteq sended[i]
        /\ \A n \in sended[i] : n \in stored[i] \/ n.sequence = 0
    BY <2>3 DEF Erase
  <2> HIDE DEF posts, stored
  <2>5. stored[i] \subseteq sended'[i] /\ seq[i] <= seq'[i]
    BY <1>1, <2>1, <2>2, BroadcastKeeps
  <2>6. Stored(i)
    <3>1. ASSUME NEW n \in sended'[i], n \notin stored[i]
          PROVE  i \in mClients /\ n \in net' /\ n.flag = "SEQ" /\ n.expect_ack
                 /\ n.dst = endpoint[i]
      BY <1>1, <2>1, <3>1, BroadcastAdds
    <3>2. QED BY <2>4, <3>1 DEF Stored
  <2>7. Erased(i) BY <2>4, <2>5 DEF Erased
  <2>8. QED BY <2>5, <2>6, <2>7 DEF Record
<1>6. CASE ServerCrashOnConnectAck(m)
  BY <1>1, <1>6, RecordKept DEF ServerCrashOnConnectAck
<1>7. CASE ServerReceiveAck(m)
  <2>1. sended' = [sended EXCEPT ![m.id] = Erase(@, m.sequence)] /\ seq' = seq
    BY <1>7 DEF ServerReceiveAck
  <2>2. CASE i # m.id BY <1>1, <2>1, <2>2, RecordKept DEF TypeOK
  <2>3. CASE i = m.id
    <3>1. sended'[i] = Erase(sended[i], m.sequence) BY <1>1, <2>1, <2>3
    DEF TypeOK
    <3>2. Stored(i) BY <3>1 DEF Stored, Erase
    <3>3. ASSUME NEW n \in sended[i], n \notin sended'[i] PROVE AckedBy(i, n, m)
      BY <1>7, <2>3, <3>1, <3>3 DEF ServerReceiveAck, Received, Erase, AckedBy
    <3>4. Erased(i) BY <3>3 DEF Erased
    <3>5. QED BY <1>1, <2>1, <3>2, <3>4 DEF Record, TypeOK
  <2>4. QED BY <2>2, <2>3
<1>8. CASE ServerReceiveData(m)
  BY <1>1, <1>8, RecordKept DEF ServerReceiveData
<1>9. QED BY <1>2, <1>3, <1>4, <1>5, <1>6, <1>7, <1>8 DEF ServerReceive

LEMMA ServerStepRecord ==
  ASSUME TypeOK, ServerStep, NEW i \in Ids
  PROVE  Record(i)
<1>1. ASSUME NEW j \in Ids, ServerTimeout(j) PROVE Record(i)
  BY <1>1, RemoveClientRecord DEF ServerTimeout
<1>2. ASSUME NEW j \in Ids, ServerKill(j) PROVE Record(i)
  BY <1>2, RecordKept DEF ServerKill, serverVars
<1>3. CASE ServerFrame BY <1>3, RecordKept DEF ServerFrame, serverVars
<1>4. CASE ServerShoot BY <1>4, RecordKept DEF ServerShoot, serverVars
<1>5. CASE ServerDie
  <2> DEFINE posts == <<Post("PLAYER_DEATH", NoScores),
                        Post("SCORE_UPDATE", mGame[Server].mScores)>>
  <2>1. Broadcast(mClients, 0, posts, sended, {}) BY <1>5 DEF ServerDie
  <2>2. posts \in Posts BY ConstantFacts
  DEF Post, Posts, Posting, Types, TypeOK, World
  <2> HIDE DEF posts
  <2>3. QED BY <2>1, <2>2, PostedRecord
<1>6. CASE ServerEndGame
  <2>1. PICK posts \in Posts : Broadcast(mClients, 0, posts, sended, {})
    BY <1>6, EndPosts
  <2>2. QED BY <2>1, PostedRecord
<1>7. CASE ServerClose
  <2>1. srv' = "closed" /\ sended'[i] = {} /\ seq' = seq BY <1>7
  DEF ServerClose
  <2>2. QED BY <2>1 DEF Record, Stored, Erased, TypeOK
<1>8. QED BY <1>1, <1>2, <1>3, <1>4, <1>5, <1>6, <1>7 DEF ServerStep

LEMMA RecordStep ==
  ASSUME TypeOK, Membership, ToServer, [Next]_vars, NEW i \in Sessions
  PROVE  Record(i)
<1>1. i \in Ids BY SessionIds
<1>2. ASSUME NEW m \in net, ServerReceive(m) PROVE Record(i)
  BY <1>2, ServerReceiveRecord
<1>3. CASE ServerStep BY <1>1, <1>3, ServerStepRecord
<1>4. ASSUME NEW c \in Client, ClientStep(c) \/ \E m \in net : ClientReceive(c, m)
      PROVE  Record(i)
  BY <1>1, <1>4, ClientAlone, RecordKept DEF serverVars
<1>5. CASE UNCHANGED vars BY <1>1, <1>5, RecordKept DEF vars, serverVars
<1>6. QED BY <1>2, <1>3, <1>4, <1>5 DEF Next

(* A ship that the server shows for the first time is on its way to every  *)
(* other client.                                                           *)
LEMMA NewShip ==
  ASSUME TypeOK, Membership, ToServer, [Next]_vars, NEW p \in SrvShips', p \notin SrvShips,
         NEW i \in mClients', i # p
  PROVE  Pending(i, p)'
<1>1. mGame[Server] \in World /\ mGame \in [Proc -> World]
  BY ConstantFacts DEF TypeOK
<1>2. CASE ServerStep BY <1>2, ServerStepShips
<1>3. ASSUME NEW c \in Client, ClientStep(c) \/ \E m \in net : ClientReceive(c, m)
      PROVE  SrvShips' = SrvShips
  <2>1. c # Server BY ConstantFacts
  <2>2. QED
    BY <1>1, <1>3, <2>1, ConstantFacts
      
       DEF SrvShips, ClientStep, ClientStart, ClientConnectError, ClientQuit,
           ClientShoot,
       ClientDie, ClientReceive, ClientConnect, ClientConnectFails, ClientReceiveFin,
       ClientReceiveSynAck, ClientReceiveAck, ClientReceiveData
<1>4. CASE UNCHANGED vars BY <1>4 DEF vars, SrvShips
<1>5. ASSUME NEW m \in net, ServerReceive(m), ~ServerReceiveConnectAck(m)
      PROVE  SrvShips' \subseteq SrvShips
  <2>1. m \in Packet /\ m.id \in Ids BY FieldTypes
  <2>2. CASE ServerReceiveFin(m)
    BY <2>1, <2>2, RemoveClientMembership DEF ServerReceiveFin, Removed
  <2>3. CASE ServerReceiveData(m)
    <3>1. mGame'[Server] \in {mGame[Server], ProcessPacket(mGame[Server], m)}
      BY <1>1, <2>3, ConstantFacts DEF ServerReceiveData
    <3>2. m.type \in FromClients BY <2>3
    DEF ServerReceiveData, Received, ToServer
    <3>3. QED BY <1>1, <2>1, <3>1, <3>2, FromClientsShips DEF SrvShips
  <2>4. CASE ~ServerReceiveFin(m) /\ ~ServerReceiveData(m)
    <3>1. mGame' = mGame
      BY <1>5, <2>4
         DEF ServerReceive, ServerReceiveSyn, ServerReceiveSynAgain,
         ServerCrashOnConnectAck, ServerReceiveAck
    <3>2. QED BY <3>1 DEF SrvShips
  <2>5. QED BY <2>2, <2>3, <2>4
<1>6. ASSUME NEW m \in net, ServerReceiveConnectAck(m)
      PROVE  Pending(i, p)'
  <2> DEFINE posts == <<Post("PLAYER_NEW", NoScores)>>
             stored == [sended EXCEPT ![m.id] = Erase(@, m.sequence)]
  <2>1. Broadcast(mClients, m.id, posts, stored, {}) /\ mClients \in SUBSET Ids
        /\ mClients' = mClients /\ m.id \in Ids /\ i \in Ids
    BY <1>6, FieldTypes DEF ServerReceiveConnectAck, TypeOK
  <2>2. posts \in Posts /\ 1 \in 1 .. Len(posts) /\ posts[1].type = "PLAYER_NEW"
    BY ConstantFacts DEF Post, Posts, Posting, Types
  <2>3. mGame'[Server] = CreateShip(mGame[Server], m.id)
    BY <1>1, <1>6, ConstantFacts DEF ServerReceiveConnectAck
  <2>4. p = m.id
    BY <1>1, <2>3 DEF CreateShip, World, SrvShips
  <2>5. i \in Recipients(mClients, m.id) BY <2>1, <2>4 DEF Recipients
  <2> HIDE DEF posts, stored
  <2>6. \E n \in sended'[i] : n.type = posts[1].type /\ n.id = m.id
    BY <2>1, <2>2, <2>5, BroadcastReaches
  <2>7. \E n \in sended'[i] : n.type = "PLAYER_NEW" /\ n.id = p
    BY <2>2, <2>4, <2>6
  <2>8. QED BY <2>7 DEF Pending
<1>7. QED BY <1>2, <1>3, <1>4, <1>5, <1>6 DEF Next

(* The server never comes back. *)
LEMMA ServerUp ==
  ASSUME [Next]_vars, srv' = "up"
  PROVE  srv = "up"
<1>1. ASSUME NEW m \in net, ServerReceive(m) PROVE srv = "up"
  BY <1>1 DEF ServerReceive, ServerReceiveFin, ServerReceiveSyn,
     ServerReceiveSynAgain, ServerReceiveConnectAck, ServerCrashOnConnectAck,
     ServerReceiveAck, ServerReceiveData
<1>2. CASE ServerStep
  BY <1>2 DEF ServerStep, ServerTimeout, ServerKill, ServerFrame, ServerShoot,
     ServerDie, ServerEndGame, ServerClose
<1>3. ASSUME NEW c \in Client, ClientStep(c) \/ \E m \in net : ClientReceive(c, m)
      PROVE  srv' = srv
  BY <1>3
  DEF ClientStep, ClientStart, ClientConnectError, ClientQuit, ClientShoot,
     ClientDie, ClientReceive, ClientConnect, ClientConnectFails, ClientReceiveFin,
     ClientReceiveSynAck, ClientReceiveAck, ClientReceiveData, serverVars
<1>4. CASE UNCHANGED vars BY <1>4 DEF vars, serverVars
<1>5. QED BY <1>1, <1>2, <1>3, <1>4 DEF Next

(* The numbered packets the server has sent to a client. *)
Reliable(c) == {m \in net : m.flag = "SEQ" /\ m.expect_ack /\ m.dst = c}

(* The client has done what the packet asks, or it does not matter any     *)
(* more.                                                                   *)
Played(c, m) == m.type = "PLAYER_NEW" => \/ m.id \in mGame[c].mShips
                                         \/ m.id \notin mClients
                                         \/ Announced(m.id)

Unaddressed(c) == \A j \in Sessions : endpoint[j] # c

(* What a session that is the only one of its address may rely on: its     *)
(* client was sent only numbers this session has used, each for one        *)
(* packet.                                                                 *)
Numbering(i) ==
  /\ \A m \in Reliable(endpoint[i]) : m.sequence \in 1 .. seq[i]
  /\ \A m, n \in Reliable(endpoint[i]) : m.sequence = n.sequence => m = n
  /\ \A m \in sended[i] : m.type = "PLAYER_NEW" => m \in Reliable(endpoint[i])

Numbers ==
  /\ \A c \in Client : Unaddressed(c) => Reliable(c) = {}
  /\ \A i \in Sessions : OnlySession(i) => Numbering(i)

(* An acknowledgement for such a session answers a packet of that session, *)
(* which its client has played.                                            *)
Acknowledged == \A m \in net :
  /\ m.flag = "ACK" /\ m.dst = Server /\ m.type # "CONECTION"
  /\ m.id \in Sessions /\ OnlySession(m.id)
  => /\ m_id[endpoint[m.id]] = m.id
     /\ \E n \in Reliable(endpoint[m.id]) :
          n.sequence = m.sequence /\ Played(endpoint[m.id], n)

Shown(i, p) == Pending(i, p) \/ Announced(p)

(* The ships of a SYN_ACK that its client has not used yet are all the     *)
(* server shows, but for those it hears of separately.                     *)
Answered == srv = "up" => \A m \in net :
  m.flag = "SYN_ACK" /\ m.id \in mClients /\ OnlySession(m.id) /\ m_id[endpoint[m.id]] = 0 =>
    \A p \in SrvShips \ {m.id} : p \in m.ships \/ Shown(m.id, p)

(* PlayersReplicated, whatever the client is doing. *)
Replicated == srv = "up" => \A c \in Client :
  m_id[c] \in mClients /\ OnlySession(m_id[c]) =>
    \A p \in SrvShips \ {m_id[c]} : p \in mGame[c].mShips \/ Shown(m_id[c], p)

-----------------------------------------------------------------------------
LEMMA AnnouncedStays ==
  ASSUME [Next]_vars, NEW p, Announced(p)
  PROVE  Announced(p)'
BY NetGrows DEF Announced

LEMMA AboutPlayersInductive ==
  ASSUME TypeOK, TypeOK', Membership, Addressed, ToServer, AboutPlayers, [Next]_vars
  PROVE  AboutPlayers'
<1>1. PICK id, posts : Fresh(id, posts) BY NextFresh
<1>2. /\ Sessions \subseteq Sessions' /\ mClients \subseteq Sessions
      /\ mClients' \cap Sessions \subseteq mClients
  BY SessionStep
<1>3. ASSUME NEW m \in net', m.flag = "SEQ", m.type = "PLAYER_NEW" PROVE m.id \in Sessions'
  BY <1>1, <1>2, <1>3 DEF Fresh, FreshData, AboutPlayers
<1>4. ASSUME NEW m \in net', m.flag = "SEQ", m.type = "PLAYER_DISCONECTS"
      PROVE  m.id \in Sessions' \ mClients'
  BY <1>1, <1>2, <1>4 DEF Fresh, FreshData, AboutPlayers
<1>5. QED BY <1>3, <1>4 DEF AboutPlayers

LEMMA FreshReliable ==
  ASSUME TypeOK, NEW id, NEW posts, Fresh(id, posts), NEW c \in Client,
         NEW m \in Reliable(c)', m \notin net
  PROVE  \E i \in mClients, k \in 1 .. Len(posts) :
           /\ m = Copy(i, k, id, posts) /\ m.sequence = seq[i] + k /\ endpoint[i] = c
           /\ seq'[i] = seq[i] + Len(posts)
<1>1. m \in net' /\ m.flag = "SEQ" /\ m.expect_ack /\ m.dst = c BY DEF Reliable
<1>2. c # Server BY ConstantFacts
<1>3. PICK i \in mClients, k \in 1 .. Len(posts) :
        m = Copy(i, k, id, posts) /\ seq'[i] = seq[i] + Len(posts)
  BY <1>1, <1>2 DEF Fresh, FreshData
<1>4. m.sequence = seq[i] + k /\ m.dst = endpoint[i] BY <1>3
DEF Copy, Data, Bare
<1>5. QED BY <1>1, <1>3, <1>4

LEMMA ReliableGrows ==
  ASSUME [Next]_vars, NEW c
  PROVE  Reliable(c) \subseteq Reliable(c)'
BY NetGrows DEF Reliable

(* Nothing but the SYN_ACK is stored for a new session. *)
LEMMA NewRecord ==
  ASSUME TypeOK, TypeOK', [Next]_vars, NEW i \in Sessions', i \notin Sessions
  PROVE  \A m \in sended'[i] : m.type # "PLAYER_NEW"
<1>1. CASE \E m \in net : ServerReceiveSyn(m)
  <2>1. PICK m \in net : ServerReceiveSyn(m) BY <1>1
  <2> DEFINE new == clients_count + 1
             a   == SynAck(new, m.src)
  <2>2. clients_count' = new /\ sended' = [sended EXCEPT ![new] = {a}]
    BY <2>1 DEF ServerReceiveSyn
  <2>3. a.type = "CONECTION" BY DEF SynAck, Bare
  <2> HIDE DEF a
  <2>4. i = new /\ i \in Ids
    <3>1. clients_count \in Nat /\ clients_count' \in Nat BY ConstantFacts
    DEF TypeOK
    <3>2. i = new BY <2>2, <3>1 DEF Sessions
    <3>3. clients_count' \in Ids BY DEF TypeOK
    <3>4. QED BY <2>2, <3>2, <3>3
  <2>5. sended'[i] = {a} BY <2>2, <2>4 DEF TypeOK
  <2>6. QED BY <2>3, <2>5
<1>2. CASE ~\E m \in net : ServerReceiveSyn(m)
  <2>1. clients_count' = clients_count
    <3>1. ASSUME NEW m \in net, ServerReceive(m) PROVE clients_count' = clients_count
      BY <1>2, <3>1 DEF ServerReceive, ServerReceiveFin, RemoveClient,
         ServerReceiveSynAgain, ServerReceiveConnectAck, ServerCrashOnConnectAck,
         ServerReceiveAck, ServerReceiveData
    <3>2. CASE ServerStep
      BY <3>2
      DEF ServerStep, ServerTimeout, RemoveClient, ServerKill, ServerFrame,
         ServerShoot, ServerDie, ServerEndGame, ServerClose, serverVars
    <3>3. ASSUME NEW c \in Client, ClientStep(c) \/ \E m \in net : ClientReceive(c, m)
          PROVE  clients_count' = clients_count
      BY <3>3, ClientAlone DEF serverVars
    <3>4. CASE UNCHANGED vars BY <3>4 DEF vars, serverVars
    <3>5. QED BY <3>1, <3>2, <3>3, <3>4 DEF Next
  <2>2. QED BY <2>1 DEF Sessions
<1>3. QED BY <1>1, <1>2

LEMMA NumbersInductive ==
  ASSUME TypeOK, TypeOK', Membership, Addressed, Addressed', ToServer, Numbers, [Next]_vars
  PROVE  Numbers'
<1>1. PICK id, posts : Fresh(id, posts) BY NextFresh
<1>2. Len(posts) \in Nat BY <1>1 DEF Fresh
<1>3. /\ Sessions \subseteq Sessions' /\ mClients \subseteq Sessions
      /\ \A i \in Sessions : endpoint'[i] = endpoint[i]
      /\ \A i \in Sessions' : endpoint'[i] \in Client
  BY SessionStep
<1>4. ASSUME NEW c \in Client, Unaddressed(c)' PROVE Reliable(c)' = {}
  <2>1. Unaddressed(c) BY <1>3, <1>4 DEF Unaddressed
  <2>2. Reliable(c) = {} BY <2>1 DEF Numbers
  <2>3. SUFFICES ASSUME NEW m \in Reliable(c)' PROVE FALSE
    OBVIOUS
  <2>4. m \notin net BY <2>2 DEF Reliable
  <2>5. PICK i \in mClients : endpoint[i] = c BY <1>1, <2>4, FreshReliable
  <2>6. QED BY <1>3, <2>1, <2>5 DEF Unaddressed
<1>5. ASSUME NEW i \in Sessions', OnlySession(i)' PROVE Numbering(i)'
  <2>1. PICK c \in Client : c = endpoint'[i] BY <1>3
  <2>2. CASE i \notin Sessions
    <3>1. Unaddressed(c) BY <1>5, <2>1, <2>2, OnlySessionStep DEF Unaddressed
    <3>2. Reliable(c) = {} BY <3>1 DEF Numbers
    <3>3. ASSUME NEW m \in Reliable(c)' PROVE FALSE
      <4>1. m \notin net BY <3>2, <3>3 DEF Reliable
      <4>2. PICK j \in mClients : endpoint[j] = c BY <1>1, <4>1, FreshReliable
      <4>3. QED BY <1>3, <3>1, <4>2 DEF Unaddressed
    <3>4. \A m \in sended'[i] : m.type # "PLAYER_NEW" BY <2>2, NewRecord
    <3>5. QED BY <2>1, <3>3, <3>4 DEF Numbering, Reliable
  <2>3. CASE i \in Sessions
    <3>1. OnlySession(i) /\ endpoint[i] = c BY <1>3, <1>5, <2>1, <2>3, OnlySessionStep
    <3>2. Numbering(i) BY <2>3, <3>1 DEF Numbers
    <3>3. seq[i] \in Nat /\ seq'[i] \in Nat /\ seq[i] <= seq'[i]
      BY <2>3, RecordStep, SessionIds DEF Record, TypeOK
    <3>4. ASSUME NEW m \in Reliable(c)', m \notin net
          PROVE  \E k \in 1 .. Len(posts) :
                   /\ m = Copy(i, k, id, posts) /\ m.sequence = seq[i] + k
                   /\ seq'[i] = seq[i] + Len(posts)
      <4>1. PICK j \in mClients, k \in 1 .. Len(posts) :
              /\ m = Copy(j, k, id, posts) /\ m.sequence = seq[j] + k /\ endpoint[j] = c
              /\ seq'[j] = seq[j] + Len(posts)
        BY <1>1, <3>4, FreshReliable
      <4>2. j = i BY <1>3, <3>1, <4>1 DEF OnlySession
      <4>3. QED BY <4>1, <4>2
    <3>5. ASSUME NEW m \in Reliable(c)', m \in net
          PROVE  m \in Reliable(c) /\ m.sequence \in 1 .. seq[i]
      BY <3>1, <3>2, <3>5 DEF Reliable, Numbering
    <3>6. ASSUME NEW m \in Reliable(c)' PROVE m.sequence \in 1 .. seq'[i]
      <4>1. CASE m \in net BY <3>3, <3>5, <4>1
      <4>2. CASE m \notin net BY <1>2, <3>3, <3>4, <4>2
      <4>3. QED BY <4>1, <4>2
    <3>7. ASSUME NEW m \in Reliable(c)', NEW n \in Reliable(c)', m.sequence = n.sequence
          PROVE  m = n
      <4>1. CASE m \in net /\ n \in net
        BY <3>1, <3>2, <3>5, <3>7, <4>1 DEF Numbering
      <4>2. CASE m \in net /\ n \notin net
        BY <1>2, <3>3, <3>4, <3>5, <3>7, <4>2
      <4>3. CASE m \notin net /\ n \in net
        BY <1>2, <3>3, <3>4, <3>5, <3>7, <4>3
      <4>4. CASE m \notin net /\ n \notin net
        <5>1. PICK k \in 1 .. Len(posts) : m = Copy(i, k, id, posts) /\ m.sequence = seq[i] + k
          BY <3>4, <4>4
        <5>2. PICK l \in 1 .. Len(posts) : n = Copy(i, l, id, posts) /\ n.sequence = seq[i] + l
          BY <3>4, <4>4
        <5>3. k = l BY <1>2, <3>3, <3>7, <5>1, <5>2
        <5>4. QED BY <5>1, <5>2, <5>3
      <4>5. QED BY <4>1, <4>2, <4>3, <4>4
    <3>8. ASSUME NEW m \in sended'[i], m.type = "PLAYER_NEW" PROVE m \in Reliable(c)'
      <4>1. CASE m \in sended[i]
        <5>1. m \in Reliable(c) BY <3>1, <3>2, <3>8, <4>1 DEF Numbering
        <5>2. QED BY <5>1, ReliableGrows
      <4>2. CASE m \notin sended[i]
        <5>1. m \in net' /\ m.flag = "SEQ" /\ m.expect_ack /\ m.dst = endpoint[i]
          BY <2>3, <3>8, <4>2, RecordStep DEF Record, Stored
        <5>2. QED BY <3>1, <5>1 DEF Reliable
      <4>3. QED BY <4>1, <4>2
    <3>9. QED BY <2>1, <3>6, <3>7, <3>8 DEF Numbering, Reliable
  <2>4. QED BY <2>2, <2>3
<1>6. QED BY <1>4, <1>5 DEF Numbers

LEMMA ShipsOfSessions ==
  ASSUME Membership
  PROVE  SrvShips \subseteq {0} \cup mClients
BY DEF Membership, ServerShipsConnected, SrvShips

(* What was played stays played. *)
LEMMA PlayedStays ==
  ASSUME TypeOK, TypeOK', Membership, Addressed, AboutPlayers, [Next]_vars,
         NEW c \in Client, NEW m \in net, m.flag = "SEQ", Played(c, m)
  PROVE  m.type = "PLAYER_NEW" => \/ m.id \in mGame'[c].mShips
                                  \/ m.id \notin mClients'
                                  \/ Announced(m.id)'
<1> SUFFICES ASSUME m.type = "PLAYER_NEW"
             PROVE  \/ m.id \in mGame'[c].mShips
                    \/ m.id \notin mClients'
                    \/ Announced(m.id)'
  OBVIOUS
<1>1. m.id \in Sessions BY DEF AboutPlayers
<1>2. mClients' \cap Sessions \subseteq mClients BY SessionStep
<1>3. CASE m.id \in mGame[c].mShips BY <1>2, <1>3, ShipsStep
<1>4. CASE m.id \notin mClients BY <1>1, <1>2, <1>4
<1>5. CASE Announced(m.id) BY <1>5, AnnouncedStays
<1>6. QED BY <1>3, <1>4, <1>5 DEF Played

LEMMA AcknowledgedInductive ==
  ASSUME TypeOK, TypeOK', Membership, Addressed, Addressed', ToServer, AboutPlayers,
         Acknowledged, [Next]_vars
  PROVE  Acknowledged'
<1>1. PICK id, posts : Fresh(id, posts) BY NextFresh
<1>2. SUFFICES ASSUME NEW a \in net', a.flag = "ACK", a.dst = Server, a.type # "CONECTION",
                      a.id \in Sessions', OnlySession(a.id)'
               PROVE  /\ m_id'[endpoint'[a.id]] = a.id
                      /\ \E n \in net' :
                           /\ n.flag = "SEQ" /\ n.expect_ack /\ n.dst = endpoint'[a.id]
                           /\ n.sequence = a.sequence
                           /\ n.type = "PLAYER_NEW" =>
                                \/ n.id \in mGame'[endpoint'[a.id]].mShips
                                \/ n.id \notin mClients'
                                \/ Announced(n.id)'
  BY DEF Acknowledged, Reliable, Played
<1>3. PICK c \in Client : c = endpoint'[a.id] BY <1>2, SessionStep
<1>4. SUFFICES /\ m_id'[c] = a.id
               /\ \E n \in net : /\ n.flag = "SEQ" /\ n.expect_ack /\ n.dst = c
                                 /\ n.sequence = a.sequence
                                 /\ n.type = "PLAYER_NEW" => \/ n.id \in mGame'[c].mShips
                                                             \/ n.id \notin mClients'
                                                             \/ Announced(n.id)'
  BY <1>3, NetGrows
<1>5. CASE a \in net
  <2>1. a.id \in 0 .. clients_count BY <1>2, <1>5 DEF ToServer
  <2>2. a.id \in Sessions
    <3>1. a.id # 0 BY <1>2, SessionStep
    <3>2. QED BY <2>1, <3>1, ConstantFacts DEF Sessions, TypeOK
  <2>3. OnlySession(a.id) /\ endpoint[a.id] = c
    BY <1>2, <1>3, <2>2, OnlySessionStep, SessionStep
  <2>4. m_id[c] = a.id /\ \E n \in Reliable(c) : n.sequence = a.sequence /\ Played(c, n)
    BY <1>2, <1>5, <2>2, <2>3 DEF Acknowledged
  <2>5. m_id'[c] = a.id
    <3>1. 0 \notin Sessions BY SessionStep
    <3>2. QED BY <2>2, <2>4, <3>1, IdStep DEF Joined
  <2>6. PICK n \in Reliable(c) : n.sequence = a.sequence /\ Played(c, n) BY <2>4
  <2>7. n \in net /\ n.flag = "SEQ" /\ n.expect_ack /\ n.dst = c BY
  DEF Reliable
  <2>8. n.type = "PLAYER_NEW" => \/ n.id \in mGame'[c].mShips
                                 \/ n.id \notin mClients'
                                 \/ Announced(n.id)'
    BY <2>6, <2>7, PlayedStays
  <2>9. QED BY <2>5, <2>6, <2>7, <2>8
<1>6. CASE a \notin net
  <2>1. PICK d \in Client :
          /\ a.id = m_id'[d]
          /\ \E n \in net :
               /\ n.flag = "SEQ" /\ n.expect_ack /\ n.dst = d /\ n.sequence = a.sequence
               /\ n.type = "PLAYER_NEW" => n.id \in mGame'[d].mShips
    BY <1>1, <1>2, <1>6 DEF Fresh, FreshAck
  <2>2. d = c
    <3>1. a.id # 0 BY <1>2, SessionStep
    <3>2. QED BY <1>3, <2>1, <3>1 DEF Addressed
  <2>3. QED BY <2>1, <2>2
<1>7. QED BY <1>5, <1>6

(* What a session waits for stays waiting while the client has no id.      *)
LEMMA PendingStays ==
  ASSUME TypeOK, Membership, ToServer, Numbers, [Next]_vars, srv' = "up",
         NEW i \in Sessions, i \in mClients', OnlySession(i), NEW p, Pending(i, p)
  PROVE  \/ Pending(i, p)'
         \/ \E a \in net, m \in Reliable(endpoint[i]) :
              AckedBy(i, m, a) /\ m.type = "PLAYER_NEW" /\ m.id = p
<1>1. PICK m \in sended[i] : m.type = "PLAYER_NEW" /\ m.id = p BY DEF Pending
<1>2. m \in Reliable(endpoint[i]) /\ m.sequence \in 1 .. seq[i]
  BY <1>1 DEF Numbers, Numbering
<1>3. m.sequence # 0 BY <1>2
<1>4. m \in sended'[i] \/ \E a \in net : AckedBy(i, m, a)
  BY <1>3, RecordStep DEF Record, Erased
<1>5. QED BY <1>1, <1>2, <1>4 DEF Pending

LEMMA ShownToJoining ==
  ASSUME TypeOK, Membership, ToServer, Numbers, Acknowledged, [Next]_vars, srv' = "up",
         NEW i \in Sessions, i \in mClients', OnlySession(i), m_id[endpoint[i]] = 0,
         NEW p, Shown(i, p)
  PROVE  Shown(i, p)'
<1>1. CASE Announced(p) BY <1>1, AnnouncedStays DEF Shown
<1>2. CASE Pending(i, p)
  <2>1. ASSUME NEW a \in net, NEW m, AckedBy(i, m, a) PROVE FALSE
    <3>1. m_id[endpoint[i]] = i BY <2>1 DEF AckedBy, Acknowledged
    <3>2. i # 0 BY DEF Sessions
    <3>3. QED BY <3>1, <3>2
  <2>2. QED BY <1>2, <2>1, PendingStays DEF Shown
<1>3. QED BY <1>1, <1>2 DEF Shown

LEMMA AnsweredInductive ==
  ASSUME TypeOK, TypeOK', Membership, Addressed, Addressed', ToServer, Numbers,
         Acknowledged, Answered, [Next]_vars
  PROVE  Answered'
<1>1. PICK id, posts : Fresh(id, posts) BY NextFresh
<1>2. SUFFICES ASSUME srv' = "up", NEW m \in net', m.flag = "SYN_ACK", m.id \in mClients',
                      OnlySession(m.id)', m_id'[endpoint'[m.id]] = 0,
                      NEW p \in SrvShips', p # m.id
               PROVE  p \in m.ships \/ Shown(m.id, p)'
  BY DEF Answered
<1>3. CASE p \notin SrvShips
  BY <1>2, <1>3, NewShip DEF Shown
<1>4. CASE p \in SrvShips /\ m \in net
  <2>1. m.id \in Sessions BY <1>2, <1>4 DEF Addressed
  <2>2. m.id \in mClients /\ OnlySession(m.id) /\ endpoint'[m.id] = endpoint[m.id]
        /\ endpoint[m.id] \in Client
    BY <1>2, <2>1, SessionStep, OnlySessionStep
  <2>3. m_id[endpoint[m.id]] = 0
    BY <1>2, <2>2, IdStep DEF Joined
  <2>4. p \in m.ships \/ Shown(m.id, p)
    BY <1>2, <1>4, <2>2, <2>3, ServerUp DEF Answered
  <2>5. QED BY <1>2, <2>1, <2>2, <2>3, <2>4, ShownToJoining
<1>5. CASE p \in SrvShips /\ m \notin net
  BY <1>1, <1>2, <1>5 DEF Fresh, FreshAnswer
<1>6. QED BY <1>3, <1>4, <1>5

LEMMA ReplicatedInductive ==
  ASSUME TypeOK, TypeOK', Membership, Addressed, Addressed', ToServer, AboutPlayers, Numbers,
         Acknowledged, Answered, Replicated, [Next]_vars
  PROVE  Replicated'
<1>1. SUFFICES ASSUME srv' = "up", NEW c \in Client, m_id'[c] \in mClients',
                      OnlySession(m_id[c])', NEW p \in SrvShips', p # m_id'[c]
               PROVE  p \in mGame'[c].mShips \/ Shown(m_id[c], p)'
  BY DEF Replicated
<1>2. PICK i : i = m_id'[c] OBVIOUS
<1>3. SUFFICES p \in mGame'[c].mShips \/ Shown(i, p)'
  BY <1>2 DEF Shown, Pending
<1>4. /\ i \in mClients' /\ i \in Sessions' /\ i # 0 /\ p # i /\ OnlySession(i)'
  BY <1>1, <1>2, SessionStep DEF OnlySession
<1>5. CASE p \notin SrvShips
  BY <1>1, <1>4, <1>5, NewShip DEF Shown
<1>6. srv = "up" BY <1>1, ServerUp
<1>7. CASE p \in SrvShips /\ m_id[c] = i
  <2>1. i \in Sessions /\ endpoint[i] = c BY <1>4, <1>7 DEF Addressed
  <2>2. i \in mClients /\ OnlySession(i) BY <1>4, <2>1, SessionStep, OnlySessionStep
  <2>3. p \in mGame[c].mShips \/ Shown(i, p)
    BY <1>4, <1>6, <1>7, <2>2 DEF Replicated
  <2>4. CASE p \in mGame[c].mShips
    <3>1. p \notin Sessions \ mClients
      <4>1. 0 \notin Sessions BY DEF Sessions
      <4>2. QED BY <1>7, <4>1, ShipsOfSessions
    <3>2. QED BY <2>4, <3>1, ShipsStep DEF Shown
  <2>5. CASE Announced(p) BY <2>5, AnnouncedStays DEF Shown
  <2>6. CASE Pending(i, p)
    <3>1. SUFFICES ASSUME NEW a \in net, NEW m \in Reliable(c),
                          AckedBy(i, m, a) /\ m.type = "PLAYER_NEW" /\ m.id = p
                   PROVE  p \in mGame'[c].mShips \/ Shown(i, p)'
      BY <1>1, <1>4, <2>1, <2>2, <2>6, PendingStays DEF Shown
    <3>2. PICK n \in Reliable(c) : n.sequence = a.sequence /\ Played(c, n)
      BY <2>1, <2>2, <3>1 DEF AckedBy, Acknowledged
    <3>3. n = m
      BY <2>1, <2>2, <3>1, <3>2 DEF AckedBy, Numbers, Numbering
    <3>4. p \in Sessions BY <3>1 DEF AboutPlayers, Reliable
    <3>5. p \in mClients
      <4>1. p # 0 BY <3>4 DEF Sessions
      <4>2. QED BY <1>7, <4>1, ShipsOfSessions
    <3>6. p \in mGame[c].mShips \/ Announced(p)
      BY <3>1, <3>2, <3>3, <3>5 DEF Played
    <3>7. QED BY <2>4, <2>5, <3>6
  <2>7. QED BY <2>3, <2>4, <2>5, <2>6 DEF Shown
<1>8. CASE p \in SrvShips /\ m_id[c] # i
  <2>1. PICK m \in net : /\ m.flag = "SYN_ACK" /\ m.dst = c /\ m.id = i
                         /\ m.ships \subseteq mGame'[c].mShips
    BY <1>2, <1>8, IdStep DEF Joined
  <2>2. m_id[c] = 0 BY <1>2, <1>8, IdStep DEF Joined
  <2>3. i \in Sessions /\ endpoint[i] = c BY <2>1 DEF Addressed
  <2>4. i \in mClients /\ OnlySession(i) BY <1>4, <2>3, SessionStep, OnlySessionStep
  <2>5. p \in m.ships \/ Shown(i, p)
    BY <1>4, <1>6, <1>8, <2>1, <2>2, <2>3, <2>4 DEF Answered
  <2>6. QED BY <1>1, <1>4, <2>1, <2>2, <2>3, <2>4, <2>5, ShownToJoining
<1>9. QED BY <1>5, <1>7, <1>8

-----------------------------------------------------------------------------
(* The inductive invariant.  That a packet was acknowledged must mean that *)
(* it was played (Acknowledged); a number must stand for one packet of one *)
(* session (Numbers), which is where OnlySession is needed; and a client   *)
(* that joins must learn of the ships it missed (Answered).                *)
Deliveries == AboutPlayers /\ Numbers /\ Acknowledged /\ Answered /\ Replicated

LEMMA InitDeliveries ==
  ASSUME Init
  PROVE  Deliveries
<1>1. /\ clients_count = 0 /\ mClients = {} /\ net = {}
      /\ \A c \in Client : m_id[c] = 0
  BY DEF Init
<1>2. Sessions = {} BY <1>1 DEF Sessions
<1>3. QED BY <1>1, <1>2
DEF Deliveries, AboutPlayers, Numbers, Acknowledged, Answered,
         Replicated, Reliable

(* The invariant holds, on any number of clients, over a network that      *)
(* loses, repeats and reorders.                                            *)
THEOREM SessionDeliveries == Spec => []Deliveries
<1>1. Init => Deliveries BY InitDeliveries
<1>2. TypeOK /\ Wire /\ (TypeOK /\ Wire)' /\ Deliveries /\ [Next]_vars => Deliveries'
  <2> SUFFICES ASSUME TypeOK, Wire, TypeOK', Wire', Deliveries, [Next]_vars PROVE Deliveries'
    OBVIOUS
  <2>1. AboutPlayers' BY AboutPlayersInductive DEF Wire, Deliveries
  <2>2. Numbers' BY NumbersInductive DEF Wire, Deliveries
  <2>3. Acknowledged' BY AcknowledgedInductive DEF Wire, Deliveries
  <2>4. Answered' BY AnsweredInductive DEF Wire, Deliveries
  <2>5. Replicated' BY ReplicatedInductive DEF Wire, Deliveries
  <2>6. QED BY <2>1, <2>2, <2>3, <2>4, <2>5 DEF Deliveries
<1>3. QED BY <1>1, <1>2, SessionWire, PTL DEF Spec

(* A connected client shows the ship of every other player the server      *)
(* shows, or the packet that creates it is still waiting for the client's  *)
(* acknowledgement, or the player's death or the end of the game has been  *)
(* announced, provided that the address of the client had no other         *)
(* session.  It is one inclusion: a client may show ships that the server  *)
(* has removed, when a late PLAYER_NEW creates them again.                 *)
THEOREM MembershipReplicated == Spec => []PlayersReplicated
<1>1. Replicated => PlayersReplicated
  BY DEF Replicated, PlayersReplicated, Shown, Pending, SrvShips
<1>2. Deliveries => PlayersReplicated BY <1>1 DEF Deliveries
<1>3. QED BY <1>2, SessionDeliveries, PTL
=============================================================================
