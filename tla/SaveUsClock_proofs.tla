------------------------- MODULE SaveUsClock_proofs -------------------------
(* The timers of a session for any number of clients, any lengths of the   *)
(* timers and any length of a frame: whom the server drops has been silent *)
(* and the end of the game is shown neither too shortly nor too long.      *)
(* What a timer has counted and what has passed are related by the length  *)
(* of the frame in which the counting began.                               *)
EXTENDS SaveUsClock, TLAPS

-----------------------------------------------------------------------------
(* The invariants.                                                         *)

(* The timer of the game.  Without immortality it does not run before the  *)
(* end; with it, it is set back in time for the end.                       *)
TimerInv ==
  /\ timer \in 0 .. Disconnect + MaxFrame
  /\ Server \in running =>
       /\ ~game_end /\ timer < Disconnect
       /\ ~ended \/ inmortal => timer < Inmortal
  /\ ~ended => shown = 0 /\ ~game_end
  /\ ~ended /\ ~inmortal => timer = 0
  /\ ended => ~spShip

(* TypeOK says nothing of the domain of socket, and bounds the timer only. *)
Types ==
  /\ running \subseteq Proc
  /\ since \in [Proc -> 0 .. MaxFrame]
  /\ mClients \subseteq Client
  /\ srv_alive \in [Client -> 0 .. Alive]
  /\ cl_alive \in [Client -> 0 .. Alive + MaxFrame]
  /\ DOMAIN socket = Proc
  /\ \A p \in Proc : socket[p] \subseteq Datagrams(p)
  /\ spShip \in BOOLEAN
  /\ ended \in BOOLEAN /\ inmortal \in BOOLEAN /\ game_end \in BOOLEAN
  /\ TimerInv
  /\ quiet \in [Client -> 0 .. Alive]
  /\ shown \in 0 .. LongEnd + 1

(* A client of which nothing waits to be read has counted no more than it  *)
(* was silent, and the frame in which its last datagram arrived.           *)
CountsSilence ==
  Server \in running =>
    \A c \in mClients :
      DataOf(c) \notin socket[Server] =>
        srv_alive[c] + since[Server] <= quiet[c] + MaxFrame

(* While the end is shown to a mortal player the timer counts no more than *)
(* passes, and misses at most half an immortality and a frame; while it is *)
(* shown to an immortal one the timer counts twice.                        *)
CountsEnd ==
  Server \in running /\ ended =>
    IF inmortal THEN 2 * shown <= timer + 2 * since[Server]
    ELSE /\ timer + since[Server] <= shown
         /\ shown <= timer + since[Server] + Inmortal \div 2 + MaxFrame

-----------------------------------------------------------------------------
(* Constants.                                                              *)

LEMMA Constants ==
  /\ MaxFrame \in Nat /\ MaxFrame > 0
  /\ Alive \in Nat /\ Alive > MaxFrame
  /\ Disconnect \in Nat
  /\ Inmortal \in Nat /\ Inmortal > 0 /\ Inmortal + MaxFrame <= Disconnect
  /\ Server \notin Client /\ Server \in Proc
  /\ Inmortal \div 2 \in Nat /\ 2 * (Inmortal \div 2) <= Inmortal
  /\ Inmortal <= 2 * (Inmortal \div 2) + 1
  /\ LongEnd \in Nat /\ LongEnd = Disconnect + Inmortal \div 2 + 2 * MaxFrame
<1>1. /\ MaxFrame \in Nat /\ MaxFrame > 0
      /\ Alive \in Nat /\ Alive > MaxFrame
      /\ Disconnect \in Nat
      /\ Server \notin Client /\ Server \in Proc
  BY ClockAssumption DEF ClockAssumption, Proc
<1>2. Inmortal \in Nat /\ Inmortal > 0 /\ Inmortal + MaxFrame <= Disconnect
  BY <1>1, ClockAssumption DEF ClockAssumption
<1>3. /\ Inmortal \div 2 \in Nat /\ 2 * (Inmortal \div 2) <= Inmortal
      /\ Inmortal <= 2 * (Inmortal \div 2) + 1
  BY <1>2
<1>4. QED  BY <1>1, <1>2, <1>3 DEF LongEnd

LEMMA UpToType ==
  ASSUME NEW limit \in Nat, NEW n \in Nat
  PROVE  UpTo(limit, n) \in 0 .. limit /\ (UpTo(limit, n) = n \/ (UpTo(limit, n) = limit /\ limit <= n))
BY DEF UpTo

-----------------------------------------------------------------------------
(* The parts of a frame of the server.                                     *)

(* The timer of the game after a frame of the server. *)
LEMMA TimerUpdated ==
  ASSUME Types, NEW dt \in 0 .. MaxFrame, GameUpdate(dt), Server \in running,
         game_end' => Server \notin running', UNCHANGED shown
  PROVE  TimerInv'
<1> USE Constants DEF Types, TimerInv
<1> DEFINE t == IF ended THEN timer + dt ELSE timer
<1>1. /\ game_end' = (ended /\ t >= Disconnect)
      /\ timer' = IF inmortal THEN InmortalTimer(t, dt) ELSE t
  BY DEF GameUpdate
<1>2. \/ UNCHANGED <<spShip, ended>> /\ inmortal' = (inmortal /\ ~MortalAgain(t, dt))
      \/ /\ ~ended /\ ended' = TRUE /\ spShip' = FALSE
         /\ inmortal' = (inmortal /\ ~MortalAgain(t, dt))
      \/ /\ spShip /\ (~inmortal \/ MortalAgain(t, dt))
         /\ inmortal' = TRUE /\ UNCHANGED ended
  BY DEF GameUpdate
<1>3. t \in Nat /\ t < Disconnect + MaxFrame /\ timer \in Nat
      /\ (inmortal => t + dt < Inmortal \/ t + dt >= Inmortal)
  OBVIOUS
<1>4. CASE inmortal
  <2>1. timer' = IF t + dt >= Inmortal THEN 0 ELSE t + dt
    BY <1>1, <1>4 DEF InmortalTimer
  <2>2. timer' \in Nat /\ timer' < Inmortal
    BY <1>3, <2>1
  <2>3. MortalAgain(t, dt) <=> t + dt >= Inmortal
    BY <1>4 DEF MortalAgain
  <2>4. t < Disconnect
    BY <1>4
  <2>5. ~game_end'
    BY <1>1, <1>3, <2>4
  <2>6. ~ended' /\ ~inmortal' => timer' = 0
    BY <1>2, <2>1, <2>3, <1>4
  <2>7. ended' => ~spShip'
    BY <1>2
  <2>8. ~ended' => shown' = 0
    BY <1>2
  <2>9. QED  BY <2>2, <2>5, <2>6, <2>7, <2>8
<1>5. CASE ~inmortal
  <2>1. timer' = t
    BY <1>1, <1>5
  <2>2. ~MortalAgain(t, dt)
    BY <1>5 DEF MortalAgain
  <2>3. ~ended => t = 0
    BY <1>5
  <2>4. inmortal' => ~ended
    BY <1>2, <1>5
  <2>5. ~game_end' => t < Disconnect
    BY <1>1, <1>3, <2>3
  <2>6. ~ended' => ~ended
    BY <1>2
  <2>7. ~ended' \/ inmortal' => timer' < Inmortal
    BY <2>1, <2>3, <2>4, <2>6
  <2>8. QED
    BY <1>1, <1>2, <1>3, <2>1, <2>3, <2>4, <2>5, <2>6, <2>7
<1>6. QED  BY <1>4, <1>5

(* Who is dropped, and what the others have counted, when the timers run. *)
LEMMA ClientsUpdated ==
  ASSUME NEW members \in SUBSET Client, NEW times \in [Client -> 0 .. Alive],
         NEW dt \in 0 .. MaxFrame, UpdateClients(members, times, dt)
  PROVE  /\ mClients' \subseteq members
         /\ srv_alive' \in [Client -> 0 .. Alive]
         /\ \A c \in members \ mClients' : times[c] + dt > Alive
         /\ \A c \in Client : srv_alive'[c] <= times[c] + dt
<1> USE Constants
<1> DEFINE silent == {c \in members : times[c] + dt > Alive}
           Count(counted) ==
             [c \in Client |-> IF c \in counted THEN times[c] + dt ELSE times[c]]
<1>1. ASSUME NEW counted \in SUBSET (members \ silent)
      PROVE  /\ Count(counted) \in [Client -> 0 .. Alive]
             /\ \A c \in Client : Count(counted)[c] <= times[c] + dt
  <2>1. \A c \in Client : times[c] \in 0 .. Alive
    OBVIOUS
  <2>2. \A c \in counted : c \in Client /\ times[c] + dt <= Alive
    BY <2>1
  <2>3. \A c \in Client : Count(counted)[c] \in 0 .. Alive /\ Count(counted)[c] <= times[c] + dt
    BY <2>1, <2>2
  <2>4. QED  BY <2>3
<1>2. CASE silent = {} /\ mClients' = members /\ srv_alive' = Count(members)
  BY <1>1, <1>2
<1>3. CASE \E c \in silent, counted \in SUBSET (members \ silent) :
             /\ mClients' = members \ {c}
             /\ srv_alive' = [Count(counted) EXCEPT ![c] = 0]
  <2>1. PICK c \in silent, counted \in SUBSET (members \ silent) :
             /\ mClients' = members \ {c}
             /\ srv_alive' = [Count(counted) EXCEPT ![c] = 0]
    BY <1>3
  <2>2. /\ Count(counted) \in [Client -> 0 .. Alive]
        /\ \A d \in Client : Count(counted)[d] <= times[d] + dt
    BY <1>1
  <2> HIDE DEF Count
  <2>3. srv_alive' \in [Client -> 0 .. Alive]
    BY <2>1, <2>2
  <2>4. \A d \in Client : srv_alive'[d] <= times[d] + dt
    <3>1. \A d \in Client : times[d] + dt >= 0
      OBVIOUS
    <3>2. QED  BY <2>1, <2>2, <3>1
  <2>5. QED  BY <2>1, <2>3, <2>4
<1>4. QED
  BY <1>2, <1>3 DEF UpdateClients

LEMMA HeardType ==
  ASSUME Types, NEW read
  PROVE  /\ Heard(read) \in [Client -> 0 .. Alive]
         /\ \A c \in Client : Heard(read)[c] <= srv_alive[c]
         /\ \A c \in Client : DataOf(c) \in read => Heard(read)[c] = 0
BY Constants DEF Types, Heard

(* A frame of the server drops who left, or who was silent. *)
LEMMA ServerUpdated ==
  ASSUME Types, NEW read \in SUBSET socket[Server], ServerUpdate(read)
  PROVE  /\ mClients' \subseteq mClients
         /\ srv_alive' \in [Client -> 0 .. Alive]
         /\ \A c \in mClients \ mClients' :
              \/ FinOf(c) \in read
              \/ /\ DataOf(c) \notin socket[Server] \/ ~(Client \subseteq running)
                 /\ srv_alive[c] + since[Server] > Alive
         /\ \A c \in Client : srv_alive'[c] <= srv_alive[c] + since[Server]
         /\ \A c \in Client : DataOf(c) \in read => srv_alive'[c] <= since[Server]
<1> USE Constants
<1>1. since[Server] \in 0 .. MaxFrame /\ GetDt(Server) = since[Server]
      /\ mClients \subseteq Client /\ mClients \ Left(read) \in SUBSET Client
  BY DEF Types, GetDt
<1>2. \A c \in Client : srv_alive[c] \in 0 .. Alive
  BY DEF Types
<1>3. \A c \in mClients : c \notin mClients \ Left(read) => FinOf(c) \in read
  BY DEF Left
<1>4. CASE /\ ReadsAll(read) \/ StopsAtError(read)
           /\ UpdateClients(mClients \ Left(read), Heard(read), GetDt(Server))
  <2>1. /\ mClients' \subseteq mClients \ Left(read)
        /\ srv_alive' \in [Client -> 0 .. Alive]
        /\ \A c \in (mClients \ Left(read)) \ mClients' : Heard(read)[c] + since[Server] > Alive
        /\ \A c \in Client : srv_alive'[c] <= Heard(read)[c] + since[Server]
    <3> DEFINE members == mClients \ Left(read)
               dt == GetDt(Server)
    <3>1. /\ members \in SUBSET Client /\ Heard(read) \in [Client -> 0 .. Alive]
          /\ dt \in 0 .. MaxFrame /\ UpdateClients(members, Heard(read), dt)
      BY <1>1, <1>4, HeardType
    <3>2. /\ mClients' \subseteq members
          /\ srv_alive' \in [Client -> 0 .. Alive]
          /\ \A c \in members \ mClients' : Heard(read)[c] + dt > Alive
          /\ \A c \in Client : srv_alive'[c] <= Heard(read)[c] + dt
      <4> HIDE DEF members, dt
      <4>1. QED  BY <3>1, ClientsUpdated
    <3>3. QED  BY <1>1, <3>2
  <2>2. \A c \in Client : srv_alive'[c] \in 0 .. Alive /\ Heard(read)[c] \in 0 .. Alive
    BY <2>1, HeardType
  <2>3. \A c \in mClients \ mClients' :
              \/ FinOf(c) \in read
              \/ /\ DataOf(c) \notin socket[Server] \/ ~(Client \subseteq running)
                 /\ srv_alive[c] + since[Server] > Alive
    <3>1. SUFFICES ASSUME NEW c \in mClients \ mClients', FinOf(c) \notin read
                   PROVE  /\ DataOf(c) \notin socket[Server] \/ ~(Client \subseteq running)
                          /\ srv_alive[c] + since[Server] > Alive
      OBVIOUS
    <3>2. c \in Client /\ Heard(read)[c] + since[Server] > Alive
      BY <1>1, <1>3, <2>1, <3>1
    <3>3. Heard(read)[c] <= srv_alive[c]
      BY <3>2, HeardType
    <3>4. DataOf(c) \notin read
      BY <3>2, <1>1, HeardType
    <3>5. read = socket[Server] \/ ~(Client \subseteq running)
      BY <1>4 DEF ReadsAll, StopsAtError
    <3>6. QED  BY <1>1, <1>2, <2>2, <3>2, <3>3, <3>4, <3>5
  <2>4. \A c \in Client : srv_alive'[c] <= srv_alive[c] + since[Server]
    BY <1>1, <1>2, <2>1, <2>2, HeardType
  <2>5. \A c \in Client : DataOf(c) \in read => srv_alive'[c] <= since[Server]
    BY <1>1, <2>1, <2>2, HeardType
  <2>6. QED  BY <2>1, <2>3, <2>4, <2>5
<1>5. CASE ReturnsAtUnknown(read) /\ mClients' = mClients \ Left(read) /\ srv_alive' = Heard(read)
  <2>1. \A c \in Client : srv_alive'[c] <= srv_alive[c] + since[Server]
    BY <1>1, <1>2, <1>5, HeardType
  <2>2. QED  BY <1>1, <1>3, <1>5, <2>1, HeardType
<1>6. QED
  BY <1>4, <1>5 DEF ServerUpdate

(* What a frame of the server leaves in the sockets. *)
LEMMA ServerSent ==
  ASSUME Types, NEW read, mClients' \subseteq Client, ServerSends(read)
  PROVE  /\ DOMAIN socket' = Proc
         /\ \A p \in Proc : socket'[p] \subseteq Datagrams(p)
         /\ Server \in running' => socket'[Server] = socket[Server] \ read
<1> USE Constants
<1>1. PICK arrived \in [mClients' -> SUBSET Sent(Server)] :
        socket' = [p \in Proc |->
                    CASE p = Server    -> IF Server \in running'
                                          THEN socket[p] \ read ELSE {}
                      [] p \in mClients' -> socket[p] \cup ({Server} \X arrived[p])
                      [] OTHER         -> socket[p]]
  BY DEF ServerSends
<1>2. socket'[Server] = IF Server \in running' THEN socket[Server] \ read ELSE {}
  BY <1>1
<1>3. ASSUME NEW p \in Proc PROVE socket'[p] \subseteq Datagrams(p)
  <2>1. CASE p = Server
    BY <1>2, <2>1 DEF Types
  <2>2. CASE p # Server /\ p \in mClients'
    <3>1. socket'[p] = socket[p] \cup ({Server} \X arrived[p])
      BY <1>1, <2>2
    <3>2. arrived[p] \subseteq {"data", "fin"}
      BY <1>1, <2>2 DEF Sent
    <3>3. QED  BY <2>2, <3>1, <3>2 DEF Types, Datagrams
  <2>3. CASE p # Server /\ p \notin mClients'
    BY <1>1, <2>3 DEF Types
  <2>4. QED  BY <2>1, <2>2, <2>3
<1>4. QED  BY <1>1, <1>2, <1>3

-----------------------------------------------------------------------------
(* The invariants are inductive.                                           *)

LEMMA InitClock == Init => Types /\ CountsSilence /\ CountsEnd
<1> SUFFICES ASSUME Init PROVE Types /\ CountsSilence /\ CountsEnd
  OBVIOUS
<1> USE Constants
<1>1. TimerInv
  BY DEF Init, TimerInv
<1>2. Types
  <2>1. running \subseteq Proc /\ mClients \subseteq Client
        /\ DOMAIN socket = Proc /\ \A p \in Proc : socket[p] \subseteq Datagrams(p)
        /\ {spShip, ended, inmortal, game_end} \subseteq BOOLEAN
    BY DEF Init
  <2>2. since \in [Proc -> 0 .. MaxFrame] /\ shown \in 0 .. LongEnd + 1
    BY DEF Init
  <2>3. srv_alive \in [Client -> 0 .. Alive] /\ quiet \in [Client -> 0 .. Alive]
        /\ cl_alive \in [Client -> 0 .. Alive + MaxFrame]
    BY DEF Init
  <2>4. QED  BY <1>1, <2>1, <2>2, <2>3 DEF Types
<1>3. CountsSilence
  BY DEF Init, CountsSilence
<1>4. CountsEnd
  BY DEF Init, CountsEnd
<1>5. QED  BY <1>2, <1>3, <1>4

LEMMA TickClock ==
  Types /\ CountsSilence /\ CountsEnd /\ Tick => Types' /\ CountsSilence' /\ CountsEnd'
<1> SUFFICES ASSUME Types, CountsSilence, CountsEnd, Tick
             PROVE  Types' /\ CountsSilence' /\ CountsEnd'
  OBVIOUS
<1> USE Constants
<1>1. UNCHANGED <<running, mClients, srv_alive, cl_alive, socket, spShip, ended, inmortal,
                  timer, game_end>>
  BY DEF Tick, session, ending
<1>2. since' = [p \in Proc |-> IF p \in running THEN since[p] + 1 ELSE 0]
      /\ \A p \in running : since[p] < MaxFrame
  BY DEF Tick
<1>3. since' \in [Proc -> 0 .. MaxFrame]
  BY <1>2 DEF Types
<1>4. quiet' \in [Client -> 0 .. Alive]
  <2>1. \A c \in Client : UpTo(Alive, quiet[c] + 1) \in 0 .. Alive
    <3>1. \A c \in Client : quiet[c] + 1 \in Nat
      BY DEF Types
    <3>2. QED  BY <3>1, UpToType
  <2>2. QED  BY <2>1 DEF Tick
<1>5. shown' \in 0 .. LongEnd + 1 /\ (~ended => shown' = 0)
  <2>1. UpTo(LongEnd + 1, shown + 1) \in 0 .. LongEnd + 1
    BY UpToType DEF Types
  <2>2. QED  BY <2>1 DEF Tick
<1>6. TimerInv'
  BY <1>1, <1>5 DEF Types, TimerInv
<1>7. Types'
  BY <1>1, <1>3, <1>4, <1>5, <1>6 DEF Types
<1>8. CountsSilence'
  <2>1. SUFFICES ASSUME Server \in running, NEW c \in mClients, DataOf(c) \notin socket[Server]
                 PROVE  srv_alive[c] + since'[Server] <= quiet'[c] + MaxFrame
    BY <1>1 DEF CountsSilence, DataOf
  <2>2. c \in Client /\ srv_alive[c] \in 0 .. Alive /\ quiet[c] \in 0 .. Alive
        /\ since[Server] \in 0 .. MaxFrame
    BY DEF Types
  <2>3. since'[Server] = since[Server] + 1 /\ since'[Server] <= MaxFrame
    BY <1>2, <2>1, <2>2
  <2>4. quiet'[c] = UpTo(Alive, quiet[c] + 1)
    BY <2>1, <2>2 DEF Tick
  <2>5. quiet'[c] = quiet[c] + 1 \/ quiet'[c] = Alive
    BY <2>2, <2>4 DEF UpTo
  <2>6. srv_alive[c] + since[Server] <= quiet[c] + MaxFrame
    BY <2>1 DEF CountsSilence
  <2>7. QED  BY <2>2, <2>3, <2>5, <2>6
<1>9. CountsEnd'
  <2>1. SUFFICES ASSUME Server \in running, ended
                 PROVE  IF inmortal THEN 2 * shown' <= timer + 2 * since'[Server]
                        ELSE /\ timer + since'[Server] <= shown'
                             /\ shown' <= timer + since'[Server] + Inmortal \div 2 + MaxFrame
    BY <1>1 DEF CountsEnd
  <2>2. since'[Server] = since[Server] + 1 /\ since[Server] \in 0 .. MaxFrame
        /\ since'[Server] \in 0 .. MaxFrame
    BY <1>2, <1>3, <2>1 DEF Types
  <2>3. timer \in Nat /\ timer < Disconnect /\ (inmortal => timer < Inmortal)
    BY <2>1 DEF Types, TimerInv
  <2>4. shown \in Nat /\ shown' = UpTo(LongEnd + 1, shown + 1)
    BY <2>1 DEF Types, Tick
  <2>5. shown + 1 <= LongEnd + 1
    BY <2>1, <2>2, <2>3, <2>4 DEF CountsEnd
  <2>6. shown' = shown + 1
    BY <2>4, <2>5 DEF UpTo
  <2>7. QED  BY <2>1, <2>2, <2>3, <2>4, <2>6 DEF CountsEnd
<1>10. QED  BY <1>7, <1>8, <1>9

LEMMA ServerFrameClock ==
  Types /\ CountsSilence /\ CountsEnd /\ ServerFrame => Types' /\ CountsSilence' /\ CountsEnd'
<1> SUFFICES ASSUME Types, CountsSilence, CountsEnd, ServerFrame
             PROVE  Types' /\ CountsSilence' /\ CountsEnd'
  OBVIOUS
<1> USE Constants
<1>1. PICK read \in SUBSET socket[Server] : ServerUpdate(read) /\ ServerSends(read)
  BY DEF ServerFrame
<1> DEFINE dt == since[Server]
<1>2. /\ Server \in running /\ GameUpdate(dt) /\ running' \subseteq running
      /\ (game_end' => Server \notin running') /\ UNCHANGED <<cl_alive, shown>>
      /\ since' = [since EXCEPT ![Server] = 0]
      /\ quiet' = [c \in Client |-> IF c \in mClients' THEN quiet[c] ELSE 0]
  BY DEF ServerFrame, EndFrame, GetDt
<1>3. dt \in 0 .. MaxFrame
  BY DEF Types
<1>4. /\ mClients' \subseteq mClients /\ mClients' \subseteq Client
      /\ srv_alive' \in [Client -> 0 .. Alive]
      /\ \A c \in Client : srv_alive'[c] <= srv_alive[c] + dt
      /\ \A c \in Client : DataOf(c) \in read => srv_alive'[c] <= dt
  BY <1>1, ServerUpdated DEF Types
<1>5. /\ DOMAIN socket' = Proc
      /\ \A p \in Proc : socket'[p] \subseteq Datagrams(p)
      /\ Server \in running' => socket'[Server] = socket[Server] \ read
  BY <1>1, <1>4, ServerSent
<1>6. TimerInv'
  <2> HIDE DEF dt
  <2>1. QED  BY <1>2, <1>3, TimerUpdated
<1>7. spShip' \in BOOLEAN /\ ended' \in BOOLEAN /\ inmortal' \in BOOLEAN /\ game_end' \in BOOLEAN
  BY <1>2 DEF GameUpdate, Types, MortalAgain
<1>8. since' \in [Proc -> 0 .. MaxFrame] /\ quiet' \in [Client -> 0 .. Alive]
  BY <1>2 DEF Types
<1>9. Types'
  BY <1>2, <1>4, <1>5, <1>6, <1>7, <1>8 DEF Types
<1>10. CountsSilence'
  <2>1. SUFFICES ASSUME Server \in running', NEW c \in mClients', DataOf(c) \notin socket'[Server]
                 PROVE  srv_alive'[c] + since'[Server] <= quiet'[c] + MaxFrame
    BY DEF CountsSilence, DataOf
  <2>2. c \in mClients /\ c \in Client /\ quiet'[c] = quiet[c] /\ quiet[c] \in 0 .. Alive
        /\ srv_alive[c] \in 0 .. Alive /\ srv_alive'[c] \in 0 .. Alive /\ since'[Server] = 0
    BY <1>2, <1>4, <2>1 DEF Types
  <2>3. CASE DataOf(c) \in read
    BY <1>3, <1>4, <2>2, <2>3
  <2>4. CASE DataOf(c) \notin read
    <3>1. DataOf(c) \notin socket[Server]
      BY <1>5, <2>1, <2>4
    <3>2. srv_alive[c] + dt <= quiet[c] + MaxFrame
      BY <1>2, <2>2, <3>1 DEF CountsSilence
    <3>3. QED  BY <1>3, <1>4, <2>2, <3>2
  <2>5. QED  BY <2>3, <2>4
<1>11. CountsEnd'
  <2> DEFINE t == IF ended THEN timer + dt ELSE timer
  <2>1. SUFFICES ASSUME Server \in running', ended'
                 PROVE  IF inmortal' THEN 2 * shown <= timer'
                        ELSE timer' <= shown /\ shown <= timer' + Inmortal \div 2 + MaxFrame
    <3>1. since'[Server] = 0 /\ shown' = shown /\ timer' \in Nat /\ shown \in Nat
      BY <1>2, <1>9 DEF Types, TimerInv
    <3>2. timer' + 2 * since'[Server] = timer' /\ timer' + since'[Server] = timer'
      BY <3>1
    <3>3. QED  BY <2>1, <3>1, <3>2 DEF CountsEnd
  <2>2. timer' = IF inmortal THEN InmortalTimer(t, dt) ELSE t
    BY <1>2 DEF GameUpdate
  <2>3. timer \in Nat /\ shown \in Nat /\ timer' \in Nat
    BY <1>6 DEF Types, TimerInv
  <2>4. CASE ~ended
    <3>1. shown = 0
      BY <2>4 DEF Types, TimerInv
    <3>2. ~inmortal' => timer' = 0
      <4>1. CASE inmortal
        <5>1. inmortal' = (inmortal /\ ~MortalAgain(t, dt))
          BY <1>2, <2>1, <2>4 DEF GameUpdate
        <5>2. QED  BY <2>2, <4>1, <5>1 DEF MortalAgain, InmortalTimer
      <4>2. CASE ~inmortal
        BY <2>2, <2>4, <4>2 DEF Types, TimerInv
      <4>3. QED  BY <4>1, <4>2
    <3>3. QED  BY <2>3, <3>1, <3>2
  <2>5. CASE ended /\ inmortal
    <3>1. 2 * shown <= timer + 2 * dt /\ timer < Inmortal
      BY <1>2, <2>5 DEF CountsEnd, Types, TimerInv
    <3>2. inmortal' = (inmortal /\ ~MortalAgain(t, dt))
      BY <1>2, <2>5 DEF GameUpdate, Types, TimerInv
    <3>3. CASE t + dt >= Inmortal
      <4>1. timer' = 0 /\ ~inmortal'
        BY <2>2, <2>5, <3>2, <3>3 DEF MortalAgain, InmortalTimer
      <4>2. shown <= Inmortal \div 2 + MaxFrame
        BY <1>3, <2>3, <3>1
      <4>3. QED  BY <2>3, <4>1, <4>2
    <3>4. CASE ~(t + dt >= Inmortal)
      <4>1. timer' = t + dt /\ inmortal'
        BY <2>2, <2>5, <3>2, <3>4 DEF MortalAgain, InmortalTimer
      <4>2. QED  BY <1>3, <2>3, <2>5, <3>1, <4>1
    <3>5. QED  BY <3>3, <3>4
  <2>6. CASE ended /\ ~inmortal
    <3>1. ~inmortal' /\ timer' = timer + dt
      BY <1>2, <2>2, <2>6 DEF GameUpdate, Types, TimerInv
    <3>2. timer + dt <= shown /\ shown <= timer + dt + Inmortal \div 2 + MaxFrame
      BY <1>2, <2>6 DEF CountsEnd
    <3>3. QED  BY <3>1, <3>2
  <2>7. QED  BY <2>4, <2>5, <2>6
<1>12. QED  BY <1>9, <1>10, <1>11

LEMMA ClientFrameClock ==
  Types /\ CountsSilence /\ CountsEnd /\ (\E c \in Client : ClientFrame(c))
    => Types' /\ CountsSilence' /\ CountsEnd'
<1> SUFFICES ASSUME Types, CountsSilence, CountsEnd, NEW c \in Client, ClientFrame(c)
             PROVE  Types' /\ CountsSilence' /\ CountsEnd'
  OBVIOUS
<1> USE Constants
<1>1. /\ running' \subseteq running /\ (Server \in running' <=> Server \in running)
      /\ since' = [since EXCEPT ![c] = 0]
      /\ UNCHANGED <<mClients, srv_alive, spShip, ended, inmortal, timer, game_end, shown>>
  BY DEF ClientFrame, EndFrame, ending
<1>2. since' \in [Proc -> 0 .. MaxFrame] /\ since'[Server] = since[Server]
  BY <1>1 DEF Types, Proc
<1>3. cl_alive' \in [Client -> 0 .. Alive + MaxFrame]
  <2>1. cl_alive' = [cl_alive EXCEPT ![c] = IF c \in running' THEN AliveTime(c) ELSE 0]
        /\ (c \in running' => cl_alive[c] <= Alive)
    BY DEF ClientFrame, Silent, Types
  <2>2. since[c] \in 0 .. MaxFrame /\ cl_alive[c] \in Nat
    BY DEF Types, Proc
  <2>3. c \in running' => AliveTime(c) \in 0 .. Alive + MaxFrame
    BY <2>1, <2>2 DEF AliveTime, GetDt
  <2>4. QED  BY <2>1, <2>3 DEF Types
<1>4. PICK arrived \in SUBSET {"data", "fin"} :
        /\ socket' = [socket EXCEPT
             ![c] = {},
             ![Server] = IF Server \in running THEN @ \cup ({c} \X arrived) ELSE {}]
        /\ quiet' = IF "data" \in arrived THEN [quiet EXCEPT ![c] = 0] ELSE quiet
  BY DEF ClientFrame, ClientSends, Sent
<1>5. socket'[Server] = IF Server \in running THEN socket[Server] \cup ({c} \X arrived) ELSE {}
  BY <1>4 DEF Types
<1>6. DOMAIN socket' = Proc /\ \A p \in Proc : socket'[p] \subseteq Datagrams(p)
  <2>1. DOMAIN socket' = Proc
    BY <1>4 DEF Types
  <2>2. ASSUME NEW p \in Proc PROVE socket'[p] \subseteq Datagrams(p)
    <3>1. CASE p = Server
      <4>1. {c} \X arrived \subseteq Client \X {"data", "fin"}
        OBVIOUS
      <4>2. socket[Server] \subseteq Client \X {"data", "fin"}
        BY DEF Types, Datagrams
      <4>3. Datagrams(p) = Client \X {"data", "fin"}
        BY <3>1 DEF Datagrams
      <4>4. QED  BY <1>5, <3>1, <4>1, <4>2, <4>3
    <3>2. CASE p # Server
      <4>1. socket'[p] \subseteq socket[p]
        BY <1>4, <3>2 DEF Types
      <4>2. QED  BY <4>1 DEF Types
    <3>3. QED  BY <3>1, <3>2
  <2>3. QED  BY <2>1, <2>2
<1>7. quiet' \in [Client -> 0 .. Alive]
  BY <1>4 DEF Types
<1>8. TimerInv'
  BY <1>1 DEF Types, TimerInv
<1>9. Types'
  BY <1>1, <1>2, <1>3, <1>6, <1>7, <1>8 DEF Types
<1>10. CountsSilence'
  <2>1. SUFFICES ASSUME Server \in running, NEW d \in mClients, DataOf(d) \notin socket'[Server]
                 PROVE  srv_alive[d] + since[Server] <= quiet'[d] + MaxFrame
    BY <1>1, <1>2 DEF CountsSilence, DataOf
  <2>2. DataOf(d) \notin socket[Server] /\ (d = c => "data" \notin arrived)
    BY <1>5, <2>1 DEF DataOf
  <2>3. quiet'[d] = quiet[d]
    BY <1>4, <2>2 DEF Types
  <2>4. QED  BY <2>1, <2>2, <2>3 DEF CountsSilence
<1>11. CountsEnd'
  BY <1>1, <1>2 DEF CountsEnd
<1>12. QED  BY <1>9, <1>10, <1>11

LEMMA ClockInductive ==
  Types /\ CountsSilence /\ CountsEnd /\ [Next]_vars => Types' /\ CountsSilence' /\ CountsEnd'
<1>1. Types /\ CountsSilence /\ CountsEnd /\ UNCHANGED vars
        => Types' /\ CountsSilence' /\ CountsEnd'
  BY DEF vars, session, ending, Types, TimerInv, CountsSilence, CountsEnd, DataOf, Datagrams
<1>2. QED  BY <1>1, TickClock, ServerFrameClock, ClientFrameClock DEF Next

LEMMA ClockInvariant == Spec => [](Types /\ CountsSilence /\ CountsEnd)
BY InitClock, ClockInductive, PTL DEF Spec

-----------------------------------------------------------------------------
(* Theorems.                                                               *)

(* No timer of a running program exceeds its limit by more than a frame,   *)
(* although one timer serves the immortality and the end of the game.      *)
THEOREM ClockTypeCorrect == Spec => []TypeOK
<1>1. Types => TypeOK
  BY Constants DEF Types, TimerInv, TypeOK
<1>2. QED  BY <1>1, ClockInvariant, PTL

(* A client that sent no FIN is dropped only when nothing of it arrived    *)
(* for alive_timer less one frame, whatever the lengths of the frames, or  *)
(* when an error of recvfrom, which needs somebody to have left, kept the  *)
(* server from reading what did arrive.                                    *)
THEOREM SilentOnesDropped == Spec => DroppedForSilence
<1> DEFINE Silence ==
      \A c \in mClients \ mClients' :
        \/ FinOf(c) \in socket[Server]
        \/ quiet[c] > Alive - MaxFrame
        \/ DataOf(c) \in socket[Server] /\ ~(Client \subseteq running)
<1>1. Types /\ CountsSilence /\ [Next]_vars => [Silence]_vars
  <2> SUFFICES ASSUME Types, CountsSilence, [Next]_vars, NEW c \in mClients \ mClients',
                      FinOf(c) \notin socket[Server],
                      DataOf(c) \notin socket[Server] \/ Client \subseteq running
               PROVE  quiet[c] > Alive - MaxFrame
    OBVIOUS
  <2>1. ServerFrame
    BY DEF Next, vars, session, Tick, ClientFrame
  <2>2. PICK read \in SUBSET socket[Server] : ServerUpdate(read)
    BY <2>1 DEF ServerFrame
  <2>3. /\ DataOf(c) \notin socket[Server] \/ ~(Client \subseteq running)
        /\ srv_alive[c] + since[Server] > Alive
    BY <2>2, ServerUpdated
  <2>4. srv_alive[c] + since[Server] <= quiet[c] + MaxFrame
    BY <2>1, <2>3 DEF CountsSilence, ServerFrame
  <2>5. srv_alive[c] \in Nat /\ since[Server] \in Nat /\ quiet[c] \in Nat
    BY Constants DEF Types
  <2>6. QED  BY <2>3, <2>4, <2>5, Constants
<1>2. QED
  BY <1>1, ClockInvariant, PTL DEF Spec, DroppedForSilence

(* The end of the game is shown for at least timer_to_disconect and, in a  *)
(* running program, for no more than half an immortality and two frames    *)
(* longer.                                                                 *)
THEOREM EndsInTime == Spec => EndIsTimely
<1> DEFINE Shown == game_end' /\ ~game_end => shown >= Disconnect
<1>1. Types /\ CountsEnd /\ [Next]_vars => [Shown]_vars
  <2> SUFFICES ASSUME Types, CountsEnd, [Next]_vars, game_end', ~game_end
               PROVE  shown >= Disconnect
    OBVIOUS
  <2>1. ServerFrame
    BY DEF Next, vars, ending, Tick, ClientFrame
  <2>2. Server \in running /\ ended /\ timer + since[Server] >= Disconnect
    BY <2>1 DEF ServerFrame, GameUpdate, GetDt
  <2>3. since[Server] \in 0 .. MaxFrame /\ timer \in Nat /\ shown \in Nat
    BY Constants DEF Types, TimerInv
  <2>4. ~inmortal
    BY <2>2, <2>3, Constants DEF Types, TimerInv
  <2>5. QED  BY <2>2, <2>3, <2>4, Constants DEF CountsEnd
<1>2. Types /\ CountsEnd => EndIsBounded
  <2> SUFFICES ASSUME Types, CountsEnd, Server \in running PROVE shown <= LongEnd
    BY DEF EndIsBounded
  <2>1. since[Server] \in 0 .. MaxFrame /\ timer \in Nat /\ shown \in Nat
        /\ timer < Disconnect /\ (inmortal => timer < Inmortal) /\ (~ended => shown = 0)
    BY Constants DEF Types, TimerInv
  <2>2. QED  BY <2>1, Constants DEF CountsEnd
<1>3. QED
  BY <1>1, <1>2, ClockInvariant, PTL DEF Spec, EndIsTimely, EndIsShown
=============================================================================
