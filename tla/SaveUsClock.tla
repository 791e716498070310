---------------------------- MODULE SaveUsClock ----------------------------
(***************************************************************************)
(* The timers of a "2.0 Save Us" session whose players have all joined.    *)
(* Nobody reads a clock at an event: game::update measures how long each   *)
(* frame took (game/TimeMgr/Time.cpp), and the next frame adds that length *)
(* to every timer.  The server drops a client, a client leaves the server  *)
(* and the program ends when such a sum passes a constant, so the lengths  *)
(* of the frames, the order of reading and counting within a frame and the *)
(* frames in which nothing is counted decide who stays.                    *)
(*                                                                         *)
(* Time is a number of ticks, and a frame happens in an instant of it; the *)
(* time between two frames is the length of the first one.  A datagram is  *)
(* lost or lies in the receiver's socket, which keeps one of each sender   *)
(* and kind and gives them in any order.  Of the packets only what matters *)
(* to the timers is left: "data" (any packet of the game, and any answer   *)
(* to one) and "fin".  A client may close its window at any time, which    *)
(* includes its own end-of-game timer; the server's is modelled in full.   *)
(***************************************************************************)
EXTENDS Integers, FiniteSets

CONSTANTS
  Client,     \* the clients that have joined
  Server,     \* the server
  Alive,      \* alive_timer, in ticks
  Disconnect, \* timer_to_disconect, in ticks
  Inmortal,   \* inmortal_timer, in ticks
  MaxFrame,   \* bound on the length of a frame, in ticks
  EndsAlone   \* bound: the server's ship is hit, and the game ends, only when
              \* the clients have left (while they are there, the server's
              \* window may be closed in any frame instead)

ASSUME ClockAssumption ==
  /\ Server \notin Client
  /\ MaxFrame \in Nat \ {0}
  /\ Alive \in Nat /\ Alive > MaxFrame
  /\ Disconnect \in Nat
  /\ Inmortal \in 1 .. Disconnect - MaxFrame
  /\ EndsAlone \in BOOLEAN

Proc == Client \cup {Server}

VARIABLES
  running,     \* the processes in their main loop
  since,       \* ticks since each process's StartFrame
  mClients,    \* the clients the server has a servers_client for
  srv_alive,   \* current_alive_time of each servers_client
  cl_alive,    \* current_alive_time of each client
  socket,      \* what lies unread in each socket: <<sender, kind>>
  spShip,      \* whether the server's player has a ship
  ended,       \* game_ended \/ game_won of the server
  inmortal,    \* player_inmortal of the server's player
  timer,       \* the server's mGame.timer
  game_end,    \* the server's game::game_end
  quiet,       \* history: ticks since data of a client last reached the
               \* server's socket, counted to Alive
  shown        \* history: ticks since the game ended, counted to LongEnd + 1

session == <<mClients, srv_alive, cl_alive, socket>>
ending  == <<ended, inmortal, timer, game_end>>
vars == <<running, since, session, spShip, ending, quiet, shown>>

\* the longest the end of the game is shown
LongEnd == Disconnect + Inmortal \div 2 + 2 * MaxFrame

Datagrams(p) == (IF p = Server THEN Client ELSE {Server}) \X {"data", "fin"}

TypeOK ==
  /\ running \subseteq Proc
  /\ since \in [Proc -> 0 .. MaxFrame]
  /\ mClients \subseteq Client
  /\ srv_alive \in [Client -> 0 .. Alive]
  /\ cl_alive \in [Client -> 0 .. Alive + MaxFrame]
  /\ \A p \in Proc : socket[p] \subseteq Datagrams(p)
  /\ spShip \in BOOLEAN
  /\ ended \in BOOLEAN /\ inmortal \in BOOLEAN /\ game_end \in BOOLEAN
  /\ timer \in 0 .. Disconnect + 2 * MaxFrame
  /\ quiet \in [Client -> 0 .. Alive]
  /\ shown \in 0 .. LongEnd + 1

\* Everybody has joined, and the first frames begin.
Init ==
  /\ running = Proc
  /\ since = [p \in Proc |-> 0]
  /\ mClients = Client
  /\ srv_alive = [c \in Client |-> 0]
  /\ cl_alive = [c \in Client |-> 0]
  /\ socket = [p \in Proc |-> {}]
  /\ spShip = TRUE
  /\ ended = FALSE
  /\ inmortal = FALSE
  /\ timer = 0
  /\ game_end = FALSE
  /\ quiet = [c \in Client |-> 0]
  /\ shown = 0

-----------------------------------------------------------------------------
(* Time passes.  No frame of a running process is longer than MaxFrame.    *)

UpTo(limit, n) == IF n < limit THEN n ELSE limit

Tick ==
  /\ running # {}
  /\ \A p \in running : since[p] < MaxFrame
  /\ since' = [p \in Proc |-> IF p \in running THEN since[p] + 1 ELSE 0]
  /\ quiet' = [c \in Client |-> IF c \in mClients THEN UpTo(Alive, quiet[c] + 1)
                                                  ELSE 0]
  /\ shown' = IF ended THEN UpTo(LongEnd + 1, shown + 1) ELSE 0
  /\ UNCHANGED <<running, session, spShip, ending>>

\* EndFrame stores what GetDt returns in the next frame; StartFrame follows
GetDt(p) == since[p]

EndFrame(p) == since' = [since EXCEPT ![p] = 0]

-----------------------------------------------------------------------------
(* The server's network: server::Update.                                   *)

FinOf(c)  == <<c, "fin">>
DataOf(c) == <<c, "data">>
Left(read) == {c \in Client : FinOf(c) \in read}

\* The loop reads the whole socket, if all that it plays is of known clients;
\* else it returns at a datagram whose sender it does not know (any more), and
\* leaves the rest unread
Playable(read) == \A c \in Client : DataOf(c) \in read => c \in mClients

ReadsAll(read) == read = socket[Server] /\ Playable(read)

ReturnsAtUnknown(read) ==
  \E c \in Client :
    /\ DataOf(c) \in read
    /\ c \notin mClients \/ FinOf(c) \in read
    /\ Playable(read \ {DataOf(c)})

\* recvfrom fails, as it may once a client has closed its socket and what was
\* sent to it comes back: the loop ends, wherever it was
StopsAtError(read) ==
  /\ read # socket[Server] /\ ~(Client \subseteq running)
  /\ Playable(read)

\* ProcessPacket sets current_alive_time; RemoveClient deletes the client
Heard(read) ==
  [c \in Client |-> IF DataOf(c) \in read \/ c \notin mClients \ Left(read)
                    THEN 0 ELSE srv_alive[c]]

\* servers_client::Update of every client, in the order of the map; the loop
\* ends at the first one that was silent for too long, and removes it
UpdateClients(members, times, dt) ==
  LET silent == {c \in members : times[c] + dt > Alive}
      Count(counted) ==
        [c \in Client |-> IF c \in counted THEN times[c] + dt ELSE times[c]]
  IN  \/ /\ silent = {}
         /\ mClients' = members
         /\ srv_alive' = Count(members)
      \/ \E c \in silent, counted \in SUBSET (members \ silent) :
           /\ mClients' = members \ {c}
           /\ srv_alive' = [Count(counted) EXCEPT ![c] = 0]

\* Mutant: the loop is left at an unknown client, and the timers go on
ServerUpdateOn(read) ==
  /\ ReadsAll(read) \/ StopsAtError(read) \/ ReturnsAtUnknown(read)
  /\ UpdateClients(mClients \ Left(read), Heard(read), GetDt(Server))

\* The timers run after an error, too, and against those whose datagrams it
\* left unread
ServerUpdate(read) ==
  \/ /\ ReadsAll(read) \/ StopsAtError(read)
     /\ UpdateClients(mClients \ Left(read), Heard(read), GetDt(Server))
  \/ /\ ReturnsAtUnknown(read)
     /\ mClients' = mClients \ Left(read)
     /\ srv_alive' = Heard(read)

-----------------------------------------------------------------------------
(* The server's game: the timers of Game::Update, in their order.          *)

\* Mutant: the timer is not set to 0 when the immortality is over
TimerKept(t, dt) == t + dt

\* the immortality, whose timer is the one of the end of the game
InmortalTimer(t, dt) == IF t + dt >= Inmortal THEN 0 ELSE t + dt

MortalAgain(t, dt) == inmortal /\ t + dt >= Inmortal

GameUpdate(dt) ==
  LET t      == IF ended THEN timer + dt ELSE timer
      mortal == MortalAgain(t, dt)
      plays  == EndsAlone => running = {Server}
  IN  /\ game_end' = (ended /\ t >= Disconnect)
      /\ timer' = IF inmortal THEN InmortalTimer(t, dt) ELSE t
      /\ \/ UNCHANGED <<spShip, ended>> /\ inmortal' = (inmortal /\ ~mortal)
         \* the last ship is gone, or somebody has the points
         \/ /\ plays /\ ~ended /\ ended' = TRUE
            /\ spShip' = FALSE
            /\ inmortal' = (inmortal /\ ~mortal)
         \* an asteroid hits the ship, which may have been the last one
         \/ /\ plays /\ spShip
            /\ ~inmortal \/ mortal
            /\ inmortal' = TRUE
            /\ spShip' \in BOOLEAN
            /\ UNCHANGED ended

-----------------------------------------------------------------------------
(* Frames: game::update, and game::destroy after the last one.             *)

\* Data in a frame, and a FIN after the last one
Sent(p) == IF p \in running' THEN {"data"} ELSE {"data", "fin"}

\* What a frame sends to a client is lost or reaches its socket
ServerSends(read) ==
  \E arrived \in [mClients' -> SUBSET Sent(Server)] :
    socket' = [p \in Proc |->
                 CASE p = Server    -> IF Server \in running'
                                       THEN socket[p] \ read ELSE {}
                   [] p \in mClients' -> socket[p] \cup ({Server} \X arrived[p])
                   [] OTHER         -> socket[p]]

ServerFrame ==
  /\ Server \in running
  /\ EndFrame(Server)
  /\ UNCHANGED <<cl_alive, shown>>
  /\ GameUpdate(GetDt(Server))
  /\ running' \in {running, running \ {Server}}  \* the window may be closed
  /\ game_end' => Server \notin running'
  /\ \E read \in SUBSET socket[Server] : ServerUpdate(read) /\ ServerSends(read)
  /\ quiet' = [c \in Client |-> IF c \in mClients' THEN quiet[c] ELSE 0]

\* client::Update looks at its timer before it reads anything
Silent(c) == cl_alive[c] > Alive

\* Mutant: the timer is assigned the length of the frame
AssignedTime(c) == GetDt(c)

\* every datagram sets current_alive_time to 0, and the dry socket adds to it
AliveTime(c) == (IF socket[c] # {} THEN 0 ELSE cl_alive[c]) + GetDt(c)

\* the FIN has no effect if another datagram is read after it
FinIsLast(c) == socket[c] = {<<Server, "fin">>}

\* A client sends its ship's position in every frame; once it has no ship, only
\* answers, which is as if the positions were lost
ClientSends(c) ==
  \E arrived \in SUBSET Sent(c) :
    /\ socket' = [socket EXCEPT
         ![c] = {},
         ![Server] = IF Server \in running THEN @ \cup ({c} \X arrived) ELSE {}]
    /\ quiet' = IF "data" \in arrived THEN [quiet EXCEPT ![c] = 0] ELSE quiet

\* The window may be closed in any frame.
ClientFrame(c) ==
  /\ c \in running
  /\ EndFrame(c)
  /\ UNCHANGED <<mClients, srv_alive, spShip, ending, shown>>
  /\ running' \in {running, running \ {c}}
  /\ Silent(c) \/ FinIsLast(c) => c \notin running'
  /\ cl_alive' = [cl_alive EXCEPT ![c] = IF c \in running' THEN AliveTime(c)
                                                           ELSE 0]
  /\ ClientSends(c)

Next ==
  \/ Tick
  \/ ServerFrame
  \/ \E c \in Client : ClientFrame(c)

Spec == Init /\ [][Next]_vars

(* Time passes, and every running process goes round its main loop.  The   *)
(* network promises nothing.                                               *)
FairSpec ==
  /\ Spec
  /\ WF_vars(Tick)
  /\ WF_vars(ServerFrame)
  /\ \A c \in Client : WF_vars(ClientFrame(c))

-----------------------------------------------------------------------------
(* Properties.                                                             *)

(* servers_client::Update: "the client didnt send any message for a long   *)
(* period of time".  A client that sent no FIN is only dropped if nothing  *)
(* of it has reached the socket for alive_timer, less one frame; what      *)
(* waits behind a datagram of an unknown client is not held against it.    *)
(* But what waits behind an error of recvfrom is: a client whose data is   *)
(* in the socket may be dropped, once another one, or itself, has gone.    *)
DroppedForSilence ==
  [][\A c \in mClients \ mClients' :
       \/ FinOf(c) \in socket[Server]
       \/ quiet[c] > Alive - MaxFrame
       \/ DataOf(c) \in socket[Server] /\ ~(Client \subseteq running)]_vars

Noticed ==
  /\ \A c \in Client \ running : c \notin mClients \/ Server \notin running
  /\ Server \notin running => running = {}

(* Whoever leaves, and whatever becomes of the FIN, the others notice: a   *)
(* client that has left is forgotten by the server, though its FIN may be  *)
(* lost and the datagrams of other, dropped clients keep server::Update    *)
(* from counting (those clients leave too); and when the server has closed *)
(* every client leaves, also one whose FIN was lost, or was read before    *)
(* another datagram and had no effect.  Nobody comes back, so that this    *)
(* one []<> says of everyone who leaves that it is followed by its notice. *)
LeavingIsNoticed == []<>Noticed

(* The end of the game is shown for at least timer_to_disconect, although  *)
(* the timer may have begun before the end, for the player's immortality.  *)
EndIsShown ==
  [][game_end' /\ ~game_end => shown >= Disconnect]_vars

(* ... and an immortality that outlasts the end, and then sets the timer   *)
(* to 0, delays the closing by no more than half of its length, for until  *)
(* then both add to the one timer, and two frames.                         *)
EndIsBounded == Server \in running => shown <= LongEnd

(* The players see the end of the game, and then the program ends.         *)
EndIsTimely == EndIsShown /\ []EndIsBounded
=============================================================================
