--------------------------- MODULE AsteroidsGame ---------------------------
(* The game state of an Asteroids client (GameState_Asteroids.cpp): the    *)
(* pool of object instances, the lists of pointers into it, lives and      *)
(* score, as the main loop (Main.cpp) updates and draws them while the     *)
(* thread of AsteroidsDataTransfer creates bullets in the same pool.  No   *)
(* lock protects any of it.  The server is the environment: a table of     *)
(* players may say anything.  Positions are abstracted: any asteroid may   *)
(* hit any ship or bullet of its frame, any bullet may leave the window.   *)
EXTENDS Integers, Sequences, FiniteSets, FiniteSetsExt

CONSTANTS
  Slots,          (* GAME_OBJ_INST_NUM_MAX *)
  NumPlayers,     (* the number in the start signal: av_player_max *)
  InitialLives,   (* SHIP_INITIAL_NUM *)
  ScoreWin,       (* SCORE_WIN, in asteroids *)
  AsteroidTime,   (* whether ASTEROID_TIME # 0; the committed value is 0 *)
  MaxSpawns,      (* bound: how often the asteroid timer passes *)
  MaxShots        (* bound: how many bullets are created *)

ASSUME SizesAssumption == Slots \in Nat \ {0} /\ NumPlayers \in Nat \ {0}
ASSUME ScoreAssumption == InitialLives \in Nat \ {0} /\ ScoreWin \in Nat \ {0}
ASSUME BoundsAssumption == MaxSpawns \in Nat /\ MaxShots \in Nat /\ AsteroidTime \in BOOLEAN

VARIABLES
  inst,           (* flag and pObject->type of sGameObjInstList *)
  spShip, player_list, bullet_list,   (* pointers: a slot, or NULL *)
  sShipLives, sScore, onValueChange,
  av_connected, av_start,
  app,            (* whether the program runs, has quit or has crashed *)
  main,           (* where the main thread is *)
  todo,           (* the types main still creates, in order *)
  at,             (* its loop counter over slots or players *)
  data,           (* where the thread of AsteroidsDataTransfer is *)
  row, player,    (* the two loop counters of that thread over player_list *)
  found,          (* per thread: the slot gameObjInstCreate has chosen *)
  pObject,        (* per thread: pObject of that slot, until its flag is set *)
  mixed,          (* history: slots that got one object from either thread *)
  spawns, fired,  (* how often the timer passed; how many bullets were asked for *)
  shown           (* the score and lives printed last *)

pointers == <<spShip, player_list, bullet_list>>
counters == <<sShipLives, sScore, onValueChange>>
atomics == <<av_connected, av_start>>
mainVars == <<main, todo, at>>
dataVars == <<data, row, player>>
history == <<spawns, fired, mixed>>
vars == <<inst, pointers, counters, atomics, app, mainVars, dataVars, found,
          pObject, history, shown>>

Slot == 1 .. Slots
NULL == 0
Type == {"ship", "bullet", "asteroid", "lives"}
Thread == {"main", "data"}
Idle == -1                      (* of found: not in gameObjInstCreate *)
Unwritten == "unset"                (* of pObject: not written by the thread *)
Unprinted == [score |-> -1, lives |-> -1]

Active(type) == {s \in Slot : inst[s] = type}
Over == sShipLives <= 0 \/ sScore >= ScoreWin

TypeOK ==
  /\ inst \in [Slot -> Type \cup {"free"}]
  /\ spShip \in Slot \cup {NULL}
  /\ player_list \in Seq(Slot \cup {NULL}) /\ Len(player_list) \in {0, NumPlayers}
  /\ bullet_list \in Seq(Slot \cup {NULL}) /\ Len(bullet_list) <= MaxShots
  /\ sShipLives \in Int /\ sScore \in Nat /\ onValueChange \in BOOLEAN
  /\ av_connected \in BOOLEAN /\ av_start \in BOOLEAN
  /\ app \in {"runs", "quit", "crashed"}
  /\ main \in {"manager", "start", "frame", "offline", "players", "create",
               "append", "fire", "collide", "bounds", "draw"}
  /\ todo \in Seq({"asteroid", "lives"}) /\ at \in 1 .. Slots + NumPlayers
  /\ data \in {"spin", "receive", "rows", "shots", "append"}
  /\ row \in 1 .. NumPlayers + 1 /\ player \in 1 .. NumPlayers + 1
  /\ found \in [Thread -> Slot \cup {NULL, Idle}]
  /\ pObject \in [Thread -> Type \cup {Unwritten}] /\ mixed \in Seq(Slot)
  /\ spawns \in 0 .. MaxSpawns /\ fired \in 0 .. MaxShots
  /\ shown \in {Unprinted} \cup [score : Nat, lives : Int]

(* GameStateAsteroidsLoad clears the pool.  WinMain starts the thread of   *)
(* the data transfer first, which spins until there is a game to play.     *)
Init ==
  /\ inst = [s \in Slot |-> "free"]
  /\ spShip = NULL /\ player_list = <<>> /\ bullet_list = <<>>
  /\ sShipLives = 0 /\ sScore = 0 /\ onValueChange = TRUE
  /\ av_connected = FALSE /\ av_start = FALSE
  /\ app = "runs"
  /\ main = "manager" /\ todo = <<>> /\ at = 1
  /\ data = "spin" /\ row = 1 /\ player = 1
  /\ found = [t \in Thread |-> Idle]
  /\ pObject = [t \in Thread |-> Unwritten]
  /\ mixed = <<>> /\ spawns = 0 /\ fired = 0
  /\ shown = Unprinted

-----------------------------------------------------------------------------
(* gameObjInstCreate: the first slot whose flag is 0, then pObject of that *)
(* slot, and then its flag.  These are steps of their own, because the     *)
(* other thread may find, fill, collide or destroy the slot between them.  *)

FirstFree == IF Active("free") = {} THEN NULL ELSE Min(Active("free"))

FindAnyInstance(t) == found' = [found EXCEPT ![t] = IF Active("free") = {} THEN 1 ELSE FirstFree]
FindInstance(t) == found' = [found EXCEPT ![t] = FirstFree]

(* What the thread asks for. *)
Asked(t) ==
  IF t = "main" /\ main = "players" THEN "ship"
  ELSE IF t = "main" /\ main = "create" THEN Head(todo)
       ELSE "bullet"

(* The other thread's object is in this slot, or on its way into it. *)
Mixes(s) ==
  \/ inst[s] \notin {"free", "bullet"}
  \/ found["main"] = s /\ pObject["main"] \notin {Unwritten, "bullet"}

(* pObject is written whether or not the other thread has set the flag or  *)
(* written a pObject of its own; the stores are taken in the order of the  *)
(* source, and a vector is stored as one.                                  *)
SetObject(t) ==
  /\ found[t] \in Slot /\ pObject[t] = Unwritten
  /\ (IF t = "main" THEN main ELSE data) # "append"
  /\ pObject' = [u \in Thread |->
        IF u = t \/ (found[u] = found[t] /\ pObject[u] # Unwritten) THEN Asked(t)
        ELSE pObject[u]]
  /\ inst' = IF inst[found[t]] = "free" THEN inst ELSE [inst EXCEPT ![found[t]] = Asked(t)]
  /\ mixed' = IF t = "data" /\ Mixes(found[t]) THEN Append(mixed, found[t]) ELSE mixed
  /\ UNCHANGED <<pointers, counters, atomics, app, mainVars, dataVars, found,
                 spawns, fired, shown>>

(* The flag, and the return to the caller. *)
SetFlag(t) ==
  /\ found[t] = NULL \/ pObject[t] # Unwritten
  /\ inst' = IF found[t] = NULL THEN inst ELSE [inst EXCEPT ![found[t]] = pObject[t]]
  /\ pObject' = [pObject EXCEPT ![t] = Unwritten]

(* gameObjInstDestroy of several instances. *)
Destroyed(S) == [s \in Slot |-> IF s \in S THEN "free" ELSE inst[s]]

(* Two threads inside an operation of bullet_list, one of them a write, is *)
(* a data race: each write may get lost, or the program crashes.           *)
Writes(t) == IF t = "main" THEN main \in {"append", "collide", "bounds"} ELSE data = "append"
Racing(t) == \E u \in Thread \ {t} : Writes(u)

UpdateBullets(t, list) ==
  \/ bullet_list' = list /\ UNCHANGED app
  \/ Racing(t) /\ UNCHANGED bullet_list /\ app' \in {"runs", "crashed"}

(* std::remove and erase: the pointers that stay, in their order. *)
Unlisted(S) ==
  LET Kept[n \in 0 .. Len(bullet_list)] ==
        IF n = 0 THEN <<>>
        ELSE IF bullet_list[n] \in S THEN Kept[n - 1]
             ELSE Append(Kept[n - 1], bullet_list[n])
  IN  Kept[Len(bullet_list)]

-----------------------------------------------------------------------------
(* WinMain.                                                                *)

(* The game state manager selects the functions of the only state there    *)
(* is, and with them AsteroidsDataTransfer, before a thread runs it.       *)
GameStateMgrInit ==
  /\ main = "manager"
  /\ main' = "start"
  /\ UNCHANGED <<inst, pointers, counters, atomics, app, todo, at, dataVars,
                 found, pObject, history, shown>>

(* Load and GameStateAsteroidsInit: the own ship is the first instance.    *)
Start ==
  /\ main = "start"
  /\ spShip' = FirstFree
  /\ inst' = [inst EXCEPT ![FirstFree] = "ship"]
  /\ sScore' = 0 /\ sShipLives' = InitialLives
  /\ main' = "frame"
  /\ UNCHANGED <<player_list, bullet_list, onValueChange, atomics, app, todo,
                 at, dataVars, found, pObject, history, shown>>

(* GameStateAsteroidsUpdate, which returns at once after the end of the    *)
(* game; when the timer passes it spawns two asteroids and one pickup.     *)
Update ==
  /\ main = "frame" /\ av_start
  /\ IF Over
     THEN main' = "draw" /\ UNCHANGED <<todo, spawns>>
     ELSE \/ main' = "fire" /\ UNCHANGED <<todo, spawns>>
          \/ /\ AsteroidTime /\ spawns < MaxSpawns
             /\ todo' = <<"asteroid", "asteroid", "lives">>
             /\ spawns' = spawns + 1
             /\ main' = "create"
  /\ UNCHANGED <<inst, pointers, counters, atomics, app, at, dataVars, found,
                 pObject, fired, mixed, shown>>

(* Before the start: the space bar plays offline, else WaitForStart. *)
Offline ==
  /\ main = "frame" /\ ~av_start
  /\ av_start' = TRUE
  /\ main' = "offline"
  /\ UNCHANGED <<inst, pointers, counters, av_connected, app, todo, at,
                 dataVars, found, pObject, history, shown>>

Disconnect ==
  /\ main = "offline"
  /\ av_connected' = FALSE
  /\ main' = "draw"
  /\ UNCHANGED <<inst, pointers, counters, av_start, app, todo, at, dataVars,
                 found, pObject, history, shown>>

Wait ==
  /\ main = "frame" /\ ~av_start
  /\ \/ /\ av_connected
        /\ av_start' = TRUE
        /\ main' = "players" /\ at' = 1
     \/ main' = "draw" /\ UNCHANGED <<av_start, at>>
  /\ UNCHANGED <<inst, pointers, counters, av_connected, app, todo, dataVars,
                 found, pObject, history, shown>>

(* initMultiPlayer: a ship for every player but the first, while the data  *)
(* thread already plays.                                                   *)
ResizeTo(players) ==
  /\ main = "players" /\ player_list = <<>>
  /\ player_list' = [i \in players |-> NULL]
  /\ at' = IF NumPlayers = 1 THEN 1 ELSE 2
  /\ main' = IF NumPlayers = 1 THEN "draw" ELSE main
  /\ UNCHANGED <<inst, spShip, bullet_list, counters, atomics, app, todo,
                 dataVars, found, pObject, history, shown>>

ResizeToOthers == ResizeTo(1 .. NumPlayers - 1)
Resize == ResizeTo(1 .. NumPlayers)

FindPlayer ==
  /\ main = "players" /\ player_list # <<>> /\ found["main"] = Idle
  /\ FindInstance("main")
  /\ UNCHANGED <<inst, pointers, counters, atomics, app, mainVars, dataVars,
                 pObject, history, shown>>

AddPlayer ==
  /\ main = "players" /\ found["main"] # Idle
  /\ SetFlag("main")
  /\ player_list' = [player_list EXCEPT ![at] = found["main"]]
  /\ found' = [found EXCEPT !["main"] = Idle]
  /\ at' = IF at = NumPlayers THEN 1 ELSE at + 1
  /\ main' = IF at = NumPlayers THEN "draw" ELSE main
  /\ UNCHANGED <<spShip, bullet_list, counters, atomics, app, todo, dataVars,
                 history, shown>>

(* spawnAsteroid and spawnLives. *)
FindSpawned ==
  /\ main = "create" /\ found["main"] = Idle
  /\ FindInstance("main")
  /\ UNCHANGED <<inst, pointers, counters, atomics, app, mainVars, dataVars,
                 pObject, history, shown>>

Spawn ==
  /\ main = "create" /\ found["main"] # Idle
  /\ SetFlag("main")
  /\ found' = [found EXCEPT !["main"] = Idle]
  /\ todo' = Tail(todo)
  /\ main' = IF Len(todo) = 1 THEN "fire" ELSE main
  /\ UNCHANGED <<pointers, counters, atomics, app, at, dataVars, history,
                 shown>>

(* The space bar: gameObjInstCreate and emplace_back of what it returns,   *)
(* also of the null pointer of a full pool.                                *)
Fire ==
  /\ main = "fire" /\ found["main"] = Idle
  /\ \/ main' = "collide" /\ at' = 1 /\ UNCHANGED <<found, fired>>
     \/ /\ fired < MaxShots /\ fired' = fired + 1
        /\ FindInstance("main")
        /\ UNCHANGED <<main, at>>
  /\ UNCHANGED <<inst, pointers, counters, atomics, app, todo, dataVars,
                 pObject, spawns, mixed, shown>>

FillBullet ==
  /\ main = "fire" /\ found["main"] # Idle
  /\ SetFlag("main")
  /\ main' = "append"
  /\ UNCHANGED <<pointers, counters, atomics, app, todo, at, dataVars, found,
                 history, shown>>

AppendBullet ==
  /\ main = "append"
  /\ UpdateBullets("main", Append(bullet_list, found["main"]))
  /\ found' = [found EXCEPT !["main"] = Idle]
  /\ main' = "collide" /\ at' = 1
  /\ UNCHANGED <<inst, spShip, player_list, counters, atomics, todo, dataVars,
                 pObject, history, shown>>

(* What the asteroid or pickup at this slot has to do with the ships and   *)
(* bullets it hits.  The loop goes on after the asteroid is destroyed, so  *)
(* that every ship it hits costs a life and every bullet scores; what it   *)
(* takes off bullet_list is the asteroid, not the bullet.                  *)
HitAsteroid(ships, bullets, destroyed) ==
  /\ sShipLives' = sShipLives - Cardinality(ships)
  /\ sScore' = sScore + Cardinality(bullets)
  /\ onValueChange' = TRUE
  /\ inst' = Destroyed(destroyed)
  /\ IF bullets = {} THEN UNCHANGED <<bullet_list, app>>
     ELSE UpdateBullets("main", Unlisted({at}))

CollideOnlyAsteroid(ships, bullets) == HitAsteroid(ships, bullets, {at})
CollideAsteroid(ships, bullets) == HitAsteroid(ships, bullets, bullets \cup {at})

CollideLives(ships) ==
  /\ sShipLives' = sShipLives + Cardinality(ships)
  /\ inst' = Destroyed({at})
  /\ UNCHANGED <<sScore, onValueChange, bullet_list, app>>

Collide ==
  /\ main = "collide"
  /\ \/ /\ inst[at] = "asteroid"
        /\ \E ships \in SUBSET Active("ship"), bullets \in SUBSET Active("bullet") :
             /\ ships \cup bullets # {}
             /\ CollideAsteroid(ships, bullets)
     \/ /\ inst[at] = "lives"
        /\ \E ships \in SUBSET Active("ship") \ {{}} : CollideLives(ships)
     \/ UNCHANGED <<inst, counters, bullet_list, app>>
  /\ at' = IF at = Slots THEN 1 ELSE at + 1
  /\ main' = IF at = Slots THEN "bounds" ELSE main
  /\ UNCHANGED <<spShip, player_list, atomics, todo, dataVars, found, pObject,
                 history, shown>>

(* Bullets outside the window: off bullet_list and destroyed. *)
LeaveBounds(bullets, destroyed) ==
  /\ main = "bounds"
  /\ IF bullets = {} THEN UNCHANGED <<bullet_list, app>>
     ELSE UpdateBullets("main", Unlisted(bullets))
  /\ inst' = Destroyed(destroyed)
  /\ main' = "draw"
  /\ UNCHANGED <<spShip, player_list, counters, atomics, todo, at, dataVars,
                 found, pObject, history, shown>>

BoundsOfListed(bullets) ==
  LeaveBounds(bullets, {b \in bullets : \E k \in DOMAIN bullet_list : bullet_list[k] = b})
Bounds(bullets) == LeaveBounds(bullets, bullets)

(* GameStateAsteroidsDraw: the score and the lives are printed whenever    *)
(* they have changed.                                                      *)
Draw ==
  /\ main = "draw"
  /\ shown' = IF onValueChange THEN [score |-> sScore, lives |-> sShipLives] ELSE shown
  /\ onValueChange' = FALSE
  /\ main' = "frame"
  /\ UNCHANGED <<inst, pointers, sShipLives, sScore, atomics, app, todo, at,
                 dataVars, found, pObject, history>>

(* GameStateAsteroidsFree loops to sGameObjInstNum, which is always 0. *)
Freed == Destroyed(1 .. 0)

(* The window is closed; the threads end with the program. *)
Quit ==
  /\ main = "frame"
  /\ inst' = Freed
  /\ app' = "quit"
  /\ UNCHANGED <<pointers, counters, atomics, mainVars, dataVars, found,
                 pObject, history, shown>>

-----------------------------------------------------------------------------
(* ConnectToServer, the part that matters here, and AsteroidsDataTransfer. *)

Connect ==
  /\ ~av_connected /\ ~av_start
  /\ av_connected' = TRUE
  /\ UNCHANGED <<inst, pointers, counters, av_start, app, mainVars, dataVars,
                 found, pObject, history, shown>>

SendPlayers ==
  /\ data = "spin" /\ av_connected /\ av_start
  /\ data' = "receive"
  /\ UNCHANGED <<inst, pointers, counters, atomics, app, mainVars, row, player,
                 found, pObject, history, shown>>

(* The timeout of recvfrom, or a table of the relay. *)
Timeout ==
  /\ data = "receive"
  /\ data' = "spin"
  /\ UNCHANGED <<inst, pointers, counters, atomics, app, mainVars, row, player,
                 found, pObject, history, shown>>

ReceivePlayers ==
  /\ data = "receive"
  /\ data' = "rows"
  /\ UNCHANGED <<inst, pointers, counters, atomics, app, mainVars, row, player,
                 found, pObject, history, shown>>

(* Any row of the table may say that its player shoots. *)
ReceiveRow ==
  /\ data = "rows"
  /\ \/ row > Len(player_list) /\ data' = "spin" /\ row' = 1
     \/ row <= Len(player_list) /\ row' = row + 1 /\ UNCHANGED data
     \/ /\ row <= Len(player_list) /\ player_list[row] # NULL
        /\ data' = "shots" /\ UNCHANGED row
  /\ UNCHANGED <<inst, pointers, counters, atomics, app, mainVars, player,
                 found, pObject, history, shown>>

(* One shooting row makes every known player shoot. *)
FindShot ==
  /\ data = "shots" /\ found["data"] = Idle
  /\ IF player > Len(player_list)
     THEN data' = "rows" /\ row' = row + 1 /\ player' = 1 /\ UNCHANGED <<found, fired>>
     ELSE /\ UNCHANGED <<data, row>>
          /\ IF player_list[player] = NULL
             THEN player' = player + 1 /\ UNCHANGED <<found, fired>>
             ELSE /\ fired < MaxShots /\ fired' = fired + 1
                  /\ FindInstance("data")
                  /\ UNCHANGED player
  /\ UNCHANGED <<inst, pointers, counters, atomics, app, mainVars, pObject,
                 spawns, mixed, shown>>

FillShot ==
  /\ data = "shots" /\ found["data"] # Idle
  /\ SetFlag("data")
  /\ data' = "append"
  /\ UNCHANGED <<pointers, counters, atomics, app, mainVars, row, player,
                 found, history, shown>>

AppendShot ==
  /\ data = "append"
  /\ UpdateBullets("data", Append(bullet_list, found["data"]))
  /\ found' = [found EXCEPT !["data"] = Idle]
  /\ data' = "shots" /\ player' = player + 1
  /\ UNCHANGED <<inst, spShip, player_list, counters, atomics, mainVars, row,
                 pObject, history, shown>>

-----------------------------------------------------------------------------
InitMultiPlayer == Resize \/ FindPlayer \/ AddPlayer
FireBullet == Fire \/ FillBullet \/ AppendBullet
MainThread ==
  \/ GameStateMgrInit \/ Start \/ Update \/ Offline \/ Disconnect \/ Wait \/ InitMultiPlayer
  \/ FindSpawned \/ Spawn \/ FireBullet \/ SetObject("main") \/ Collide
  \/ \E bullets \in SUBSET Active("bullet") : Bounds(bullets)
  \/ Draw

DataThread ==
  \/ SendPlayers \/ Timeout \/ ReceivePlayers \/ ReceiveRow
  \/ FindShot \/ SetObject("data") \/ FillShot \/ AppendShot

Next == app = "runs" /\ (MainThread \/ Quit \/ Connect \/ DataThread)

Spec == Init /\ [][Next]_vars

(* What the data thread writes into this slot, or has written, is not only *)
(* the velocity of a bullet: player_list points to it, so that each table  *)
(* moves it, or the two threads have mixed two objects in it.              *)
Steered(s) == \E p \in {player_list, mixed} : \E i \in DOMAIN p : p[i] = s

(* The main loop runs: the fairness of MainThread, which is enabled as     *)
(* long as the program runs, in a form that TLC judges quickly.  A bullet  *)
(* that nobody steers keeps its velocity, and leaves the window in some    *)
(* frame.  The data thread may stop for ever, as when its sendto fails.    *)
progress == <<mainVars, found["main"], pObject["main"] = Unwritten>>
MainLoops == []<>(app # "runs") \/ []<><<progress' # progress>>_vars

Leaves(s) ==
  /\ main = "bounds" /\ app = "runs" /\ ~Steered(s)
  /\ \E bullets \in SUBSET Active("bullet") : s \in bullets /\ Bounds(bullets)

FairSpec == Spec /\ MainLoops /\ \A s \in Slot : SF_vars(Leaves(s))

-----------------------------------------------------------------------------
(* Properties.                                                             *)

(* The own ship, which both threads read through spShip without a lock,    *)
(* stays an instance of the pool and a ship whatever is destroyed and      *)
(* whatever the two threads create at once.                                *)
ShipKept == main \notin {"manager", "start"} => spShip \in Slot /\ inst[spShip] = "ship"

(* Every hit that scored has cost a bullet of its own: no bullet scores    *)
(* against two asteroids, whatever the threads do at once, but for the     *)
(* shots whose slot got an object of the main thread as well.  Such a shot *)
(* may score twice: the main loop destroys the slot before the data thread *)
(* has set its flag, which makes it a bullet again.                        *)
ScoreEarned == sScore + Cardinality(Active("bullet")) <= fired + Len(mixed)

(* After each frame the printed score is the score: no hit of any thread's *)
(* bullet goes unprinted.                                                  *)
ScoreShown == main = "frame" /\ shown # Unprinted => shown.score = sScore

(* Every point was earned with a bullet, and is shown.                     *)
ScoreTrue == ScoreEarned /\ ScoreShown

(* A bullet that nobody steers gives its slot back, even one that a race   *)
(* has dropped from bullet_list, as long as the game goes on.              *)
BulletsLeave ==
  \A s \in Slot :
    inst[s] = "bullet" ~> inst[s] # "bullet" \/ Steered(s) \/ Over \/ app # "runs"

=============================================================================
