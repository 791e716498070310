---------------------------- MODULE SaveUsFrame ----------------------------
(***************************************************************************)
(* One program of "2.0 Save Us" from main to its end: the server, whose    *)
(* player is alone.  SaveUsObjects lets the steps of a frame happen in any *)
(* order and at any place; here a frame is one action, whose passes over   *)
(* the pool follow Game::Update in game/state_ingame.cpp: input, a new     *)
(* asteroid, motion, the update of every kind of object, collisions in the *)
(* order of the slots.                                                     *)
(*                                                                         *)
(* Places are numbers on one axis and the ship faces one way or the other; *)
(* velocities are per millisecond, and what is smaller than a unit is      *)
(* rounded either way.  A frame lasts some halves of a millisecond, of     *)
(* which game::update drops the odd one, and TimeMgr does not.  Of a       *)
(* particle only its slot is left.  Scores and a second halving of an      *)
(* asteroid are left to SaveUsObjects, the end of the game to SaveUsClock. *)
(***************************************************************************)
EXTENDS Integers, FiniteSets, FiniteSetsExt

CONSTANTS
  GAME_OBJ_INST_NUM_MAX, \* slots of the pool
  WinMax,            \* gAEWinMaxX; gAEWinMinX is 0
  ShipMargin,        \* SHIP_SIZE
  AstMargin,         \* AST_SIZE_MAX
  Accel,             \* SHIP_ACCEL_FORWARD
  SpeedLimit,        \* AST_VEL_MAX * 2
  posOffset,         \* of astCreate: how far from its source a piece starts
  velOffset,         \* and by how much their velocities differ
  BULLET_SPEED,
  BombRadius,        \* BOMB_RADIUS
  ShotLife,          \* BOMB_LIFE and MISSILE_LIFE, in milliseconds
  Inmortal,          \* inmortal_timer, in halves of a millisecond
  SHIP_INITIAL_NUM,  \* hits the ship survives
  sAstNum,           \* asteroids the server keeps up
  Exhaust,           \* the numbers of particles that an exhaust may have
  Explosion,         \* and those that an explosion may have
  MaxFrame,          \* bound on the length of a frame, in halves of a millisecond
  Players            \* bound: the keys a player uses, one set for each behaviour

Keys == {"UP", "DOWN", "LEFT", "RIGHT", "SPACE", "Z", "X"}

\* Those of which Game::Update asks whether they were up in the frame before
Triggers == {"SPACE", "Z"}

ASSUME FrameAssumption ==
  /\ GAME_OBJ_INST_NUM_MAX > sAstNum /\ sAstNum \in Nat
  /\ {ShipMargin, AstMargin, Accel, SpeedLimit, posOffset, velOffset,
      BombRadius, SHIP_INITIAL_NUM} \subseteq Nat
  /\ {GAME_OBJ_INST_NUM_MAX, WinMax, BULLET_SPEED, ShotLife, Inmortal, MaxFrame}
       \subseteq Nat \ {0}
  /\ ShipMargin <= AstMargin
  /\ Exhaust \subseteq Nat /\ Explosion \subseteq Nat
  /\ Players \subseteq SUBSET Keys

\* The most milliseconds a frame lasts, and what no ship is faster than: its
\* dampening forgets what a frame can add
Longest == MaxFrame \div 2
ShipSpeed == Accel * Longest

\* A piece of the fastest asteroid
PieceSpeed == SpeedLimit + 1 + velOffset

(* A frame is too short to cross the whole range in it.                    *)
ASSUME ShortFrames ==
  /\ ShipSpeed * Longest <= WinMax + 2 * ShipMargin
  /\ PieceSpeed * Longest + posOffset <= WinMax + 2 * AstMargin

Slots  == 1 .. GAME_OBJ_INST_NUM_MAX
Null   == 0
Window(margin) == -margin .. WinMax + margin

Shot == {"bullet", "bomb", "missile"}
Free == [type |-> "free", x |-> 0, vel |-> 0, dir |-> 1, scale |-> 0,
         life |-> 0, target |-> Null]
Instance(type, x, vel, dir) ==
  [type |-> type, x |-> x, vel |-> vel, dir |-> dir, scale |-> 0,
   life |-> ShotLife, target |-> Null]
Particle == [Free EXCEPT !.type = "particle"]

VARIABLES
  phase,      \* how far main has come
  player,     \* the keys the player of this behaviour uses
  key_states, \* which of the Triggers were down in the last frame
  world,      \* the game, see World
  inmortal,   \* player_inmortal
  timer,      \* mGame.timer, while the player is immortal
  whole       \* history: the last frame lasted a millisecond

vars == <<phase, player, key_states, world, inmortal, timer, whole>>

Object == [type : Shot \cup {"ship", "asteroid"}, x : Int, vel : Int,
           dir : {-1, 1}, scale : {0, 1}, life : 0 .. ShotLife,
           target : Slots \cup {Null}]
World == [pool : [Slots -> Object \cup {Free, Particle}], spShip : Slots \cup {Null},
          sShipCtr : -1 .. SHIP_INITIAL_NUM, hit : BOOLEAN]

\* What flies freely, and cannot get further than a frame away from where the
\* program looks after it
Near(o) ==
  CASE o.type = "ship"     -> o.vel \in -ShipSpeed .. ShipSpeed
    [] o.type = "asteroid" -> o.vel \in -PieceSpeed .. PieceSpeed
    [] o.type = "bullet"   -> o.x \in Window(AstMargin) /\ o.vel \in {-BULLET_SPEED, BULLET_SPEED}
    [] OTHER               -> o.life > 0 \/ o \in {Free, Particle}

TypeOK ==
  /\ phase \in {"main", "config", "load", "network", "socket", "init", "play", "over", "crashed"}
  /\ player \in Players
  /\ key_states \subseteq player \cap Triggers
  /\ world \in World
  /\ \A s \in Slots : Near(world.pool[s])
  /\ inmortal \in BOOLEAN
  /\ timer \in 0 .. Inmortal - 1
  /\ whole \in BOOLEAN

-----------------------------------------------------------------------------
(* The pool.                                                               *)

Of(pool, type) == {s \in Slots : pool[s].type = type}
Asteroids(pool) == Of(pool, "asteroid")
Unused(pool) == Of(pool, "free")

gameObjInstCreate(pool, o) ==
  IF Unused(pool) = {} THEN pool ELSE [pool EXCEPT ![Min(Unused(pool))] = o]

gameObjInstDestroy(pool, s) == [pool EXCEPT ![s] = Free]

\* The particles take the lowest unused slots, as long as there are any
sparkCreate(pool, counts) ==
  {[s \in Slots |->
      IF s \in Unused(pool) /\ Cardinality({u \in Unused(pool) : u < s}) < count
      THEN Particle ELSE pool[s]] : count \in counts}

Asteroid(x, vel, scale) == [Instance("asteroid", x, vel, 1) EXCEPT !.scale = scale]

\* Three pieces around the source, and the source shrinks, unless the pool is
\* full by then
Pieces(pool, a) ==
  LET o      == pool[a]
      Piece(side) == Asteroid(o.x + side * posOffset, o.vel + side * velOffset, 0)
      pieces == gameObjInstCreate(
                  gameObjInstCreate(gameObjInstCreate(pool, Piece(-1)), Piece(1)),
                  Piece(-1))
  IN  IF Cardinality(Unused(pool)) < 3 THEN pieces
      ELSE [pieces EXCEPT ![a] = Piece(1)]

\* astCreate(pSrc)
Split(pool, a) == {Pieces(sparks, a) : sparks \in sparkCreate(pool, Explosion)}

-----------------------------------------------------------------------------
(* Input.  pressed are the keys that are down, triggered those that were   *)
(* up in the frame before; dt is 0 or more milliseconds.                   *)

\* glm::pow(damp, dt) with a dampening that forgets half of the velocity
Dampened(vel) == IF vel >= 0 THEN vel \div 2 ELSE -((-vel) \div 2)

Thrust(o, pressed, dt) ==
  LET up   == IF "UP" \in pressed THEN Dampened(o.vel + o.dir * Accel * dt) ELSE o.vel
      down == IF "DOWN" \in pressed THEN Dampened(up - o.dir * Accel * dt) ELSE up
  IN  IF dt = 0 THEN o ELSE [o EXCEPT !.vel = down]

\* a turn need not bring the ship to face the other way
Turns(o, pressed, dt) ==
  IF pressed \cap {"LEFT", "RIGHT"} # {} /\ dt > 0
  THEN {o, [o EXCEPT !.dir = -@]} ELSE {o}

Fire(pool, ship, pressed, triggered) ==
  LET bullet  == IF "SPACE" \in triggered
                 THEN gameObjInstCreate(pool, Instance("bullet", ship.x,
                                                       ship.dir * BULLET_SPEED, ship.dir))
                 ELSE pool
      bomb    == IF "Z" \in triggered /\ Of(bullet, "bomb") = {}
                 THEN gameObjInstCreate(bullet, Instance("bomb", ship.x, 0, 1))
                 ELSE bullet
  IN  IF "X" \in pressed
      THEN gameObjInstCreate(bomb, Instance("missile", ship.x, ship.vel, ship.dir))
      ELSE bomb

Burn(pool, pressed) ==
  IF "UP" \in pressed THEN sparkCreate(pool, Exhaust) ELSE {pool}

Input(w, pressed, triggered, dt) ==
  IF w.spShip = Null THEN {w.pool}
  ELSE UNION {{Fire([pool EXCEPT ![w.spShip] = ship], ship, pressed, triggered) :
                 ship \in Turns(Thrust(w.pool[w.spShip], pressed, dt), pressed, dt)} :
              pool \in Burn(w.pool, pressed)}

-----------------------------------------------------------------------------
(* The new asteroid, motion, and the update of each object.                *)

\* along the top or at the left edge
Edge == -AstMargin .. WinMax

\* Once AST_CREATE_DELAY is over
Spawned(pool) ==
  {pool} \cup
  IF Cardinality(Asteroids(pool)) >= sAstNum THEN {}
  ELSE {gameObjInstCreate(pool, Asteroid(x, vel, 1)) : x \in Edge, vel \in {-1, 1}}

Physics(pool, dt) ==
  [s \in Slots |-> [pool[s] EXCEPT !.x = IF pool[s] = Free THEN @ ELSE @ + pool[s].vel * dt]]

\* Mutant: only the upper end wraps
WrapAbove(f, f0, f1) == IF f > f1 THEN f - (f1 - f0) ELSE f

wrap(f, f0, f1) ==
  LET g == IF f < f0 THEN f + (f1 - f0) ELSE f
  IN  IF g > f1 THEN g - (f1 - f0) ELSE g

Wrapped(o, margin) == [o EXCEPT !.x = wrap(@, -margin, WinMax + margin)]

WrapShips(pool) ==
  [s \in Slots |-> IF s \in Of(pool, "ship") THEN Wrapped(pool[s], ShipMargin) ELSE pool[s]]

Sign(n) == IF n > 0 THEN 1 ELSE IF n < 0 THEN -1 ELSE 0
Abs(n) == IF n < 0 THEN -n ELSE n

\* the pull towards the ship is less than a unit
Pulled(o, ships, dt) ==
  IF ships = {} \/ dt = 0 THEN {o.vel}
  ELSE {o.vel, o.vel + Sign((CHOOSE s \in ships : TRUE).x - o.x)}

\* what is above the limit shrinks, to less than a unit
Unlimited(vel) == {vel}
Limited(vel) ==
  IF Abs(vel) > SpeedLimit THEN {Sign(vel) * SpeedLimit, Sign(vel) * (SpeedLimit + 1)}
  ELSE {vel}

UpdateAsteroid(o, ships, dt) ==
  {[Wrapped(o, AstMargin) EXCEPT !.vel = vel] :
     vel \in UNION {Limited(v) : v \in Pulled(Wrapped(o, AstMargin), ships, dt)}}

OnScreen(o) == o.x \in Window(AstMargin)

UpdateBullet(o) == {IF OnScreen(o) THEN o ELSE Free}

\* Mutant: the life is not reduced
Immortal(o, dt) == o
Aged(o, dt) == [o EXCEPT !.life = IF @ < dt THEN 0 ELSE @ - dt]

UpdateBomb(o, dt) == {IF Aged(o, dt).life = 0 THEN Free ELSE Aged(o, dt)}

\* missileAcquireTarget: the closest asteroid of the cone in front of the missile,
\* which on one axis may hold any of those ahead
missileAcquireTarget(pool, o) ==
  LET ahead == {s \in Asteroids(pool) : Sign(pool[s].x - o.x) = o.dir}
      Distance(s) == Abs(pool[s].x - o.x)
      Closest(cone) == {s \in cone : \A t \in cone : Distance(s) <= Distance(t)}
  IN  {Null} \cup UNION {Closest(cone) : cone \in SUBSET ahead}

\* Mutant: a target is valid as long as its slot is in use
ValidInUse(pool, target) == target # Null /\ pool[target] # Free
Valid(pool, target) == target # Null /\ pool[target].type = "asteroid"

UpdateMissile(pool, o, dt) ==
  LET aged    == Aged(o, dt)
      targets == IF Valid(pool, o.target) THEN {o.target} ELSE missileAcquireTarget(pool, o)
      Turned(t) == {[aged EXCEPT !.target = t, !.dir = d, !.vel = IF dt = 0 THEN aged.vel ELSE d] :
                      d \in IF t = Null THEN {o.dir} ELSE {-1, 1}}
  IN  IF aged.life = 0 THEN {Free} ELSE UNION {Turned(t) : t \in targets}

UpdateObject(pool, s, dt) ==
  LET o     == pool[s]
      ships == {pool[i] : i \in Of(pool, "ship")}
  IN  CASE o.type = "asteroid" -> UpdateAsteroid(o, ships, dt)
        [] o.type = "bullet"   -> UpdateBullet(o)
        [] o.type = "bomb"     -> UpdateBomb(o, dt)
        [] o.type = "missile"  -> UpdateMissile(pool, o, dt)
        [] o.type = "particle" -> {o, Free}  \* it is small enough by now, or not
        [] OTHER               -> {o}

\* the ring of a bomb, the exhaust of a missile
Trail(pool, s) ==
  IF pool[s].type \in {"bomb", "missile"} THEN sparkCreate(pool, Exhaust) ELSE {pool}

Updated(pool, dt) ==
  LET Each(q, n) == UNION {Trail([q EXCEPT ![n] = o], n) : o \in UpdateObject(q, n, dt)}
      Pools[n \in 0 .. GAME_OBJ_INST_NUM_MAX] ==
        IF n = 0 THEN {pool} ELSE UNION {Each(q, n) : q \in Pools[n - 1]}
  IN  Pools[GAME_OBJ_INST_NUM_MAX]

-----------------------------------------------------------------------------
(* Collisions, slot by slot: a set of worlds.                              *)

\* half the side of an asteroid
Meets(x, o) == Abs(x - o.x) <= o.scale

\* The asteroid a bullet or missile meets bursts if it is of the smallest size;
\* else a missile splits it, and a bullet may
Struck(pool, s, a) ==
  LET sparks == sparkCreate(pool, Explosion)
  IN  IF pool[a].scale = 0 THEN {gameObjInstDestroy(p, a) : p \in sparks}
      ELSE (IF pool[s].type = "missile" THEN {} ELSE sparks)
             \cup UNION {Split(p, a) : p \in sparks}

\* it meets only the first one, and is gone
HitByShot(w, s) ==
  LET met == {a \in Asteroids(w.pool) : Meets(w.pool[s].x, w.pool[a])}
  IN  IF met = {} THEN {w}
      ELSE {[w EXCEPT !.pool = gameObjInstDestroy(pool, s)] :
              pool \in Struck(w.pool, s, Min(met))}

\* a bomb goes on to the next slot, which may hold a piece of the last asteroid
HitByBomb(w, s) ==
  LET Reach(pool, a) ==
        IF pool[a].type # "asteroid" \/ Abs(pool[a].x - pool[s].x) > BombRadius THEN {pool}
        ELSE IF pool[a].scale = 0 THEN sparkCreate(gameObjInstDestroy(pool, a), Explosion)
        ELSE Split(pool, a)
      Pools[a \in 0 .. GAME_OBJ_INST_NUM_MAX] ==
        IF a = 0 THEN {w.pool} ELSE UNION {Reach(pool, a) : pool \in Pools[a - 1]}
  IN  {[w EXCEPT !.pool = pool] : pool \in Pools[GAME_OBJ_INST_NUM_MAX]}

\* The ship is back in the middle, or lost
HitShip(w, s) ==
  LET lives == w.sShipCtr - 1
      Ship  == [w.pool[s] EXCEPT !.x = 0, !.vel = 0, !.dir = 1]
  IN  {[pool     |-> IF lives < 0 THEN gameObjInstDestroy(sparks, s)
                                  ELSE [sparks EXCEPT ![s] = Ship],
        spShip   |-> IF lives < 0 THEN Null ELSE w.spShip,
        sShipCtr |-> lives, hit |-> TRUE] : sparks \in sparkCreate(w.pool, Explosion)}

Collide(w, s, spared) ==
  LET o == w.pool[s]
  IN  CASE o.type \in {"bullet", "missile"} -> HitByShot(w, s)
        [] o.type = "bomb" -> HitByBomb(w, s)
        [] /\ o.type = "ship" /\ ~spared
           /\ \E a \in Asteroids(w.pool) : Meets(o.x, w.pool[a]) -> HitShip(w, s)
        [] OTHER -> {w}

Collided(w, spared) ==
  LET Worlds[n \in 0 .. GAME_OBJ_INST_NUM_MAX] ==
        IF n = 0 THEN {w} ELSE UNION {Collide(v, n, spared) : v \in Worlds[n - 1]}
  IN  Worlds[GAME_OBJ_INST_NUM_MAX]

-----------------------------------------------------------------------------
(* main: create, then update until the window is closed, then destroy.     *)

EmptyWorld == [pool |-> [s \in Slots |-> Free], spShip |-> Null,
               sShipCtr |-> SHIP_INITIAL_NUM, hit |-> FALSE]

Init ==
  /\ phase = "main"
  /\ player \in Players
  /\ key_states = {}
  /\ world = EmptyWorld
  /\ inmortal = FALSE
  /\ timer = 0
  /\ whole = FALSE

Enter(from, to) ==
  /\ phase = from /\ phase' = to
  /\ UNCHANGED <<player, key_states, world, inmortal, timer, whole>>

\* nobody looks at the result of window::create, and the shader needs a window
CreateWindow == Enter("main", "config") \/ Enter("main", "crashed")

\* without a line of an address in config.config, substr throws
ReadConfig == Enter("config", "load") \/ Enter("config", "crashed")

Load == Enter("load", "network")

\* the asserts of network_create and, with an empty address if there was no
\* file, of server::Start
network_create == Enter("network", "socket") \/ Enter("network", "crashed")
StartNetwork == Enter("socket", "init") \/ Enter("socket", "crashed")

\* Game::Init: the ship, and sAstNum asteroids
InitGame ==
  /\ phase = "init" /\ phase' = "play"
  /\ \E f \in [1 .. sAstNum -> Edge], vel \in [1 .. sAstNum -> {-1, 1}] :
       LET Pool[n \in 0 .. sAstNum] ==
             IF n = 0 THEN gameObjInstCreate(EmptyWorld.pool, Instance("ship", 0, 0, 1))
             ELSE gameObjInstCreate(Pool[n - 1], Asteroid(f[n], vel[n], 1))
       IN  world' = [EmptyWorld EXCEPT !.pool = Pool[sAstNum], !.spShip = 1]
  /\ UNCHANGED <<player, key_states, inmortal, timer, whole>>

TimerAfter(t) == IF t >= Inmortal THEN 0 ELSE t

\* The passes of Game::Update, whichever of the sets of keys is pressed; an
\* immortal player's ship is spared
Passes(choices, dt, spared) ==
  LET fired   == UNION {Input(world, keys, keys \ key_states, dt) : keys \in choices}
      spawned == UNION {Spawned(pool) : pool \in fired}
      updated == UNION {Updated(WrapShips(Physics(pool, dt)), dt) : pool \in spawned}
  IN  world' \in UNION {Collided([world EXCEPT !.pool = pool, !.hit = FALSE], spared) :
                           pool \in updated}

Frame(length) ==
  LET t      == IF inmortal THEN timer + length ELSE timer
      spared == inmortal /\ t < Inmortal
  IN  /\ phase = "play"
      /\ key_states' \in SUBSET (player \cap Triggers)
      /\ Passes({keys \in SUBSET player : keys \cap Triggers = key_states'},
                length \div 2, spared)
      /\ timer' = IF inmortal THEN TimerAfter(t) ELSE timer
      /\ inmortal' = (spared \/ world'.hit)
      /\ whole' = (length > 1)
      /\ UNCHANGED <<phase, player>>

\* the window is closed, and the objects are gone with the program
Destroy ==
  /\ phase = "play" /\ phase' = "over"
  /\ world' = EmptyWorld /\ key_states' = {} /\ inmortal' = FALSE
  /\ timer' = 0 /\ whole' = FALSE
  /\ UNCHANGED player

Next ==
  \/ CreateWindow \/ ReadConfig \/ Load \/ network_create \/ StartNetwork \/ InitGame
  \/ \E length \in 1 .. MaxFrame : Frame(length)
  \/ Destroy

Spec == Init /\ [][Next]_vars

(* While the program plays, again and again a frame lasts a millisecond:   *)
(* fairness of the longer frames, in a form that TLC need not look for     *)
(* their successors to judge.                                              *)
FairSpec == Spec /\ ([]<><<whole'>>_vars \/ <>[](phase # "play"))

-----------------------------------------------------------------------------
(* Properties.                                                             *)

(* No ship and no asteroid is ever left outside the range that wraps, and  *)
(* wrap adds the range only once: neither thrust nor the pull towards the  *)
(* ship nor the speed that the pieces of an asteroid get lets one escape.  *)
(* A piece starts at most posOffset outside, until the next frame.         *)
InWindow ==
  \A s \in Slots :
    LET o == world.pool[s]
    IN  /\ o.type = "ship" => o.x \in Window(ShipMargin)
        /\ o.type = "asteroid" /\ o.scale = 1 => o.x \in Window(AstMargin)
        /\ o.type = "asteroid" => o.x \in Window(AstMargin + posOffset)

(* "if the target is no longer valid, reacquire" (state_ingame.cpp:431): a *)
(* missile keeps a pointer into the pool while slots are freed and used    *)
(* again.  It only ever follows an asteroid; until it looks again its slot *)
(* may be free or hold a particle, which is all that a collision leaves,   *)
(* but never what is fired in a later frame.                               *)
MissileAims ==
  \A s \in Of(world.pool, "missile") :
    LET t == world.pool[s].target
    IN  t # Null => world.pool[t].type \in {"asteroid", "free", "particle"}

(* Every shot gives its slot back, whatever it hits or misses.             *)
ShotsLeave ==
  \A s \in Slots : []<>(world.pool[s].type \notin Shot)
=============================================================================
