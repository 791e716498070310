------------------------- MODULE SaveUsFrame_proofs -------------------------
(* The frames of one program, for any number of slots, any window, any     *)
(* speeds that a frame is too short for, and any keys: what the passes of  *)
(* Game::Update leave to each other.                                       *)
EXTENDS SaveUsFrame, NaturalsInduction, WellFoundedInduction, TLAPS

ShipRange == WinMax + 2 * ShipMargin
AsteroidRange == WinMax + 2 * AstMargin

LEMMA ConstantFacts ==
  /\ GAME_OBJ_INST_NUM_MAX \in Nat /\ sAstNum \in Nat /\ GAME_OBJ_INST_NUM_MAX > sAstNum
  /\ {ShipMargin, AstMargin, Accel, SpeedLimit, posOffset, velOffset,
      BombRadius, SHIP_INITIAL_NUM} \subseteq Nat
  /\ {WinMax, BULLET_SPEED, ShotLife, Inmortal, MaxFrame} \subseteq Nat \ {0}
  /\ ShipMargin <= AstMargin
  /\ Longest \in Nat /\ ShipSpeed \in Nat /\ PieceSpeed \in Nat
  /\ ShipRange \in Nat \ {0} /\ AsteroidRange \in Nat \ {0}
  /\ ShipSpeed * Longest <= ShipRange /\ PieceSpeed * Longest + posOffset <= AsteroidRange
  /\ Slots \subseteq Nat \ {0} /\ 1 \in Slots /\ Null = 0 /\ Null \notin Slots
<1>1. /\ GAME_OBJ_INST_NUM_MAX \in Nat /\ sAstNum \in Nat /\ GAME_OBJ_INST_NUM_MAX > sAstNum
      /\ {ShipMargin, AstMargin, Accel, SpeedLimit, posOffset, velOffset,
          BombRadius, SHIP_INITIAL_NUM} \subseteq Nat
      /\ {WinMax, BULLET_SPEED, ShotLife, Inmortal, MaxFrame} \subseteq Nat \ {0}
      /\ ShipMargin <= AstMargin
  BY FrameAssumption DEF FrameAssumption
<1>2. Longest \in Nat
  <2>1. MaxFrame \in Nat BY <1>1
  <2>2. MaxFrame \div 2 \in Nat BY <2>1
  <2>3. QED BY <2>2 DEF Longest
<1>3. ShipSpeed \in Nat
  <2>1. Accel \in Nat BY <1>1
  <2>2. Accel * Longest \in Nat BY <1>2, <2>1
  <2>3. QED BY <2>2 DEF ShipSpeed
<1>4. PieceSpeed \in Nat BY <1>1 DEF PieceSpeed
<1>5. ShipRange \in Nat \ {0} /\ AsteroidRange \in Nat \ {0}
  BY <1>1 DEF ShipRange, AsteroidRange
<1>6. ShipSpeed * Longest <= ShipRange /\ PieceSpeed * Longest + posOffset <= AsteroidRange
  BY ShortFrames DEF ShortFrames, ShipRange, AsteroidRange
<1>7. Slots \subseteq Nat \ {0} /\ 1 \in Slots /\ Null = 0 /\ Null \notin Slots
  BY <1>1 DEF Slots, Null
<1>8. QED BY <1>1, <1>2, <1>3, <1>4, <1>5, <1>6, <1>7

-----------------------------------------------------------------------------
(* Arithmetic. *)

LEMMA Products ==
  ASSUME NEW a \in Nat, NEW b \in Nat, NEW c \in Nat, NEW d \in Nat, a <= b, c <= d
  PROVE  a * c \in Nat /\ b * d \in Nat /\ a * c <= b * d
<1>1. a * c \in Nat /\ b * c \in Nat /\ b * d \in Nat OBVIOUS
<1>2. b * c = a * c + (b - a) * c /\ (b - a) * c \in Nat OBVIOUS
<1>3. b * d = b * c + b * (d - c) /\ b * (d - c) \in Nat OBVIOUS
<1>4. QED BY <1>1, <1>2, <1>3

(* How far a frame takes what is not faster than top.                      *)
LEMMA Way ==
  ASSUME NEW top \in Nat, NEW vel \in -top .. top, NEW dt \in 0 .. Longest
  PROVE  vel * dt \in Int /\ vel * dt \in -(top * Longest) .. top * Longest
<1>1. Longest \in Nat /\ dt \in Nat /\ dt <= Longest /\ top * Longest \in Nat
  BY ConstantFacts
<1>2. CASE vel >= 0
  <2>1. vel \in Nat /\ vel <= top BY <1>2
  <2>2. vel * dt \in Nat /\ vel * dt <= top * Longest BY <1>1, <2>1, Products
  <2>3. QED BY <1>1, <2>2
<1>3. CASE vel < 0
  <2>1. -vel \in Nat /\ -vel <= top BY <1>3
  <2>2. (-vel) * dt \in Nat /\ (-vel) * dt <= top * Longest BY <1>1, <2>1, Products
  <2>3. vel * dt = -((-vel) * dt) BY <1>1
  <2>4. QED BY <1>1, <2>2, <2>3
<1>4. QED BY <1>2, <1>3

(* wrap adds the range once, which is enough for what is at most a range   *)
(* away from it.                                                           *)
LEMMA Wraps ==
  ASSUME NEW margin \in Nat, NEW f \in Int,
         f >= -margin - (WinMax + 2 * margin), f <= WinMax + margin + (WinMax + 2 * margin)
  PROVE  wrap(f, -margin, WinMax + margin) \in Window(margin)
<1>1. WinMax \in Nat BY ConstantFacts
<1>2. QED BY <1>1 DEF wrap, Window

LEMMA WrapsToIntegers ==
  ASSUME NEW margin \in Nat, NEW f \in Int
  PROVE  wrap(f, -margin, WinMax + margin) \in Int
<1>1. WinMax \in Nat BY ConstantFacts
<1>2. QED BY <1>1 DEF wrap

(* Dampening forgets what a frame can add. *)
LEMMA Dampens ==
  ASSUME NEW vel \in Int, vel >= -(2 * ShipSpeed), vel <= 2 * ShipSpeed
  PROVE  Dampened(vel) \in -ShipSpeed .. ShipSpeed
<1>1. ShipSpeed \in Nat BY ConstantFacts
<1>2. CASE vel >= 0
  <2>1. Dampened(vel) = vel \div 2 BY <1>2 DEF Dampened
  <2>2. vel \div 2 \in 0 .. ShipSpeed BY <1>1, <1>2
  <2>3. QED BY <1>1, <2>1, <2>2
<1>3. CASE ~(vel >= 0)
  <2>1. Dampened(vel) = -((-vel) \div 2) BY <1>3 DEF Dampened
  <2>2. (-vel) \div 2 \in 0 .. ShipSpeed BY <1>1, <1>3
  <2>3. QED BY <1>1, <2>1, <2>2
<1>4. QED BY <1>2, <1>3

LEMMA Limits ==
  ASSUME NEW vel \in Int, NEW v \in Limited(vel)
  PROVE  v \in -(SpeedLimit + 1) .. SpeedLimit + 1
<1>1. SpeedLimit \in Nat BY ConstantFacts
<1>2. QED BY <1>1 DEF Limited, Abs, Sign

-----------------------------------------------------------------------------
(* Objects. *)

Things == Object \cup {Free, Particle}
Types == Shot \cup {"ship", "asteroid", "free", "particle"}

(* Where what wraps is between two frames. *)
Inside(o) ==
  /\ o.type = "ship" => o.x \in Window(ShipMargin)
  /\ o.type = "asteroid" => o.x \in Window(AstMargin + posOffset)
  /\ o.type = "asteroid" /\ o.scale = 1 => o.x \in Window(AstMargin)

(* An asteroid that may split yet is not faster than the limit, but for    *)
(* what is rounded.                                                        *)
Slow(o) ==
  o.type = "asteroid" /\ o.scale = 1 => o.vel \in -(SpeedLimit + 1) .. SpeedLimit + 1

Sound == {o \in Things : Near(o) /\ Inside(o) /\ Slow(o)}

LEMMA ThingFields ==
  ASSUME NEW o \in Things
  PROVE  /\ o.type \in Types /\ o.x \in Int /\ o.vel \in Int /\ o.dir \in {-1, 1}
         /\ o.scale \in {0, 1} /\ o.life \in 0 .. ShotLife /\ o.life \in Nat
         /\ o.target \in Slots \cup {Null}
         /\ o = Free <=> o.type = "free"
         /\ o = Particle <=> o.type = "particle"
<1>1. CASE o = Free
  BY <1>1, ConstantFacts DEF Free, Particle, Types
<1>2. CASE o \in Object
  BY <1>2, ConstantFacts DEF Object, Free, Particle, Types, Shot
<1>3. CASE o = Particle
  BY <1>3, ConstantFacts DEF Free, Particle, Types
<1>4. QED BY <1>1, <1>2, <1>3 DEF Things

LEMMA FreeSound ==
  /\ Free \in Things /\ Free \in Sound /\ Free.type = "free" /\ Free.target = Null
<1>1. Free \in Things BY DEF Things
<1>2. Free.type = "free" /\ Free.target = Null BY DEF Free
<1>3. Near(Free) /\ Inside(Free) /\ Slow(Free) BY <1>2 DEF Near, Inside, Slow
<1>4. QED BY <1>1, <1>2, <1>3 DEF Sound

LEMMA ParticleSound ==
  /\ Particle \in Things /\ Particle \in Sound
  /\ Particle.type = "particle" /\ Particle.target = Null
<1>1. Particle \in Things BY DEF Things
<1>2. Particle.type = "particle" /\ Particle.target = Null BY DEF Free, Particle
<1>3. Near(Particle) /\ Inside(Particle) /\ Slow(Particle) BY <1>2 DEF Near, Inside, Slow
<1>4. QED BY <1>1, <1>2, <1>3 DEF Sound

LEMMA ObjectFields ==
  ASSUME NEW o \in Object
  PROVE  /\ o.type \in Shot \cup {"ship", "asteroid"} /\ o.x \in Int /\ o.vel \in Int
         /\ o.dir \in {-1, 1} /\ o.scale \in {0, 1} /\ o.life \in 0 .. ShotLife
         /\ o.target \in Slots \cup {Null}
         /\ o = [type |-> o.type, x |-> o.x, vel |-> o.vel, dir |-> o.dir,
                 scale |-> o.scale, life |-> o.life, target |-> o.target]
BY DEF Object

LEMMA NotFree ==
  ASSUME NEW o \in Things, o.type \notin {"free", "particle"}
  PROVE  o \in Object
BY FreeSound, ParticleSound DEF Things

LEMMA Instances ==
  ASSUME NEW type \in Shot \cup {"ship", "asteroid"}, NEW x \in Int, NEW vel \in Int,
         NEW dir \in {-1, 1}
  PROVE  Instance(type, x, vel, dir)
           = [type |-> type, x |-> x, vel |-> vel, dir |-> dir, scale |-> 0,
              life |-> ShotLife, target |-> Null]
         /\ Instance(type, x, vel, dir) \in Object
<1>1. Instance(type, x, vel, dir)
        = [type |-> type, x |-> x, vel |-> vel, dir |-> dir, scale |-> 0,
           life |-> ShotLife, target |-> Null]
  BY DEF Instance, Free
<1>2. QED BY <1>1, ConstantFacts DEF Object

LEMMA NewShots ==
  ASSUME NEW type \in Shot, NEW x \in Int, NEW vel \in Int, NEW dir \in {-1, 1}
  PROVE  LET o == Instance(type, x, vel, dir)
         IN  o \in Object /\ o.type = type /\ o.x = x /\ o.vel = vel /\ o.life = ShotLife
BY Instances

LEMMA NewAsteroids ==
  ASSUME NEW x \in Int, NEW vel \in Int, NEW scale \in {0, 1}
  PROVE  LET o == Asteroid(x, vel, scale)
         IN  /\ o \in Object /\ o.type = "asteroid" /\ o.x = x /\ o.vel = vel
             /\ o.scale = scale /\ o.target = Null
<1>1. Instance("asteroid", x, vel, 1)
           = [type |-> "asteroid", x |-> x, vel |-> vel, dir |-> 1, scale |-> 0,
              life |-> ShotLife, target |-> Null]
  BY Instances
<1>2. Asteroid(x, vel, scale)
           = [type |-> "asteroid", x |-> x, vel |-> vel, dir |-> 1, scale |-> scale,
              life |-> ShotLife, target |-> Null]
  BY <1>1 DEF Asteroid
<1>3. QED BY <1>2, ConstantFacts DEF Object

(* What an asteroid must be to fly on. *)
LEMMA SoundAsteroids ==
  ASSUME NEW o \in Object, o.type = "asteroid", o.vel \in -PieceSpeed .. PieceSpeed,
         o.x \in Window(AstMargin + posOffset),
         o.scale = 1 => /\ o.x \in Window(AstMargin)
                        /\ o.vel \in -(SpeedLimit + 1) .. SpeedLimit + 1
  PROVE  o \in Sound
<1>1. Near(o) BY DEF Near
<1>2. Inside(o) BY DEF Inside
<1>3. Slow(o) BY DEF Slow
<1>4. QED BY <1>1, <1>2, <1>3 DEF Sound, Things

LEMMA SoundShips ==
  ASSUME NEW o \in Object, o.type = "ship", o.vel \in -ShipSpeed .. ShipSpeed,
         o.x \in Window(ShipMargin)
  PROVE  o \in Sound
<1>1. Near(o) BY DEF Near
<1>2. Inside(o) BY DEF Inside
<1>3. Slow(o) BY DEF Slow
<1>4. QED BY <1>1, <1>2, <1>3 DEF Sound, Things

LEMMA SoundShots ==
  ASSUME NEW o \in Object, o.type \in Shot, o.type # "bullet" => o.life > 0,
         o.type = "bullet" => /\ o.x \in Window(AstMargin)
                              /\ o.vel \in {-BULLET_SPEED, BULLET_SPEED}
  PROVE  o \in Sound
<1>1. Near(o)
  BY DEF Near, Shot
<1>2. o.type # "ship" /\ o.type # "asteroid" BY DEF Shot
<1>3. Inside(o) /\ Slow(o) BY <1>2 DEF Inside, Slow
<1>4. QED BY <1>1, <1>3 DEF Sound, Things

LEMMA Windows ==
  /\ \A x \in Window(ShipMargin) : x \in Window(AstMargin) /\ x \in Int
  /\ \A x \in Window(AstMargin) : x \in Window(AstMargin + posOffset) /\ x \in Int
  /\ 0 \in Window(ShipMargin) /\ Edge \subseteq Window(AstMargin)
BY ConstantFacts DEF Window, Edge

-----------------------------------------------------------------------------
(* Pools. *)

HasShip(pool, ship) == \A s \in Slots : pool[s].type = "ship" <=> s = ship

(* What is put into free slots; no ship is. *)
Grown(pool, q) ==
  \A s \in Slots : q[s] = pool[s] \/ (pool[s].type = "free" /\ q[s].type # "ship")

LEMMA ShipStays ==
  ASSUME NEW pool, NEW q, Grown(pool, q), NEW ship, HasShip(pool, ship)
  PROVE  HasShip(q, ship)
BY DEF Grown, HasShip

LEMMA GrowsOn ==
  ASSUME NEW pool, NEW q, NEW r, Grown(pool, q), Grown(q, r)
  PROVE  Grown(pool, r)
BY DEF Grown

LEMMA Least ==
  ASSUME NEW T, T \subseteq Nat, T # {}
  PROVE  \E x \in T : \A y \in T : x <= y
<1> DEFINE R == OpToRel(<, Nat)
<1>1. IsWellFoundedOn(R, Nat) BY NatLessThanWellFounded
<1>2. \A x, y \in Nat : y < x => <<y, x>> \in R BY DEF OpToRel
<1> HIDE DEF R
<1>3. PICK x \in T : \A y \in T : ~ (<<y, x>> \in R) BY <1>1, WFMin
<1>4. ASSUME NEW y \in T PROVE x <= y
  <2>1. x \in Nat /\ y \in Nat /\ ~(<<y, x>> \in R) BY <1>3
  <2>2. ~(y < x) BY <2>1, <1>2
  <2>3. QED BY <2>1, <2>2
<1>5. QED BY <1>4

LEMMA MinimumIn ==
  ASSUME NEW T, T \subseteq Nat, T # {}
  PROVE  Min(T) \in T /\ \A y \in T : Min(T) <= y
<1>1. \E x \in T : \A y \in T : x <= y BY Least
<1>2. QED BY <1>1 DEF Min

LEMMA Replaced ==
  ASSUME NEW S, NEW pool \in [Slots -> S], NEW o \in S, NEW s \in Slots
  PROVE  /\ [pool EXCEPT ![s] = o] \in [Slots -> S]
         /\ [pool EXCEPT ![s] = o][s] = o
         /\ \A t \in Slots : t # s => [pool EXCEPT ![s] = o][t] = pool[t]
OBVIOUS

(* A new object is put into a free slot, if there is one. *)
LEMMA Created ==
  ASSUME NEW S, NEW pool \in [Slots -> S], NEW o \in S
  PROVE  LET q == gameObjInstCreate(pool, o)
         IN  /\ q \in [Slots -> S]
             /\ \A s \in Slots : q[s] = pool[s] \/ (pool[s].type = "free" /\ q[s] = o)
<1> DEFINE q == gameObjInstCreate(pool, o)
<1>1. CASE Unused(pool) = {} BY <1>1 DEF gameObjInstCreate
<1>2. CASE Unused(pool) # {}
  <2> DEFINE m == Min(Unused(pool))
  <2>1. Unused(pool) \subseteq Slots /\ Unused(pool) \subseteq Nat
    BY ConstantFacts DEF Unused, Of
  <2>2. m \in Unused(pool) BY <1>2, <2>1, MinimumIn
  <2>3. m \in Slots /\ pool[m].type = "free" BY <2>1, <2>2 DEF Unused, Of
  <2>4. q = [pool EXCEPT ![m] = o] BY <1>2 DEF gameObjInstCreate
  <2> HIDE DEF m, q
  <2>5. q \in [Slots -> S] /\ q[m] = o /\ \A s \in Slots : s # m => q[s] = pool[s]
    BY <2>3, <2>4, Replaced
  <2>6. QED BY <2>3, <2>5 DEF q
<1>3. QED BY <1>1, <1>2

LEMMA CreatedSound ==
  ASSUME NEW pool \in [Slots -> Sound], NEW o \in Sound, o.type # "ship"
  PROVE  /\ gameObjInstCreate(pool, o) \in [Slots -> Sound]
         /\ Grown(pool, gameObjInstCreate(pool, o))
         /\ \A s \in Slots : \/ gameObjInstCreate(pool, o)[s] = pool[s]
                             \/ gameObjInstCreate(pool, o)[s] = o
<1> DEFINE q == gameObjInstCreate(pool, o)
<1>1. q \in [Slots -> Sound]
      /\ \A s \in Slots : q[s] = pool[s] \/ (pool[s].type = "free" /\ q[s] = o)
  BY Created
<1> HIDE DEF q
<1>2. Grown(pool, q) BY <1>1 DEF Grown
<1>3. QED BY <1>1, <1>2 DEF q

(* Particles take free slots. *)
LEMMA Sparks ==
  ASSUME NEW S, NEW pool \in [Slots -> S], Particle \in S, NEW counts,
         NEW q \in sparkCreate(pool, counts)
  PROVE  /\ q \in [Slots -> S]
         /\ \A s \in Slots : q[s] = pool[s] \/ (pool[s].type = "free" /\ q[s] = Particle)
BY DEF sparkCreate, Unused, Of

LEMMA SparksGrow ==
  ASSUME NEW pool \in [Slots -> Sound], NEW counts, NEW q \in sparkCreate(pool, counts)
  PROVE  q \in [Slots -> Sound] /\ Grown(pool, q)
<1>1. /\ q \in [Slots -> Sound]
      /\ \A s \in Slots : q[s] = pool[s] \/ (pool[s].type = "free" /\ q[s] = Particle)
  BY ParticleSound, Sparks
<1>2. QED BY <1>1, ParticleSound DEF Grown

-----------------------------------------------------------------------------
(* Input, and the new asteroid. *)

IsShip(o) ==
  /\ o \in Object /\ o.type = "ship"
  /\ o.vel \in -ShipSpeed .. ShipSpeed /\ o.x \in Window(ShipMargin)

LEMMA ShipsSound ==
  ASSUME NEW o
  PROVE  IsShip(o) <=> o \in Sound /\ o.type = "ship"
<1>1. ASSUME IsShip(o) PROVE o \in Sound BY <1>1, SoundShips DEF IsShip
<1>2. ASSUME o \in Sound, o.type = "ship" PROVE IsShip(o)
  <2>1. o \in Things /\ Near(o) /\ Inside(o) BY <1>2 DEF Sound
  <2>2. o \in Object BY <1>2, <2>1, NotFree
  <2>3. o.vel \in -ShipSpeed .. ShipSpeed BY <1>2, <2>1 DEF Near
  <2>4. o.x \in Window(ShipMargin) BY <1>2, <2>1 DEF Inside
  <2>5. QED BY <1>2, <2>2, <2>3, <2>4 DEF IsShip
<1>3. QED BY <1>1, <1>2 DEF IsShip

(* Thrust changes the velocity only, and keeps it in its bounds. *)
LEMMA Thrusts ==
  ASSUME NEW o, IsShip(o), NEW pressed, NEW dt \in 0 .. Longest
  PROVE  IsShip(Thrust(o, pressed, dt))
<1>1. /\ o \in Object /\ o.type = "ship" /\ o.vel \in -ShipSpeed .. ShipSpeed
      /\ o.x \in Window(ShipMargin) /\ o.dir \in {-1, 1} /\ ShipSpeed \in Nat
      /\ Longest \in Nat /\ Accel \in Nat
  BY ObjectFields, ConstantFacts DEF IsShip
<1>2. CASE dt = 0 BY <1>2 DEF Thrust
<1>3. CASE dt # 0
  <2> DEFINE push == o.dir * Accel * dt
             up   == IF "UP" \in pressed THEN Dampened(o.vel + push) ELSE o.vel
             down == IF "DOWN" \in pressed THEN Dampened(up - push) ELSE up
  <2>1. Thrust(o, pressed, dt) = [o EXCEPT !.vel = down] BY <1>3 DEF Thrust
  <2>2. Accel * dt \in Nat /\ Accel * dt <= ShipSpeed
    BY <1>1, Products DEF ShipSpeed
  <2>3. push \in -ShipSpeed .. ShipSpeed
    <3>1. CASE o.dir = 1
      <4>1. push = Accel * dt BY <1>1, <3>1
      <4>2. QED BY <1>1, <2>2, <4>1
    <3>2. CASE o.dir = -1
      <4>1. push = -(Accel * dt) BY <1>1, <3>2
      <4>2. QED BY <1>1, <2>2, <4>1
    <3>3. QED BY <1>1, <3>1, <3>2
  <2> HIDE DEF push
  <2>4. up \in -ShipSpeed .. ShipSpeed
    <3>1. o.vel + push \in Int /\ o.vel + push >= -(2 * ShipSpeed)
          /\ o.vel + push <= 2 * ShipSpeed
      BY <1>1, <2>3
    <3>2. Dampened(o.vel + push) \in -ShipSpeed .. ShipSpeed BY <3>1, Dampens
    <3>3. QED BY <1>1, <3>2
  <2> HIDE DEF up
  <2>5. down \in -ShipSpeed .. ShipSpeed
    <3>1. up - push \in Int /\ up - push >= -(2 * ShipSpeed) /\ up - push <= 2 * ShipSpeed
      BY <1>1, <2>3, <2>4
    <3>2. Dampened(up - push) \in -ShipSpeed .. ShipSpeed BY <3>1, Dampens
    <3>3. QED BY <2>4, <3>2
  <2> HIDE DEF down
  <2>6. [o EXCEPT !.vel = down] \in Object BY <1>1, <2>5 DEF Object
  <2>7. /\ [o EXCEPT !.vel = down].type = "ship" /\ [o EXCEPT !.vel = down].vel = down
        /\ [o EXCEPT !.vel = down].x = o.x
    BY <1>1 DEF Object
  <2>8. QED BY <1>1, <2>1, <2>5, <2>6, <2>7 DEF IsShip
<1>4. QED BY <1>2, <1>3

LEMMA TurnsAround ==
  ASSUME NEW o, IsShip(o), NEW pressed, NEW dt, NEW ship \in Turns(o, pressed, dt)
  PROVE  IsShip(ship)
<1>1. o \in Object /\ o.dir \in {-1, 1} /\ o.type = "ship" BY ObjectFields DEF IsShip
<1>2. CASE ship = o BY <1>2
<1>3. CASE ship = [o EXCEPT !.dir = -o.dir]
  <2>1. -o.dir \in {-1, 1} BY <1>1
  <2> DEFINE d == -o.dir
  <2>2. d \in {-1, 1} BY <2>1
  <2> HIDE DEF d
  <2>3. [o EXCEPT !.dir = d] \in Object BY <1>1, <2>2 DEF Object
  <2>4. /\ [o EXCEPT !.dir = d].type = o.type /\ [o EXCEPT !.dir = d].vel = o.vel
        /\ [o EXCEPT !.dir = d].x = o.x
    BY <1>1 DEF Object
  <2>5. ship = [o EXCEPT !.dir = d] BY <1>3 DEF d
  <2>6. QED BY <2>3, <2>4, <2>5 DEF IsShip
<1>4. QED BY <1>2, <1>3 DEF Turns

(* Whatever is fired is put into free slots and flies well. *)
LEMMA Fired ==
  ASSUME NEW pool \in [Slots -> Sound], NEW ship, IsShip(ship), NEW pressed, NEW triggered
  PROVE  /\ Fire(pool, ship, pressed, triggered) \in [Slots -> Sound]
         /\ Grown(pool, Fire(pool, ship, pressed, triggered))
<1>1. /\ ship.x \in Window(ShipMargin) /\ ship.x \in Int /\ ship.vel \in Int
      /\ ship.dir \in {-1, 1}
  BY ObjectFields, Windows DEF IsShip
<1>2. BULLET_SPEED \in Nat /\ ShotLife \in Nat /\ ShotLife > 0 BY ConstantFacts
<1>3. ship.dir * BULLET_SPEED \in {-BULLET_SPEED, BULLET_SPEED} BY <1>1, <1>2
<1> DEFINE shot == Instance("bullet", ship.x, ship.dir * BULLET_SPEED, ship.dir)
           laid == Instance("bomb", ship.x, 0, 1)
           sent == Instance("missile", ship.x, ship.vel, ship.dir)
<1>4. shot \in Sound /\ shot.type # "ship"
  <2> DEFINE v == ship.dir * BULLET_SPEED
  <2>1. v \in Int /\ v \in {-BULLET_SPEED, BULLET_SPEED} BY <1>2, <1>3
  <2> HIDE DEF v
  <2> DEFINE x == ship.x
             dir == ship.dir
  <2>2. x \in Int /\ dir \in {-1, 1} /\ "bullet" \in Shot BY <1>1 DEF Shot
  <2>3. shot = Instance("bullet", x, v, dir) BY DEF v
  <2> HIDE DEF x, dir, shot
  <2>4. shot \in Object /\ shot.type = "bullet" /\ shot.x = x /\ shot.life = ShotLife
        /\ shot.vel = v
    BY <2>1, <2>2, <2>3, NewShots
  <2>5. shot.x \in Window(AstMargin) BY <1>1, <2>4, Windows DEF x
  <2>6. shot.type \in Shot /\ shot.life > 0 BY <1>2, <2>4 DEF Shot
  <2>7. shot.type # "ship" BY <2>4
  <2>8. QED BY <2>1, <2>4, <2>5, <2>6, <2>7, SoundShots
<1>5. laid \in Sound /\ laid.type # "ship"
  <2>1. laid \in Object /\ laid.type = "bomb" /\ laid.life = ShotLife
    BY <1>1, Instances DEF Shot
  <2> HIDE DEF laid
  <2>2. laid.type \in Shot /\ laid.life > 0 BY <1>2, <2>1 DEF Shot
  <2>3. QED BY <2>1, <2>2, SoundShots
<1>6. sent \in Sound /\ sent.type # "ship"
  <2> DEFINE x == ship.x
             vel == ship.vel
             dir == ship.dir
  <2>1. x \in Int /\ vel \in Int /\ dir \in {-1, 1} /\ "missile" \in Shot BY <1>1 DEF Shot
  <2>2. sent = Instance("missile", x, vel, dir) OBVIOUS
  <2> HIDE DEF x, vel, dir, sent
  <2>3. sent \in Object /\ sent.type = "missile" /\ sent.life = ShotLife
    BY <2>1, <2>2, NewShots
  <2>4. sent.type \in Shot /\ sent.life > 0 BY <1>2, <2>3 DEF Shot
  <2>5. QED BY <2>3, <2>4, SoundShots
<1> HIDE DEF shot, laid, sent
<1> DEFINE bullet == IF "SPACE" \in triggered THEN gameObjInstCreate(pool, shot) ELSE pool
           bomb   == IF "Z" \in triggered /\ Of(bullet, "bomb") = {}
                     THEN gameObjInstCreate(bullet, laid) ELSE bullet
           missile == IF "X" \in pressed THEN gameObjInstCreate(bomb, sent) ELSE bomb
<1>7. Fire(pool, ship, pressed, triggered) = missile BY DEF Fire, shot, laid, sent
<1>8. bullet \in [Slots -> Sound] /\ Grown(pool, bullet)
  BY <1>4, CreatedSound DEF Grown
<1> HIDE DEF bullet
<1>9. bomb \in [Slots -> Sound] /\ Grown(pool, bomb)
  <2>1. gameObjInstCreate(bullet, laid) \in [Slots -> Sound]
        /\ Grown(pool, gameObjInstCreate(bullet, laid))
    BY <1>5, <1>8, CreatedSound, GrowsOn
  <2>2. QED BY <1>8, <2>1
<1> HIDE DEF bomb
<1>10. missile \in [Slots -> Sound] /\ Grown(pool, missile)
  <2>1. gameObjInstCreate(bomb, sent) \in [Slots -> Sound]
        /\ Grown(pool, gameObjInstCreate(bomb, sent))
    BY <1>6, <1>9, CreatedSound, GrowsOn
  <2>2. QED BY <1>9, <2>1
<1>11. QED BY <1>7, <1>10

LEMMA InputTaken ==
  ASSUME NEW w, w.pool \in [Slots -> Sound], w.spShip \in Slots \cup {Null},
         HasShip(w.pool, w.spShip), NEW pressed, NEW triggered, NEW dt \in 0 .. Longest,
         NEW q \in Input(w, pressed, triggered, dt)
  PROVE  q \in [Slots -> Sound] /\ HasShip(q, w.spShip)
<1>1. CASE w.spShip = Null BY <1>1 DEF Input
<1>2. CASE w.spShip # Null
  <2>1. PICK pool \in Burn(w.pool, pressed) :
          \E ship \in Turns(Thrust(w.pool[w.spShip], pressed, dt), pressed, dt) :
            q = Fire([pool EXCEPT ![w.spShip] = ship], ship, pressed, triggered)
    BY <1>2 DEF Input
  <2> DEFINE a == w.spShip
             old == w.pool
  <2>2. a \in Slots /\ old[a] \in Sound /\ old[a].type = "ship" BY <1>2 DEF HasShip
  <2>3. IsShip(Thrust(old[a], pressed, dt)) BY <2>2, ShipsSound, Thrusts
  <2>4. PICK ship \in Turns(Thrust(old[a], pressed, dt), pressed, dt) :
          q = Fire([pool EXCEPT ![a] = ship], ship, pressed, triggered)
    BY <2>1
  <2>5. IsShip(ship) BY <2>3, <2>4, TurnsAround
  <2>6. ship \in Sound /\ ship.type = "ship" BY <2>5, ShipsSound
  <2> DEFINE p == [pool EXCEPT ![a] = ship]
  <2>7. /\ HasShip(old, a) /\ old \in [Slots -> Sound]
        /\ pool = old \/ pool \in sparkCreate(old, Exhaust)
    BY <2>1 DEF Burn
  <2> HIDE DEF a, old
  <2>8. pool \in [Slots -> Sound] /\ Grown(old, pool)
    BY <2>7, SparksGrow DEF Grown
  <2>9. HasShip(pool, a) BY <2>7, <2>8, ShipStays
  <2>10. p \in [Slots -> Sound] /\ p[a] = ship /\ \A s \in Slots : s # a => p[s] = pool[s]
    BY <2>2, <2>6, <2>8, Replaced
  <2> HIDE DEF p
  <2>11. HasShip(p, a) BY <2>6, <2>9, <2>10 DEF HasShip
  <2>12. q \in [Slots -> Sound] /\ Grown(p, q) BY <2>4, <2>5, <2>10, Fired DEF p
  <2>13. HasShip(q, a) BY <2>11, <2>12, ShipStays
  <2>14. QED BY <2>12, <2>13 DEF a
<1>3. QED BY <1>1, <1>2

LEMMA Newcomers ==
  ASSUME NEW x \in Edge, NEW vel \in {-1, 1}
  PROVE  Asteroid(x, vel, 1) \in Sound /\ Asteroid(x, vel, 1).type = "asteroid"
<1> DEFINE o == Asteroid(x, vel, 1)
<1>1. x \in Window(AstMargin) /\ x \in Window(AstMargin + posOffset) /\ x \in Int
  BY Windows
<1>2. o \in Object /\ o.type = "asteroid" /\ o.x = x /\ o.vel = vel /\ o.scale = 1
  BY <1>1, NewAsteroids
<1> HIDE DEF o
<1>3. vel \in -PieceSpeed .. PieceSpeed /\ vel \in -(SpeedLimit + 1) .. SpeedLimit + 1
  BY ConstantFacts DEF PieceSpeed
<1>4. o \in Sound BY <1>1, <1>2, <1>3, SoundAsteroids
<1>5. QED BY <1>2, <1>4 DEF o

LEMMA Spawns ==
  ASSUME NEW pool \in [Slots -> Sound], NEW ship, HasShip(pool, ship),
         NEW q \in Spawned(pool)
  PROVE  q \in [Slots -> Sound] /\ HasShip(q, ship)
<1>1. CASE q = pool BY <1>1
<1>2. ASSUME NEW x \in Edge, NEW vel \in {-1, 1}, q = gameObjInstCreate(pool, Asteroid(x, vel, 1))
      PROVE  q \in [Slots -> Sound] /\ HasShip(q, ship)
  <2> DEFINE o == Asteroid(x, vel, 1)
  <2>1. o \in Sound /\ o.type = "asteroid" BY Newcomers
  <2> HIDE DEF o
  <2>2. q \in [Slots -> Sound] /\ Grown(pool, q) BY <1>2, <2>1, CreatedSound DEF o
  <2>3. QED BY <2>2, ShipStays
<1>3. QED BY <1>1, <1>2 DEF Spawned

-----------------------------------------------------------------------------
(* Motion. *)

LEMMA Placed ==
  ASSUME NEW o \in Object, NEW x \in Int
  PROVE  LET q == [o EXCEPT !.x = x]
         IN  /\ q \in Object /\ q.x = x /\ q.type = o.type /\ q.vel = o.vel /\ q.dir = o.dir
             /\ q.scale = o.scale /\ q.life = o.life /\ q.target = o.target
BY DEF Object

LEMMA Sped ==
  ASSUME NEW o \in Object, NEW vel \in Int
  PROVE  LET q == [o EXCEPT !.vel = vel]
         IN  /\ q \in Object /\ q.x = o.x /\ q.type = o.type /\ q.vel = vel /\ q.dir = o.dir
             /\ q.scale = o.scale /\ q.life = o.life /\ q.target = o.target
BY DEF Object

LEMMA WrappedFields ==
  ASSUME NEW o \in Object, NEW margin \in Nat
  PROVE  LET q == Wrapped(o, margin)
         IN  /\ q \in Object /\ q.x = wrap(o.x, -margin, WinMax + margin)
             /\ q.type = o.type /\ q.vel = o.vel /\ q.dir = o.dir
             /\ q.scale = o.scale /\ q.life = o.life /\ q.target = o.target
<1> DEFINE x == wrap(o.x, -margin, WinMax + margin)
<1>1. x \in Int BY WrapsToIntegers, ObjectFields
<1>2. Wrapped(o, margin) = [o EXCEPT !.x = x] BY DEF Wrapped
<1> HIDE DEF x
<1>3. QED BY <1>1, <1>2, Placed DEF x

(* What is left to the update of an object after motion.                   *)
Moved(o) ==
  /\ o.type = "ship" => IsShip(o)
  /\ o.type = "asteroid" => /\ o.x >= -AstMargin - AsteroidRange
                            /\ o.x <= WinMax + AstMargin + AsteroidRange
  /\ o.type = "bullet" => o.vel \in {-BULLET_SPEED, BULLET_SPEED}

LEMMA Flies ==
  ASSUME NEW pool \in [Slots -> Sound], NEW s \in Slots, NEW dt \in 0 .. Longest
  PROVE  LET o == WrapShips(Physics(pool, dt))[s]
         IN  o \in Things /\ o.type = pool[s].type /\ Moved(o)
<1> DEFINE a == pool[s]
           q == Physics(pool, dt)
           o == WrapShips(q)[s]
<1>1. /\ a \in Sound /\ a \in Things /\ Near(a) /\ Inside(a) BY DEF Sound
<1>2. /\ dt \in Nat /\ Longest \in Nat /\ ShipSpeed \in Nat /\ PieceSpeed \in Nat
      /\ ShipMargin \in Nat /\ AstMargin \in Nat /\ posOffset \in Nat /\ WinMax \in Nat
      /\ ShipSpeed * Longest <= ShipRange /\ PieceSpeed * Longest + posOffset <= AsteroidRange
  BY ConstantFacts
<1>3. q[s] = [a EXCEPT !.x = IF a = Free THEN a.x ELSE a.x + a.vel * dt] BY DEF Physics
<1>4. o = IF q[s].type = "ship" THEN Wrapped(q[s], ShipMargin) ELSE q[s]
  BY DEF WrapShips, Of
<1> HIDE DEF q, o
<1>5. CASE a.type = "free"
  <2>1. a = Free BY <1>1, <1>5, ThingFields
  <2>2. q[s] = Free BY <1>3, <2>1 DEF Free
  <2>3. o = Free BY <1>4, <2>2, FreeSound
  <2>4. Moved(Free) BY FreeSound DEF Moved
  <2>5. QED BY <2>1, <2>3, <2>4, FreeSound DEF a, q, o
<1>8. CASE a.type = "particle"
  <2>1. a = Particle /\ a # Free BY <1>1, <1>8, ThingFields
  <2>2. a.x = 0 /\ a.vel = 0 BY <2>1 DEF Particle, Free
  <2> DEFINE x == IF a = Free THEN a.x ELSE a.x + a.vel * dt
  <2>3. x = 0 BY <1>2, <2>2
  <2>9. q[s] = [a EXCEPT !.x = x] BY <1>3
  <2> HIDE DEF x, a
  <2>4. q[s] = [Particle EXCEPT !.x = 0] BY <2>1, <2>3, <2>9
  <2>10. Particle = [type |-> "particle", x |-> 0, vel |-> 0, dir |-> 1, scale |-> 0,
                     life |-> 0, target |-> Null]
    BY DEF Particle, Free
  <2>5. q[s] = Particle BY <2>4, <2>10
  <2>6. o = Particle BY <1>4, <2>5, ParticleSound
  <2>7. Moved(Particle) BY ParticleSound DEF Moved
  <2>8. QED BY <2>1, <2>6, <2>7, ParticleSound DEF a, q, o
<1>6. CASE a.type \notin {"free", "particle"}
  <2>1. a \in Object /\ a # Free BY <1>1, <1>6, NotFree, ThingFields
  <2>2. a.x \in Int /\ a.vel \in Int BY <2>1, ObjectFields
  <2> DEFINE x == a.x + a.vel * dt
  <2>3. x \in Int BY <1>2, <2>2
  <2>4. q[s] = [a EXCEPT !.x = x] BY <1>3, <2>1
  <2> HIDE DEF x, a
  <2>5. q[s] \in Object /\ q[s].x = x /\ q[s].type = a.type /\ q[s].vel = a.vel
    BY <2>1, <2>3, <2>4, Placed
  <2>6. CASE a.type = "ship"
    <3>1. a.vel \in -ShipSpeed .. ShipSpeed /\ a.x \in Window(ShipMargin)
      BY <1>1, <2>6 DEF Near, Inside
    <3>2. a.vel * dt \in -(ShipSpeed * Longest) .. ShipSpeed * Longest /\ a.vel * dt \in Int
      BY <1>2, <3>1, Way
    <3> DEFINE way == a.vel * dt
               most == ShipSpeed * Longest
    <3>3. way \in -most .. most /\ way \in Int /\ most \in Int /\ most <= ShipRange /\ x = a.x + way
      BY <1>2, <3>2 DEF x
    <3> HIDE DEF way, most
    <3>4. x >= -ShipMargin - ShipRange /\ x <= WinMax + ShipMargin + ShipRange
      BY <1>2, <2>2, <3>1, <3>3 DEF Window, ShipRange
    <3>5. wrap(x, -ShipMargin, WinMax + ShipMargin) \in Window(ShipMargin)
      BY <1>2, <2>3, <3>4, Wraps DEF ShipRange
    <3>6. o = Wrapped(q[s], ShipMargin) BY <1>4, <2>5, <2>6
    <3>7. o \in Object /\ o.x \in Window(ShipMargin) /\ o.type = "ship" /\ o.vel = a.vel
      BY <1>2, <2>5, <2>6, <3>5, <3>6, WrappedFields
    <3>8. IsShip(o) BY <3>1, <3>7 DEF IsShip
    <3>9. Moved(o) BY <3>7, <3>8 DEF Moved
    <3>10. QED BY <2>6, <3>7, <3>9 DEF a, q, o, Things
  <2>7. CASE a.type # "ship"
    <3>1. o = q[s] BY <1>4, <2>5, <2>7
    <3>2. a.type = "asteroid" => x >= -AstMargin - AsteroidRange
                                 /\ x <= WinMax + AstMargin + AsteroidRange
      <4>1. SUFFICES ASSUME a.type = "asteroid"
                     PROVE  x >= -AstMargin - AsteroidRange
                            /\ x <= WinMax + AstMargin + AsteroidRange
        OBVIOUS
      <4>2. a.vel \in -PieceSpeed .. PieceSpeed /\ a.x \in Window(AstMargin + posOffset)
        BY <1>1, <4>1 DEF Near, Inside
      <4>3. a.vel * dt \in -(PieceSpeed * Longest) .. PieceSpeed * Longest /\ a.vel * dt \in Int
        BY <1>2, <4>2, Way
      <4> DEFINE way == a.vel * dt
                 most == PieceSpeed * Longest
      <4>4. /\ way \in -most .. most /\ way \in Int /\ most \in Int
            /\ most + posOffset <= AsteroidRange /\ x = a.x + way
        BY <1>2, <4>3 DEF x
      <4> HIDE DEF way, most
      <4>5. QED BY <1>2, <2>2, <4>2, <4>4 DEF Window, AsteroidRange
    <3>3. a.type = "bullet" => a.vel \in {-BULLET_SPEED, BULLET_SPEED} BY <1>1 DEF Near
    <3>4. Moved(o) BY <2>5, <2>7, <3>1, <3>2, <3>3 DEF Moved
    <3>5. QED BY <2>5, <3>1, <3>4 DEF a, q, o, Things
  <2>8. QED BY <2>6, <2>7
<1>7. QED BY <1>5, <1>6, <1>8

LEMMA SoundMoved ==
  ASSUME NEW o \in Sound
  PROVE  Moved(o)
<1>1. /\ AstMargin \in Nat /\ posOffset \in Nat /\ WinMax \in Nat
      /\ AsteroidRange \in Nat /\ PieceSpeed * Longest + posOffset <= AsteroidRange
      /\ PieceSpeed \in Nat /\ Longest \in Nat
  BY ConstantFacts
<1>2. posOffset <= AsteroidRange
  <2> DEFINE way == PieceSpeed * Longest
  <2>1. way \in Nat BY <1>1
  <2>2. way + posOffset <= AsteroidRange BY <1>1
  <2> HIDE DEF way
  <2>3. QED BY <1>1, <2>1, <2>2
<1>3. o \in Things /\ Near(o) /\ Inside(o) BY DEF Sound
<1>4. o.type = "ship" => IsShip(o) BY ShipsSound
<1>5. o.type = "asteroid" => /\ o.x >= -AstMargin - AsteroidRange
                             /\ o.x <= WinMax + AstMargin + AsteroidRange
  BY <1>1, <1>2, <1>3, ThingFields DEF Inside, Window
<1>6. o.type = "bullet" => o.vel \in {-BULLET_SPEED, BULLET_SPEED} BY <1>3 DEF Near
<1>7. QED BY <1>4, <1>5, <1>6 DEF Moved

-----------------------------------------------------------------------------
(* The update of each object. *)

(* What the update makes of the object in slot s.                          *)
Outcome(pool, s, u) ==
  /\ u \in Sound
  /\ pool[s].type \in {"ship", "asteroid", "free"} => u.type = pool[s].type
  /\ pool[s].type = "particle" => u.type \in {"particle", "free"}
  /\ pool[s].type \in Shot => u.type \in Shot \cup {"free"}
  /\ u.type = "missile" => u.target \in {Null} \cup Asteroids(pool)

LEMMA AsteroidUpdated ==
  ASSUME NEW o \in Object, o.type = "asteroid", Moved(o), NEW ships, NEW dt,
         NEW u \in UpdateAsteroid(o, ships, dt)
  PROVE  u \in Sound /\ u.type = "asteroid"
<1> DEFINE w == Wrapped(o, AstMargin)
<1>1. AstMargin \in Nat /\ WinMax \in Nat /\ SpeedLimit \in Nat /\ velOffset \in Nat
  BY ConstantFacts
<1>2. o.x \in Int BY ObjectFields
<1>3. wrap(o.x, -AstMargin, WinMax + AstMargin) \in Window(AstMargin)
  BY <1>1, <1>2, Wraps DEF Moved, AsteroidRange
<1>4. w \in Object /\ w.type = "asteroid" /\ w.x \in Window(AstMargin) /\ w.vel \in Int
  BY <1>1, <1>3, WrappedFields, ObjectFields
<1>5. PICK vel \in Pulled(w, ships, dt) : \E v \in Limited(vel) : u = [w EXCEPT !.vel = v]
  BY DEF UpdateAsteroid
<1>11. PICK v \in Limited(vel) : u = [w EXCEPT !.vel = v] BY <1>5
<1> HIDE DEF w
<1>6. vel \in Int BY <1>4, <1>5 DEF Pulled, Sign
<1>7. v \in -(SpeedLimit + 1) .. SpeedLimit + 1 BY <1>6, <1>11, Limits
<1>8. v \in Int /\ v \in -PieceSpeed .. PieceSpeed BY <1>1, <1>7 DEF PieceSpeed
<1>9. u \in Object /\ u.type = "asteroid" /\ u.x \in Window(AstMargin) /\ u.vel = v
  BY <1>4, <1>8, <1>11, Sped
<1>10. QED BY <1>7, <1>8, <1>9, SoundAsteroids, Windows

LEMMA BulletUpdated ==
  ASSUME NEW o \in Object, o.type = "bullet", Moved(o), NEW u \in UpdateBullet(o)
  PROVE  u \in Sound /\ u.type \in {"bullet", "free"}
<1>1. CASE u = Free BY <1>1, FreeSound
<1>2. CASE u = o /\ OnScreen(o)
  <2>1. o.type \in Shot BY DEF Shot
  <2>2. o \in Sound BY <1>2, <2>1, SoundShots DEF Moved, OnScreen
  <2>3. QED BY <1>2, <2>2
<1>3. QED BY <1>1, <1>2 DEF UpdateBullet

LEMMA Ages ==
  ASSUME NEW o \in Object, NEW dt \in Nat
  PROVE  LET q == Aged(o, dt)
         IN  /\ q \in Object /\ q.type = o.type /\ q.target = o.target /\ q.vel = o.vel
             /\ q.life \in Nat
<1> DEFINE l == IF o.life < dt THEN 0 ELSE o.life - dt
<1>1. o.life \in 0 .. ShotLife /\ ShotLife \in Nat BY ObjectFields, ConstantFacts
<1>2. l \in 0 .. ShotLife /\ l \in Nat BY <1>1
<1>3. Aged(o, dt) = [o EXCEPT !.life = l] BY DEF Aged
<1> HIDE DEF l
<1>4. QED BY <1>2, <1>3 DEF Object

LEMMA BombUpdated ==
  ASSUME NEW o \in Object, o.type = "bomb", NEW dt \in Nat, NEW u \in UpdateBomb(o, dt)
  PROVE  u \in Sound /\ u.type \in {"bomb", "free"}
<1> DEFINE q == Aged(o, dt)
<1>1. q \in Object /\ q.type = "bomb" /\ q.life \in Nat BY Ages
<1>2. u = Free \/ (u = q /\ q.life # 0) BY DEF UpdateBomb
<1> HIDE DEF q
<1>3. CASE u = Free BY <1>3, FreeSound
<1>4. CASE u = q /\ q.life # 0
  <2>1. q.type \in Shot /\ q.life > 0 BY <1>1, <1>4 DEF Shot
  <2>2. QED BY <1>1, <1>4, <2>1, SoundShots
<1>5. QED BY <1>2, <1>3, <1>4

LEMMA TargetsAcquired ==
  ASSUME NEW pool, NEW o, NEW t \in missileAcquireTarget(pool, o)
  PROVE  t \in {Null} \cup Asteroids(pool)
BY DEF missileAcquireTarget

LEMMA MissileUpdated ==
  ASSUME NEW pool, NEW o \in Object, o.type = "missile", NEW dt \in Nat,
         NEW u \in UpdateMissile(pool, o, dt)
  PROVE  /\ u \in Sound /\ u.type \in {"missile", "free"}
         /\ u.type = "missile" => u.target \in {Null} \cup Asteroids(pool)
<1> DEFINE q == Aged(o, dt)
           targets == IF Valid(pool, o.target) THEN {o.target}
                      ELSE missileAcquireTarget(pool, o)
           Turned(t) == {[q EXCEPT !.target = t, !.dir = d, !.vel = IF dt = 0 THEN q.vel ELSE d] :
                           d \in IF t = Null THEN {o.dir} ELSE {-1, 1}}
<1>1. /\ q \in Object /\ q.type = "missile" /\ q.life \in Nat /\ q.vel \in Int
      /\ o.target \in Slots \cup {Null}
  BY Ages, ObjectFields
<1>2. targets \subseteq {Null} \cup Asteroids(pool)
  <2>1. Valid(pool, o.target) => o.target \in Asteroids(pool)
    BY <1>1 DEF Valid, Asteroids, Of
  <2>2. QED BY <2>1, TargetsAcquired
<1>3. CASE q.life = 0
  <2>1. u = Free BY <1>3 DEF UpdateMissile
  <2>2. QED BY <2>1, FreeSound
<1>4. CASE q.life # 0
  <2>10. u \in UNION {Turned(t) : t \in targets} BY <1>4 DEF UpdateMissile
  <2>1. PICK t \in targets : u \in Turned(t)
    <3> HIDE DEF targets, Turned
    <3>1. QED BY <2>10
  <2>9. PICK d \in IF t = Null THEN {o.dir} ELSE {-1, 1} :
          u = [q EXCEPT !.target = t, !.dir = d, !.vel = IF dt = 0 THEN q.vel ELSE d]
    BY <2>1
  <2> DEFINE v == IF dt = 0 THEN q.vel ELSE d
  <2>2. t \in Slots \cup {Null} /\ t \in {Null} \cup Asteroids(pool)
    BY <1>2, <2>1 DEF Asteroids, Of
  <2>3. d \in {-1, 1} BY <2>9, ObjectFields
  <2>4. v \in Int BY <1>1, <2>3
  <2>5. u = [q EXCEPT !.target = t, !.dir = d, !.vel = v] BY <2>9
  <2> HIDE DEF v, q, targets
  <2>6. u \in Object /\ u.type = "missile" /\ u.target = t /\ u.life = q.life
    BY <1>1, <2>2, <2>3, <2>4, <2>5 DEF Object
  <2>7. u.type \in Shot /\ u.life > 0 BY <1>1, <1>4, <2>6 DEF Shot
  <2>8. QED BY <2>2, <2>6, <2>7, SoundShots
<1>5. QED BY <1>3, <1>4

LEMMA ObjectUpdated ==
  ASSUME NEW pool \in [Slots -> Things], NEW s \in Slots, Moved(pool[s]),
         NEW dt \in Nat, NEW u \in UpdateObject(pool, s, dt)
  PROVE  Outcome(pool, s, u)
<1> DEFINE o == pool[s]
           ships == {pool[i] : i \in Of(pool, "ship")}
<1>1. o \in Things /\ o.type \in Types BY ThingFields
<1>2. CASE o.type = "asteroid"
  <2>1. o \in Object BY <1>1, <1>2, NotFree
  <2>2. u \in UpdateAsteroid(o, ships, dt) BY <1>2 DEF UpdateObject
  <2> HIDE DEF ships
  <2>3. u \in Sound /\ u.type = "asteroid" BY <1>2, <2>1, <2>2, AsteroidUpdated
  <2>4. QED BY <1>2, <2>3 DEF Outcome, Shot
<1>3. CASE o.type = "bullet"
  <2>1. o \in Object BY <1>1, <1>3, NotFree
  <2>2. u \in UpdateBullet(o) BY <1>3 DEF UpdateObject
  <2>3. u \in Sound /\ u.type \in {"bullet", "free"} BY <1>3, <2>1, <2>2, BulletUpdated
  <2>4. QED BY <1>3, <2>3 DEF Outcome, Shot
<1>4. CASE o.type = "bomb"
  <2>1. o \in Object BY <1>1, <1>4, NotFree
  <2>2. u \in UpdateBomb(o, dt) BY <1>4 DEF UpdateObject
  <2>3. u \in Sound /\ u.type \in {"bomb", "free"} BY <1>4, <2>1, <2>2, BombUpdated
  <2>4. QED BY <1>4, <2>3 DEF Outcome, Shot
<1>5. CASE o.type = "missile"
  <2>1. o \in Object BY <1>1, <1>5, NotFree
  <2>2. u \in UpdateMissile(pool, o, dt) BY <1>5 DEF UpdateObject
  <2>3. u \in Sound /\ u.type \in {"missile", "free"}
        /\ (u.type = "missile" => u.target \in {Null} \cup Asteroids(pool))
    BY <1>5, <2>1, <2>2, MissileUpdated
  <2>4. QED BY <1>5, <2>3 DEF Outcome, Shot
<1>6. CASE o.type \in {"ship", "free"}
  <2>1. u = o BY <1>6 DEF UpdateObject
  <2>2. o.type = "ship" => o \in Sound BY ShipsSound DEF Moved
  <2>3. o.type = "free" => o \in Sound BY <1>1, ThingFields, FreeSound
  <2>4. QED BY <1>6, <2>1, <2>2, <2>3 DEF Outcome, Shot
<1>8. CASE o.type = "particle"
  <2>1. u \in {o, Free} BY <1>8 DEF UpdateObject
  <2>2. o = Particle BY <1>1, <1>8, ThingFields
  <2>3. QED BY <1>8, <2>1, <2>2, FreeSound, ParticleSound DEF Outcome, Shot
<1>7. QED BY <1>1, <1>2, <1>3, <1>4, <1>5, <1>6, <1>8 DEF Types, Shot

-----------------------------------------------------------------------------
(* Loops over the slots. *)

(* Induction over the numbers up to N, for a set of numbers.               *)
LEMMA InductionUpTo ==
  ASSUME NEW N \in Nat, NEW S, 0 \in S,
         \A n \in 1 .. N : n - 1 \in S => n \in S
  PROVE  \A n \in 0 .. N : n \in S
<1> DEFINE Bad == {n \in 0 .. N : n \notin S}
<1>1. SUFFICES ASSUME Bad # {} PROVE FALSE
  OBVIOUS
<1>2. PICK m \in Bad : \A n \in Bad : m <= n
  <2>1. Bad \subseteq Nat
    OBVIOUS
  <2> HIDE DEF Bad
  <2>2. QED  BY <1>1, <2>1, Least
<1>3. m \in 1 .. N /\ m \notin S
  OBVIOUS
<1>4. m - 1 \in 0 .. N /\ ~(m <= m - 1)
  BY <1>3
<1>5. m - 1 \in S
  BY <1>2, <1>4
<1>6. QED
  BY <1>3, <1>5

(* f is the function that starts with b and goes on as G says.             *)
Recursion(f, N, b, G) == f[0] = b /\ \A n \in 1 .. N : f[n] = G[<<n, f[n - 1]>>]

(* A recursion over the numbers up to N defines a function. *)
LEMMA RecursionUpTo ==
  ASSUME NEW N \in Nat, NEW T, NEW b \in T, NEW G \in [(1 .. N) \X T -> T]
  PROVE  \E f \in [0 .. N -> T] : Recursion(f, N, b, G)
<1> USE DEF Recursion
<1> DEFINE Exists(m) == \E f \in [0 .. m -> T] : Recursion(f, m, b, G)
           Bad == {m \in 0 .. N : ~Exists(m)}
<1>1. SUFFICES Bad = {}
  <2>1. N \in 0 .. N
    OBVIOUS
  <2>2. Exists(N)
    BY <2>1, Bad = {}
  <2>3. QED  BY <2>2
<1>2. SUFFICES ASSUME Bad # {} PROVE FALSE
  OBVIOUS
<1>3. PICK m \in Bad : \A k \in Bad : m <= k
  <2>1. Bad \subseteq Nat
    OBVIOUS
  <2> HIDE DEF Bad
  <2>2. QED  BY <1>2, <2>1, Least
<1>4. m \in 0 .. N /\ ~Exists(m)
  OBVIOUS
<1>5. CASE m = 0
  <2> DEFINE f == [n \in 0 .. 0 |-> b]
  <2>1. f \in [0 .. m -> T] /\ f[0] = b /\ 1 .. m = {}
    BY <1>5
  <2>2. Exists(m)
    BY <2>1
  <2>3. QED  BY <2>2, <1>4
<1>6. CASE m # 0
  <2>1. m - 1 \in 0 .. N /\ m - 1 \notin Bad
    BY <1>3, <1>4, <1>6
  <2>2. Exists(m - 1)
    BY <2>1
  <2>3. PICK f \in [0 .. m - 1 -> T] :
               f[0] = b /\ \A n \in 1 .. m - 1 : f[n] = G[<<n, f[n - 1]>>]
    BY <2>2
  <2> DEFINE h == [n \in 0 .. m |-> IF n = m THEN G[<<m, f[m - 1]>>] ELSE f[n]]
  <2>4. G[<<m, f[m - 1]>>] \in T
    BY <1>4, <1>6
  <2>5. h \in [0 .. m -> T]
    BY <2>4, <1>4, <1>6
  <2>6. h[0] = b
    BY <2>3, <1>4, <1>6
  <2>7. ASSUME NEW n \in 1 .. m PROVE h[n] = G[<<n, h[n - 1]>>]
    <3>1. n - 1 \in 0 .. m /\ n - 1 # m /\ h[n - 1] = f[n - 1]
      BY <1>4
    <3>2. CASE n = m
      BY <3>1, <3>2
    <3>3. CASE n # m
      <4>1. n \in 1 .. m - 1 /\ n \in 0 .. m
        BY <3>3, <1>4
      <4>2. QED  BY <4>1, <3>3, <3>1, <2>3
    <3>4. QED  BY <3>2, <3>3
  <2>8. Exists(m)
    BY <2>5, <2>6, <2>7
  <2>9. QED  BY <2>8, <1>4
<1>7. QED
  BY <1>5, <1>6

LEMMA StaysIn ==
  ASSUME NEW N \in Nat, NEW T, NEW k, k[0] \in T,
         \A n \in 1 .. N : k[n - 1] \in T => k[n] \in T
  PROVE  \A n \in 0 .. N : k[n] \in T
<1> DEFINE S == {n \in 0 .. N : k[n] \in T}
<1>1. 0 \in S OBVIOUS
<1>2. \A n \in 1 .. N : n - 1 \in S => n \in S OBVIOUS
<1> HIDE DEF S
<1>3. \A n \in 0 .. N : n \in S BY <1>1, <1>2, InductionUpTo
<1>4. QED BY <1>3 DEF S

(* The pool while its objects are updated: all can be, and those of the    *)
(* first slots have been.                                                  *)
Underway(ship) ==
  {q \in [Slots -> Things] : HasShip(q, ship) /\ \A s \in Slots : Moved(q[s])}

Finished(n, q) ==
  \A s \in Slots : s <= n =>
    /\ q[s] \in Sound
    /\ q[s].type = "missile" /\ q[s].target # Null => q[q[s].target].type = "asteroid"

LEMMA ObjectReplaced ==
  ASSUME NEW ship, NEW q \in Underway(ship), NEW n \in Slots, NEW dt \in Nat,
         NEW u \in UpdateObject(q, n, dt)
  PROVE  LET p == [q EXCEPT ![n] = u]
         IN  p \in Underway(ship) /\ (Finished(n - 1, q) => Finished(n, p))
<1> DEFINE p == [q EXCEPT ![n] = u]
<1>1. q \in [Slots -> Things] /\ HasShip(q, ship) /\ \A s \in Slots : Moved(q[s])
  BY DEF Underway
<1>2. Outcome(q, n, u) BY <1>1, ObjectUpdated
<1>3. u \in Sound /\ u \in Things BY <1>2 DEF Outcome, Sound
<1>4. p \in [Slots -> Things] /\ p[n] = u /\ \A s \in Slots : s # n => p[s] = q[s]
  BY <1>1, <1>3, Replaced
<1> HIDE DEF p
<1>5. q[n].type \in Types BY <1>1, ThingFields
<1>6. u.type = "ship" <=> q[n].type = "ship" BY <1>2, <1>5 DEF Outcome, Types, Shot
<1>7. HasShip(p, ship) BY <1>1, <1>4, <1>6 DEF HasShip
<1>8. \A s \in Slots : Moved(p[s]) BY <1>1, <1>3, <1>4, SoundMoved
<1>9. \A s \in Slots : q[s].type = "asteroid" => p[s].type = "asteroid"
  BY <1>2, <1>4 DEF Outcome
<1>10. ASSUME Finished(n - 1, q), NEW s \in Slots, s <= n
       PROVE  /\ p[s] \in Sound
              /\ p[s].type = "missile" /\ p[s].target # Null =>
                   p[p[s].target].type = "asteroid"
  <2>1. CASE s = n
    <3>1. p[s] = u BY <1>4, <2>1
    <3>2. u.type = "missile" => u.target \in {Null} \cup Asteroids(q) BY <1>2 DEF Outcome
    <3>3. ASSUME u.type = "missile", u.target # Null PROVE p[u.target].type = "asteroid"
      <4>1. u.target \in Slots /\ q[u.target].type = "asteroid"
        BY <3>2, <3>3 DEF Asteroids, Of
      <4>2. QED BY <1>9, <4>1
    <3>4. QED BY <1>3, <3>1, <3>3
  <2>2. CASE s # n
    <3>1. s <= n - 1 BY <1>10, <2>2, ConstantFacts
    <3>2. p[s] = q[s] /\ q[s] \in Sound BY <1>4, <1>10, <2>2, <3>1 DEF Finished
    <3>3. ASSUME q[s].type = "missile", q[s].target # Null
          PROVE  p[q[s].target].type = "asteroid"
      <4>1. q[q[s].target].type = "asteroid" BY <1>10, <3>1, <3>3 DEF Finished
      <4>2. q[s].target \in Slots BY <1>1, <3>3, ThingFields
      <4>3. QED BY <1>9, <4>1, <4>2
    <3>4. QED BY <3>2, <3>3
  <2>3. QED BY <2>1, <2>2
<1>11. p \in Underway(ship) BY <1>4, <1>7, <1>8 DEF Underway
<1>12. Finished(n - 1, q) => Finished(n, p) BY <1>10 DEF Finished
<1>13. QED BY <1>11, <1>12 DEF p

LEMMA TrailLeft ==
  ASSUME NEW ship, NEW p \in Underway(ship), NEW n \in Slots, NEW r \in Trail(p, n)
  PROVE  r \in Underway(ship) /\ (Finished(n, p) => Finished(n, r))
<1>1. CASE r = p BY <1>1
<1>2. CASE r \in sparkCreate(p, Exhaust)
  <2>1. p \in [Slots -> Things] /\ HasShip(p, ship) /\ \A s \in Slots : Moved(p[s])
    BY DEF Underway
  <2>2. /\ r \in [Slots -> Things]
        /\ \A s \in Slots : r[s] = p[s] \/ (p[s].type = "free" /\ r[s] = Particle)
    BY <1>2, <2>1, ParticleSound, Sparks
  <2>3. HasShip(r, ship) BY <2>1, <2>2, ParticleSound DEF HasShip
  <2>4. \A s \in Slots : Moved(r[s]) BY <2>1, <2>2, ParticleSound, SoundMoved
  <2>5. r \in Underway(ship) BY <2>2, <2>3, <2>4 DEF Underway
  <2>6. ASSUME Finished(n, p), NEW s \in Slots, s <= n
        PROVE  /\ r[s] \in Sound
               /\ r[s].type = "missile" /\ r[s].target # Null =>
                    r[r[s].target].type = "asteroid"
    <3>1. r[s] \in Sound BY <2>2, <2>6, ParticleSound DEF Finished
    <3>2. ASSUME r[s].type = "missile", r[s].target # Null
          PROVE  r[r[s].target].type = "asteroid"
      <4>1. r[s] = p[s] BY <2>2, <3>2, ParticleSound
      <4>2. p[r[s].target].type = "asteroid" BY <2>6, <3>2, <4>1 DEF Finished
      <4>3. r[s].target \in Slots BY <2>2, <3>2, ThingFields
      <4>4. QED BY <2>2, <4>2, <4>3
    <3>3. QED BY <3>1, <3>2
  <2>7. QED BY <2>5, <2>6 DEF Finished
<1>3. QED BY <1>1, <1>2 DEF Trail

(* Every object is updated, with what those before it have become.         *)
LEMMA PoolUpdated ==
  ASSUME NEW ship, NEW pool \in Underway(ship), NEW dt \in Nat, NEW r \in Updated(pool, dt)
  PROVE  r \in Underway(ship) /\ Finished(GAME_OBJ_INST_NUM_MAX, r)
<1> DEFINE N == GAME_OBJ_INST_NUM_MAX
           A == Underway(ship)
           T == SUBSET A
           Each(q, n) == UNION {Trail([q EXCEPT ![n] = o], n) : o \in UpdateObject(q, n, dt)}
           Next1(n, Q) == UNION {Each(q, n) : q \in Q}
           Pools(f) == [n \in 0 .. N |->
                          IF n = 0 THEN {pool} ELSE UNION {Each(q, n) : q \in f[n - 1]}]
           G == [x \in (1 .. N) \X T |-> Next1(x[1], x[2])]
           k == CHOOSE f : f = Pools(f)
<1>1. N \in Nat /\ {pool} \in T /\ Slots = 1 .. N BY ConstantFacts DEF Slots
<1>2. Updated(pool, dt) = k[N] BY DEF Updated
<1>3. ASSUME NEW n \in 1 .. N, NEW q \in A, NEW v \in Each(q, n)
      PROVE  v \in A /\ (Finished(n - 1, q) => Finished(n, v))
  <2>1. n \in Slots BY <1>1
  <2>2. PICK o \in UpdateObject(q, n, dt) : v \in Trail([q EXCEPT ![n] = o], n) BY <1>3
  <2> DEFINE p == [q EXCEPT ![n] = o]
  <2> HIDE DEF Each, Pools, G, T, k
  <2>3. p \in A /\ (Finished(n - 1, q) => Finished(n, p)) BY <2>1, <2>2, ObjectReplaced
  <2>4. v \in Trail(p, n) BY <2>2
  <2> HIDE DEF p
  <2>5. v \in A /\ (Finished(n, p) => Finished(n, v)) BY <2>1, <2>3, <2>4, TrailLeft
  <2>6. QED BY <2>3, <2>5
<1> HIDE DEF Each, A
<1>4. ASSUME NEW n \in 1 .. N, NEW Q \in T PROVE Next1(n, Q) \in T
  BY <1>3
<1>5. G \in [(1 .. N) \X T -> T]
  <2> HIDE DEF Next1, T, N
  <2>1. \A x \in (1 .. N) \X T : Next1(x[1], x[2]) \in T BY <1>4
  <2>2. QED BY <2>1
<1>6. PICK f \in [0 .. N -> T] : f[0] = {pool} /\ \A n \in 1 .. N : f[n] = G[<<n, f[n - 1]>>]
  <2> HIDE DEF G, N, T, Pools, k
  <2>1. \E f \in [0 .. N -> T] : Recursion(f, N, {pool}, G) BY <1>1, <1>5, RecursionUpTo
  <2>2. QED BY <2>1 DEF Recursion
<1>7. ASSUME NEW n \in 0 .. N PROVE f[n] = Pools(f)[n]
  <2>1. CASE n = 0 BY <2>1, <1>6
  <2>2. CASE n # 0
    <3> HIDE DEF T, Next1
    <3>1. n \in 1 .. N /\ n - 1 \in 0 .. N BY <2>2, <1>1
    <3>2. f[n - 1] \in T /\ f[n] = G[<<n, f[n - 1]>>] BY <3>1, <1>6
    <3>3. <<n, f[n - 1]>> \in (1 .. N) \X T BY <3>1, <3>2
    <3>4. f[n] = Next1(n, f[n - 1]) BY <3>2, <3>3
    <3>5. QED BY <3>1, <3>4, <2>2 DEF Next1
  <2>3. QED BY <2>1, <2>2
<1>8. f = Pools(f)
  <2>1. f = [n \in 0 .. N |-> f[n]] BY <1>6
  <2>2. f = [n \in 0 .. N |-> Pools(f)[n]] BY <2>1, <1>7
  <2>3. QED BY <2>2
<1>9. k = Pools(k)
  <2> HIDE DEF Pools
  <2>1. QED BY <1>8
<1> HIDE DEF k
<1>10. ASSUME NEW n \in 0 .. N
       PROVE  k[n] = IF n = 0 THEN {pool} ELSE Next1(n, k[n - 1])
  <2>1. k[n] = Pools(k)[n]
    <3> HIDE DEF Pools
    <3>1. QED BY <1>9
  <2>2. QED BY <2>1
<1> DEFINE S == {n \in 0 .. N : k[n] \in T /\ \A q \in k[n] : Finished(n, q)}
<1>11. 0 \in S
  <2>1. k[0] = {pool} /\ 0 \in 0 .. N
    <3> HIDE DEF Next1, S, T
    <3>1. 0 \in 0 .. N BY <1>1
    <3>2. QED BY <1>10, <3>1
  <2>2. Finished(0, pool) BY <1>1 DEF Finished
  <2>3. QED BY <1>1, <2>1, <2>2
<1>12. ASSUME NEW n \in 1 .. N, n - 1 \in S PROVE n \in S
  <2>1. n \in 0 .. N /\ n # 0 BY <1>1
  <2>2. k[n] = Next1(n, k[n - 1]) BY <1>10, <2>1
  <2>3. k[n - 1] \in T /\ \A q \in k[n - 1] : Finished(n - 1, q) BY <1>12
  <2>4. k[n] \in T
    <3> HIDE DEF Next1, S, T
    <3>1. QED BY <1>4, <2>2, <2>3
  <2>5. \A v \in k[n] : Finished(n, v) BY <1>3, <2>2, <2>3
  <2>6. QED BY <2>1, <2>4, <2>5
<1>13. N \in S
  <2> HIDE DEF S
  <2>1. \A n \in 0 .. N : n \in S BY <1>1, <1>11, <1>12, InductionUpTo
  <2>2. QED BY <1>1, <2>1
<1>14. QED BY <1>2, <1>13 DEF A

-----------------------------------------------------------------------------
(* Collisions. *)

Rubble == {"asteroid", "free", "particle"}

Aims(pool) ==
  \A s \in Slots : pool[s].type = "missile" /\ pool[s].target # Null =>
    pool[pool[s].target].type \in Rubble

(* What bursts and splits: asteroids, particles and free slots become each *)
(* other.                                                                  *)
Damage(pool, q) ==
  \A s \in Slots : q[s] = pool[s] \/ (pool[s].type \in Rubble /\ q[s].type \in Rubble)

LEMMA DamageKeeps ==
  ASSUME NEW pool \in [Slots -> Sound], NEW q, Damage(pool, q), NEW ship,
         HasShip(pool, ship), Aims(pool)
  PROVE  HasShip(q, ship) /\ Aims(q)
<1>1. HasShip(q, ship) BY DEF Damage, HasShip, Rubble
<1>2. ASSUME NEW s \in Slots, q[s].type = "missile", q[s].target # Null
      PROVE  q[q[s].target].type \in Rubble
  <2>1. q[s] = pool[s] BY <1>2 DEF Damage, Rubble
  <2>2. pool[s] \in Things BY DEF Sound
  <2>3. q[s].target \in Slots BY <1>2, <2>1, <2>2, ThingFields
  <2>4. pool[q[s].target].type \in Rubble BY <1>2, <2>1 DEF Aims
  <2>5. QED BY <2>3, <2>4 DEF Damage
<1>3. QED BY <1>1, <1>2 DEF Aims

LEMMA MoreDamage ==
  ASSUME NEW pool, NEW q, NEW r, Damage(pool, q), Damage(q, r)
  PROVE  Damage(pool, r)
BY DEF Damage

LEMMA PieceCreated ==
  ASSUME NEW pool \in [Slots -> Sound], NEW o \in Sound, o.type = "asteroid"
  PROVE  /\ gameObjInstCreate(pool, o) \in [Slots -> Sound]
         /\ Damage(pool, gameObjInstCreate(pool, o))
<1> DEFINE q == gameObjInstCreate(pool, o)
<1>1. q \in [Slots -> Sound]
      /\ \A s \in Slots : q[s] = pool[s] \/ (pool[s].type = "free" /\ q[s] = o)
  BY Created
<1> HIDE DEF q
<1>2. Damage(pool, q) BY <1>1 DEF Damage, Rubble
<1>3. QED BY <1>1, <1>2 DEF q

LEMMA SparksDamage ==
  ASSUME NEW pool \in [Slots -> Sound], NEW counts, NEW q \in sparkCreate(pool, counts)
  PROVE  /\ q \in [Slots -> Sound] /\ Damage(pool, q)
         /\ \A s \in Slots : pool[s].type # "free" => q[s] = pool[s]
<1>1. /\ q \in [Slots -> Sound]
      /\ \A s \in Slots : q[s] = pool[s] \/ (pool[s].type = "free" /\ q[s] = Particle)
  BY ParticleSound, Sparks
<1>2. QED BY <1>1, ParticleSound DEF Damage, Rubble

LEMMA RubbleReplaced ==
  ASSUME NEW pool \in [Slots -> Sound], NEW a \in Slots, pool[a].type \in Rubble,
         NEW o \in Sound, o.type \in Rubble
  PROVE  /\ [pool EXCEPT ![a] = o] \in [Slots -> Sound]
         /\ Damage(pool, [pool EXCEPT ![a] = o])
<1> DEFINE q == [pool EXCEPT ![a] = o]
<1>1. q \in [Slots -> Sound] /\ q[a] = o /\ \A s \in Slots : s # a => q[s] = pool[s]
  BY Replaced
<1> HIDE DEF q
<1>2. Damage(pool, q) BY <1>1 DEF Damage
<1>3. QED BY <1>1, <1>2 DEF q

LEMMA AsteroidDestroyed ==
  ASSUME NEW pool \in [Slots -> Sound], NEW a \in Slots, pool[a].type = "asteroid"
  PROVE  /\ gameObjInstDestroy(pool, a) \in [Slots -> Sound]
         /\ Damage(pool, gameObjInstDestroy(pool, a))
BY FreeSound, RubbleReplaced DEF gameObjInstDestroy, Rubble

(* The pieces of an asteroid that is not faster than the limit.            *)
LEMMA PiecesSound ==
  ASSUME NEW pool \in [Slots -> Sound], NEW a \in Slots, pool[a].type = "asteroid",
         pool[a].scale # 0
  PROVE  Pieces(pool, a) \in [Slots -> Sound] /\ Damage(pool, Pieces(pool, a))
<1> DEFINE o == pool[a]
           Piece(side) == Asteroid(o.x + side * posOffset, o.vel + side * velOffset, 0)
           left  == Piece(-1)
           right == Piece(1)
           one   == gameObjInstCreate(pool, left)
           two   == gameObjInstCreate(one, right)
           three == gameObjInstCreate(two, left)
<1>1. /\ o.x \in Int /\ o.vel \in Int /\ o.x \in Window(AstMargin)
      /\ o.vel \in -(SpeedLimit + 1) .. SpeedLimit + 1
  <2>1. o \in Things /\ Inside(o) /\ Slow(o) BY DEF Sound
  <2>2. o.scale = 1 /\ o.x \in Int /\ o.vel \in Int BY <2>1, ThingFields
  <2>3. o.x \in Window(AstMargin) BY <2>1, <2>2 DEF Inside
  <2>4. o.vel \in -(SpeedLimit + 1) .. SpeedLimit + 1 BY <2>1, <2>2 DEF Slow
  <2>5. QED BY <2>2, <2>3, <2>4
<1>2. ASSUME NEW side \in {-1, 1} PROVE Piece(side) \in Sound /\ Piece(side).type = "asteroid"
  <2> DEFINE x == o.x + side * posOffset
             v == o.vel + side * velOffset
  <2>1. posOffset \in Nat /\ velOffset \in Nat /\ SpeedLimit \in Nat /\ AstMargin \in Nat
        /\ WinMax \in Nat
    BY ConstantFacts
  <2>2. x \in Int /\ x \in Window(AstMargin + posOffset) BY <1>1, <2>1 DEF Window
  <2>3. v \in Int /\ v \in -PieceSpeed .. PieceSpeed BY <1>1, <2>1 DEF PieceSpeed
  <2>4. Piece(side) = Asteroid(x, v, 0) OBVIOUS
  <2> HIDE DEF x, v, Piece
  <2> DEFINE p == Piece(side)
  <2>5. p \in Object /\ p.type = "asteroid" /\ p.x = x /\ p.vel = v /\ p.scale = 0
    BY <2>2, <2>3, <2>4, NewAsteroids
  <2> HIDE DEF p
  <2>6. p \in Sound BY <2>2, <2>3, <2>5, SoundAsteroids
  <2>7. QED BY <2>5, <2>6 DEF p
<1>3. /\ left \in Sound /\ left.type = "asteroid"
      /\ right \in Sound /\ right.type = "asteroid"
  BY <1>2
<1>4. Pieces(pool, a) = IF Cardinality(Unused(pool)) < 3 THEN three
                        ELSE [three EXCEPT ![a] = right]
  BY DEF Pieces
<1> HIDE DEF left, right, Piece
<1>5. one \in [Slots -> Sound] /\ Damage(pool, one) BY <1>3, PieceCreated
<1> HIDE DEF one
<1>6. two \in [Slots -> Sound] /\ Damage(pool, two)
  BY <1>3, <1>5, PieceCreated, MoreDamage
<1> HIDE DEF two
<1>7. three \in [Slots -> Sound] /\ Damage(pool, three)
  BY <1>3, <1>6, PieceCreated, MoreDamage
<1> HIDE DEF three
<1>8. three[a].type \in Rubble BY <1>7 DEF Damage, Rubble
<1>9. /\ [three EXCEPT ![a] = right] \in [Slots -> Sound]
      /\ Damage(pool, [three EXCEPT ![a] = right])
  <2>1. right.type \in Rubble BY <1>3 DEF Rubble
  <2>2. /\ [three EXCEPT ![a] = right] \in [Slots -> Sound]
        /\ Damage(three, [three EXCEPT ![a] = right])
    BY <1>3, <1>7, <1>8, <2>1, RubbleReplaced
  <2>3. QED BY <1>7, <2>2, MoreDamage
<1>10. QED BY <1>4, <1>7, <1>9

LEMMA SplitSound ==
  ASSUME NEW pool \in [Slots -> Sound], NEW a \in Slots, pool[a].type = "asteroid",
         pool[a].scale # 0, NEW q \in Split(pool, a)
  PROVE  q \in [Slots -> Sound] /\ Damage(pool, q)
<1>1. PICK sparks \in sparkCreate(pool, Explosion) : q = Pieces(sparks, a) BY DEF Split
<1>2. sparks \in [Slots -> Sound] /\ Damage(pool, sparks) /\ sparks[a] = pool[a]
  BY SparksDamage
<1>3. q \in [Slots -> Sound] /\ Damage(sparks, q) BY <1>1, <1>2, PiecesSound
<1>4. QED BY <1>2, <1>3, MoreDamage

LEMMA AsteroidStruck ==
  ASSUME NEW pool \in [Slots -> Sound], NEW s, NEW a \in Slots, pool[a].type = "asteroid",
         NEW q \in Struck(pool, s, a)
  PROVE  q \in [Slots -> Sound] /\ Damage(pool, q)
<1>1. ASSUME NEW p \in sparkCreate(pool, Explosion)
      PROVE  p \in [Slots -> Sound] /\ Damage(pool, p) /\ p[a] = pool[a]
  BY <1>1, SparksDamage
<1>2. CASE pool[a].scale = 0
  <2>1. PICK p \in sparkCreate(pool, Explosion) : q = gameObjInstDestroy(p, a)
    BY <1>2 DEF Struck
  <2>2. QED BY <1>1, <2>1, AsteroidDestroyed, MoreDamage
<1>3. CASE pool[a].scale # 0
  <2>1. CASE q \in sparkCreate(pool, Explosion) BY <1>1, <2>1
  <2>2. ASSUME NEW p \in sparkCreate(pool, Explosion), q \in Split(p, a)
        PROVE  q \in [Slots -> Sound] /\ Damage(pool, q)
    <3>1. p \in [Slots -> Sound] /\ Damage(pool, p) /\ p[a] = pool[a] BY <1>1
    <3>2. p[a].type = "asteroid" /\ p[a].scale # 0 BY <1>3, <3>1
    <3>3. q \in [Slots -> Sound] /\ Damage(p, q) BY <2>2, <3>1, <3>2, SplitSound
    <3>4. QED BY <3>1, <3>3, MoreDamage
  <2>3. \/ \E p \in sparkCreate(pool, Explosion) : q \in Split(p, a)
        \/ q \in sparkCreate(pool, Explosion)
    BY <1>3 DEF Struck
  <2>4. QED BY <2>1, <2>2, <2>3
<1>4. QED BY <1>2, <1>3

(* What holds of the game between two slots, and between two frames.       *)
Playing(w) ==
  /\ w \in World /\ w.pool \in [Slots -> Sound]
  /\ HasShip(w.pool, w.spShip) /\ Aims(w.pool)
  /\ w.spShip # Null => w.sShipCtr >= 0

LEMMA WorldFields ==
  ASSUME NEW w \in World
  PROVE  /\ w.pool \in [Slots -> Things] /\ w.spShip \in Slots \cup {Null}
         /\ w.sShipCtr \in -1 .. SHIP_INITIAL_NUM /\ w.hit \in BOOLEAN
BY DEF World, Things

LEMMA PoolReplaced ==
  ASSUME NEW w \in World, NEW q \in [Slots -> Sound]
  PROVE  LET v == [w EXCEPT !.pool = q]
         IN  /\ v \in World /\ v.pool = q /\ v.spShip = w.spShip
             /\ v.sShipCtr = w.sShipCtr /\ v.hit = w.hit
<1>1. q \in [Slots -> Object \cup {Free, Particle}] BY DEF Sound, Things
<1>2. QED BY <1>1 DEF World

LEMMA Damaged ==
  ASSUME NEW w, Playing(w), NEW q \in [Slots -> Sound], Damage(w.pool, q)
  PROVE  LET v == [w EXCEPT !.pool = q]
         IN  Playing(v)
<1> DEFINE v == [w EXCEPT !.pool = q]
<1>1. /\ w \in World /\ w.pool \in [Slots -> Sound]
      /\ HasShip(w.pool, w.spShip) /\ Aims(w.pool)
  BY DEF Playing
<1>2. HasShip(q, w.spShip) /\ Aims(q) BY <1>1, DamageKeeps
<1>3. /\ v \in World /\ v.pool = q /\ v.spShip = w.spShip
      /\ v.sShipCtr = w.sShipCtr /\ v.hit = w.hit
  BY <1>1, PoolReplaced
<1> HIDE DEF v
<1>4. QED BY <1>1, <1>2, <1>3 DEF Playing, v

(* A shot is gone with what it hit. *)
LEMMA ShotDestroyed ==
  ASSUME NEW w, Playing(w), NEW q \in [Slots -> Sound], Damage(w.pool, q),
         NEW s \in Slots, w.pool[s].type \in Shot
  PROVE  LET v == [w EXCEPT !.pool = gameObjInstDestroy(q, s)]
         IN  Playing(v)
<1> DEFINE r == gameObjInstDestroy(q, s)
           v == [w EXCEPT !.pool = r]
<1>1. /\ w \in World /\ w.pool \in [Slots -> Sound]
      /\ HasShip(w.pool, w.spShip) /\ Aims(w.pool)
  BY DEF Playing
<1>2. HasShip(q, w.spShip) /\ Aims(q) BY <1>1, DamageKeeps
<1>3. q[s] = w.pool[s] BY DEF Damage, Rubble, Shot
<1>4. r \in [Slots -> Sound] /\ r[s] = Free /\ \A t \in Slots : t # s => r[t] = q[t]
  BY FreeSound, Replaced DEF gameObjInstDestroy
<1> HIDE DEF r
<1>5. HasShip(r, w.spShip) BY <1>2, <1>3, <1>4, FreeSound DEF HasShip, Shot
<1>6. Aims(r)
  <2>1. ASSUME NEW t \in Slots, r[t].type = "missile", r[t].target # Null
        PROVE  r[r[t].target].type \in Rubble
    <3>1. t # s /\ r[t] = q[t] BY <1>4, <2>1, FreeSound
    <3>2. q[t] \in Things BY DEF Sound
    <3>3. r[t].target \in Slots BY <2>1, <3>1, <3>2, ThingFields
    <3>4. q[r[t].target].type \in Rubble BY <1>2, <2>1, <3>1 DEF Aims
    <3>5. QED BY <1>4, <3>3, <3>4, FreeSound DEF Rubble
  <2>2. QED BY <2>1 DEF Aims
<1>7. /\ v \in World /\ v.pool = r /\ v.spShip = w.spShip
      /\ v.sShipCtr = w.sShipCtr /\ v.hit = w.hit
  BY <1>1, <1>4, PoolReplaced
<1> HIDE DEF v
<1>8. Playing(v) BY <1>1, <1>4, <1>5, <1>6, <1>7 DEF Playing
<1>9. QED BY <1>8 DEF v, r

LEMMA ShotHits ==
  ASSUME NEW w, Playing(w), NEW s \in Slots, w.pool[s].type \in Shot,
         NEW v \in HitByShot(w, s)
  PROVE  Playing(v)
<1> DEFINE met == {a \in Asteroids(w.pool) : Meets(w.pool[s].x, w.pool[a])}
<1>1. CASE met = {} BY <1>1 DEF HitByShot
<1>2. CASE met # {}
  <2> DEFINE a == Min(met)
  <2>1. met \subseteq Slots /\ met \subseteq Nat BY ConstantFacts DEF Asteroids, Of
  <2>2. a \in met BY <1>2, <2>1, MinimumIn
  <2>3. a \in Slots /\ w.pool[a].type = "asteroid" BY <2>2 DEF Asteroids, Of
  <2>4. PICK q \in Struck(w.pool, s, a) : v = [w EXCEPT !.pool = gameObjInstDestroy(q, s)]
    BY <1>2 DEF HitByShot
  <2> HIDE DEF met, a
  <2>5. w.pool \in [Slots -> Sound] BY DEF Playing
  <2>6. q \in [Slots -> Sound] /\ Damage(w.pool, q) BY <2>3, <2>4, <2>5, AsteroidStruck
  <2>7. QED BY <2>4, <2>6, ShotDestroyed
<1>3. QED BY <1>1, <1>2

LEMMA BombHits ==
  ASSUME NEW w, Playing(w), NEW s \in Slots, NEW v \in HitByBomb(w, s)
  PROVE  Playing(v)
<1> DEFINE N == GAME_OBJ_INST_NUM_MAX
           A == {q \in [Slots -> Sound] : Damage(w.pool, q)}
           T == SUBSET A
           Reach(pool, a) ==
             IF pool[a].type # "asteroid" \/ Abs(pool[a].x - pool[s].x) > BombRadius THEN {pool}
             ELSE IF pool[a].scale = 0 THEN sparkCreate(gameObjInstDestroy(pool, a), Explosion)
             ELSE Split(pool, a)
           Next1(n, Q) == UNION {Reach(pool, n) : pool \in Q}
           Pools(f) == [a \in 0 .. N |->
                          IF a = 0 THEN {w.pool} ELSE UNION {Reach(pool, a) : pool \in f[a - 1]}]
           G == [x \in (1 .. N) \X T |-> Next1(x[1], x[2])]
           k == CHOOSE f : f = Pools(f)
<1>1. N \in Nat /\ Slots = 1 .. N BY ConstantFacts DEF Slots
<1>2. {w.pool} \in T BY DEF Playing, Damage
<1>3. PICK pool \in k[N] : v = [w EXCEPT !.pool = pool] BY DEF HitByBomb
<1>15. ASSUME NEW a \in 1 .. N, NEW p \in A, NEW q \in Reach(p, a) PROVE q \in A
  <2>1. a \in Slots /\ p \in [Slots -> Sound] /\ Damage(w.pool, p) BY <1>1
  <2>2. CASE q = p BY <2>2
  <2>3. CASE p[a].type = "asteroid" /\ q \in sparkCreate(gameObjInstDestroy(p, a), Explosion)
    <3> DEFINE d == gameObjInstDestroy(p, a)
    <3> HIDE DEF Reach
    <3>1. d \in [Slots -> Sound] /\ Damage(w.pool, d)
      BY <2>1, <2>3, AsteroidDestroyed, MoreDamage
    <3>2. q \in sparkCreate(d, Explosion) BY <2>3
    <3> HIDE DEF d
    <3>3. q \in [Slots -> Sound] /\ Damage(d, q) BY <3>1, <3>2, SparksDamage
    <3>4. QED BY <3>1, <3>3, MoreDamage
  <2>4. CASE p[a].type = "asteroid" /\ p[a].scale # 0 /\ q \in Split(p, a)
    <3> HIDE DEF Reach
    <3>1. QED BY <2>1, <2>4, SplitSound, MoreDamage
  <2>5. QED BY <1>15, <2>2, <2>3, <2>4
<1> HIDE DEF Reach, A
<1>4. ASSUME NEW n \in 1 .. N, NEW Q \in T PROVE Next1(n, Q) \in T
  BY <1>15
<1>5. G \in [(1 .. N) \X T -> T]
  <2> HIDE DEF Next1, T, N
  <2>1. \A x \in (1 .. N) \X T : Next1(x[1], x[2]) \in T BY <1>4
  <2>2. QED BY <2>1
<1>6. PICK f \in [0 .. N -> T] : f[0] = {w.pool} /\ \A n \in 1 .. N : f[n] = G[<<n, f[n - 1]>>]
  <2> HIDE DEF G, N, T, Pools, k
  <2>1. \E f \in [0 .. N -> T] : Recursion(f, N, {w.pool}, G) BY <1>1, <1>2, <1>5, RecursionUpTo
  <2>2. QED BY <2>1 DEF Recursion
<1>7. ASSUME NEW n \in 0 .. N PROVE f[n] = Pools(f)[n]
  <2>1. CASE n = 0 BY <2>1, <1>6
  <2>2. CASE n # 0
    <3> HIDE DEF T, Next1
    <3>1. n \in 1 .. N /\ n - 1 \in 0 .. N BY <2>2, <1>1
    <3>2. f[n - 1] \in T /\ f[n] = G[<<n, f[n - 1]>>] BY <3>1, <1>6
    <3>3. <<n, f[n - 1]>> \in (1 .. N) \X T BY <3>1, <3>2
    <3>4. f[n] = Next1(n, f[n - 1]) BY <3>2, <3>3
    <3>5. QED BY <3>1, <3>4, <2>2 DEF Next1
  <2>3. QED BY <2>1, <2>2
<1>8. f = Pools(f)
  <2>1. f = [n \in 0 .. N |-> f[n]] BY <1>6
  <2>2. f = [n \in 0 .. N |-> Pools(f)[n]] BY <2>1, <1>7
  <2>3. QED BY <2>2
<1>9. k = Pools(k)
  <2> HIDE DEF Pools
  <2>1. QED BY <1>8
<1> HIDE DEF k
<1>10. ASSUME NEW n \in 0 .. N
       PROVE  k[n] = IF n = 0 THEN {w.pool} ELSE Next1(n, k[n - 1])
  <2>1. k[n] = Pools(k)[n]
    <3> HIDE DEF Pools
    <3>1. QED BY <1>9
  <2>2. QED BY <2>1
<1> HIDE DEF Next1, Pools, T, G
<1>11. k[0] \in T
  <2>1. 0 \in 0 .. N BY <1>1
  <2>2. k[0] = {w.pool} BY <1>10, <2>1
  <2>3. QED BY <1>2, <2>2
<1>12. ASSUME NEW n \in 1 .. N, k[n - 1] \in T PROVE k[n] \in T
  <2>1. n \in 0 .. N /\ n # 0 BY <1>1
  <2>2. k[n] = Next1(n, k[n - 1]) BY <1>10, <2>1
  <2>3. QED BY <1>4, <1>12, <2>2
<1>13. k[N] \in T
  <2>1. \A n \in 0 .. N : k[n] \in T BY <1>1, <1>11, <1>12, StaysIn
  <2>2. QED BY <1>1, <2>1
<1>14. pool \in [Slots -> Sound] /\ Damage(w.pool, pool) BY <1>3, <1>13 DEF T, A
<1>16. QED BY <1>3, <1>14, Damaged

LEMMA Recentred ==
  ASSUME NEW o \in Object, NEW zero \in Int, NEW one \in {-1, 1}
  PROVE  LET q == [o EXCEPT !.x = zero, !.vel = zero, !.dir = one]
         IN  q \in Object /\ q.type = o.type /\ q.x = zero /\ q.vel = zero
BY DEF Object

(* The ship is back in the middle, or lost. *)
LEMMA ShipHits ==
  ASSUME NEW w, Playing(w), NEW s \in Slots, w.pool[s].type = "ship",
         NEW v \in HitShip(w, s)
  PROVE  Playing(v)
<1>15. PICK pool \in sparkCreate(w.pool, Explosion) :
        LET lives == w.sShipCtr - 1
        IN  v = [pool     |-> IF lives < 0 THEN gameObjInstDestroy(pool, s)
                              ELSE [pool EXCEPT ![s] = [w.pool[s] EXCEPT !.x = 0, !.vel = 0, !.dir = 1]],
                 spShip   |-> IF lives < 0 THEN Null ELSE w.spShip,
                 sShipCtr |-> lives, hit |-> TRUE]
  BY DEF HitShip
<1>16. /\ pool \in [Slots -> Sound] /\ pool[s] = w.pool[s]
       /\ HasShip(pool, w.spShip) /\ Aims(pool)
  <2>1. w.pool \in [Slots -> Sound] /\ HasShip(w.pool, w.spShip) /\ Aims(w.pool)
    BY DEF Playing
  <2>2. pool \in [Slots -> Sound] /\ Damage(w.pool, pool) /\ pool[s] = w.pool[s]
    BY <2>1, SparksDamage
  <2>3. QED BY <2>1, <2>2, DamageKeeps
<1>17. pool[s].type = "ship" BY <1>16
<1> DEFINE lives == w.sShipCtr - 1
           back == [pool[s] EXCEPT !.x = 0, !.vel = 0, !.dir = 1]
           q == IF lives < 0 THEN [pool EXCEPT ![s] = Free] ELSE [pool EXCEPT ![s] = back]
           ship == IF lives < 0 THEN Null ELSE s
<1>1. /\ w \in World /\ pool \in [Slots -> Sound] /\ HasShip(pool, w.spShip) /\ Aims(pool)
      /\ w.spShip = s /\ s # Null /\ w.sShipCtr >= 0 /\ w.sShipCtr \in -1 .. SHIP_INITIAL_NUM
  <2>1. /\ w \in World /\ pool \in [Slots -> Sound] /\ HasShip(pool, w.spShip) /\ Aims(pool)
        /\ w.spShip # Null => w.sShipCtr >= 0
    BY <1>16 DEF Playing
  <2>2. w.spShip = s /\ s # Null BY <1>17, <2>1, ConstantFacts DEF HasShip
  <2>3. QED BY <2>1, <2>2, WorldFields
<1>2. lives \in -1 .. SHIP_INITIAL_NUM /\ lives \in Int /\ SHIP_INITIAL_NUM \in Nat
  <2>1. SHIP_INITIAL_NUM \in Nat BY ConstantFacts
  <2> DEFINE c == w.sShipCtr
  <2>2. c >= 0 /\ c \in -1 .. SHIP_INITIAL_NUM /\ lives = c - 1 BY <1>1
  <2> HIDE DEF c, lives
  <2>3. QED BY <2>1, <2>2
<1>3. v = [pool |-> q, spShip |-> ship, sShipCtr |-> lives, hit |-> TRUE]
  BY <1>1, <1>15, <1>16 DEF gameObjInstDestroy
<1>4. back \in Sound /\ back.type = "ship"
  <2>1. pool[s] \in Object /\ pool[s].type = "ship" BY <1>1, <1>17, ShipsSound DEF IsShip
  <2> DEFINE o == pool[s]
  <2>2. o \in Object /\ o.type = "ship" /\ back = [o EXCEPT !.x = 0, !.vel = 0, !.dir = 1]
    BY <2>1
  <2> HIDE DEF o, back
  <2>3. back \in Object /\ back.type = "ship" /\ back.x = 0 /\ back.vel = 0
    <3>1. 0 \in Int /\ 1 \in {-1, 1} OBVIOUS
    <3>2. QED BY <2>2, <3>1, Recentred
  <2>4. 0 \in Window(ShipMargin) /\ 0 \in -ShipSpeed .. ShipSpeed BY Windows, ConstantFacts
  <2>5. IsShip(back) BY <2>3, <2>4 DEF IsShip
  <2>6. QED BY <2>5, ShipsSound
<1> HIDE DEF back, lives
<1>5. /\ q \in [Slots -> Sound] /\ \A t \in Slots : t # s => q[t] = pool[t]
      /\ q[s].type = "ship" <=> ~(lives < 0)
  <2>1. CASE lives < 0
    <3>1. q \in [Slots -> Sound] /\ q[s] = Free /\ \A t \in Slots : t # s => q[t] = pool[t]
      BY <1>1, <2>1, FreeSound, Replaced
    <3> HIDE DEF q
    <3>2. QED BY <2>1, <3>1, FreeSound
  <2>2. CASE ~(lives < 0)
    <3>1. q \in [Slots -> Sound] /\ q[s] = back /\ \A t \in Slots : t # s => q[t] = pool[t]
      BY <1>1, <1>4, <2>2, Replaced
    <3> HIDE DEF q
    <3>2. QED BY <1>4, <2>2, <3>1
  <2>3. QED BY <2>1, <2>2
<1>6. q[s].type # "missile"
  BY <1>1, <1>4, FreeSound, Replaced
<1> HIDE DEF q
<1>7. HasShip(q, ship) BY <1>1, <1>5, ConstantFacts DEF HasShip
<1>8. Aims(q)
  <2>1. ASSUME NEW t \in Slots, q[t].type = "missile", q[t].target # Null
        PROVE  q[q[t].target].type \in Rubble
    <3>1. t # s /\ q[t] = pool[t] BY <1>5, <1>6, <2>1
    <3>2. q[t] \in Things BY <1>5 DEF Sound
    <3>3. q[t].target \in Slots BY <2>1, <3>2, ThingFields
    <3>4. pool[q[t].target].type \in Rubble BY <1>1, <2>1, <3>1 DEF Aims
    <3>5. q[t].target # s BY <1>17, <3>4 DEF Rubble
    <3>6. QED BY <1>5, <3>3, <3>4, <3>5
  <2>2. QED BY <2>1 DEF Aims
<1>9. ship \in Slots \cup {Null} /\ (ship # Null => lives >= 0) BY <1>2
<1> HIDE DEF ship
<1>10. q \in [Slots -> Object \cup {Free, Particle}] BY <1>5 DEF Sound, Things
<1>11. v \in World BY <1>2, <1>3, <1>9, <1>10 DEF World
<1>12. v.pool = q /\ v.spShip = ship /\ v.sShipCtr = lives /\ v.hit = TRUE BY <1>3
<1>13. QED BY <1>5, <1>7, <1>8, <1>9, <1>11, <1>12 DEF Playing

LEMMA Collides ==
  ASSUME NEW u, Playing(u), NEW spared \in BOOLEAN,
         NEW s \in Slots, NEW v \in Collide(u, s, spared)
  PROVE  Playing(v)
<1> DEFINE o == u.pool[s]
           met == \E a \in Asteroids(u.pool) : Meets(o.x, u.pool[a])
<1>1. CASE o.type \in {"bullet", "missile"}
  <2>1. v \in HitByShot(u, s) BY <1>1 DEF Collide
  <2>2. QED BY <1>1, <2>1, ShotHits DEF Shot
<1>2. CASE o.type = "bomb"
  <2>1. v \in HitByBomb(u, s) BY <1>2 DEF Collide
  <2>2. QED BY <2>1, BombHits
<1>3. CASE o.type = "ship" /\ ~spared /\ met
  <2>1. v \in HitShip(u, s) BY <1>3 DEF Collide
  <2>2. QED BY <1>3, <2>1, ShipHits
<1>4. CASE /\ o.type \notin {"bullet", "missile", "bomb"}
           /\ ~(o.type = "ship" /\ ~spared /\ met)
  <2>1. v = u BY <1>4 DEF Collide
  <2>2. QED BY <2>1
<1>5. QED BY <1>1, <1>2, <1>3, <1>4

LEMMA AllCollided ==
  ASSUME NEW w, Playing(w), NEW spared \in BOOLEAN, NEW v \in Collided(w, spared)
  PROVE  Playing(v)
<1> DEFINE N == GAME_OBJ_INST_NUM_MAX
           A == {u \in World : Playing(u)}
           T == SUBSET A
           Next1(n, Q) == UNION {Collide(u, n, spared) : u \in Q}
           Worlds(f) == [n \in 0 .. N |->
                           IF n = 0 THEN {w} ELSE UNION {Collide(u, n, spared) : u \in f[n - 1]}]
           G == [x \in (1 .. N) \X T |-> Next1(x[1], x[2])]
           k == CHOOSE f : f = Worlds(f)
<1>1. N \in Nat /\ Slots = 1 .. N BY ConstantFacts DEF Slots
<1>2. {w} \in T BY DEF Playing
<1>3. Collided(w, spared) = k[N] BY DEF Collided
<1>4. ASSUME NEW n \in 1 .. N, NEW Q \in T PROVE Next1(n, Q) \in T
  <2>1. ASSUME NEW u \in Q, NEW r \in Collide(u, n, spared) PROVE r \in A
    <3>1. n \in Slots /\ Playing(u) BY <1>1
    <3>2. Playing(r) BY <2>1, <3>1, Collides
    <3>3. QED BY <3>2 DEF Playing
  <2> HIDE DEF A
  <2>2. QED BY <2>1
<1>5. G \in [(1 .. N) \X T -> T]
  <2> HIDE DEF Next1, T, N
  <2>1. \A x \in (1 .. N) \X T : Next1(x[1], x[2]) \in T BY <1>4
  <2>2. QED BY <2>1
<1>6. PICK f \in [0 .. N -> T] : f[0] = {w} /\ \A n \in 1 .. N : f[n] = G[<<n, f[n - 1]>>]
  <2> HIDE DEF G, N, T, Worlds, k
  <2>1. \E f \in [0 .. N -> T] : Recursion(f, N, {w}, G) BY <1>1, <1>2, <1>5, RecursionUpTo
  <2>2. QED BY <2>1 DEF Recursion
<1>7. ASSUME NEW n \in 0 .. N PROVE f[n] = Worlds(f)[n]
  <2>1. CASE n = 0 BY <2>1, <1>6
  <2>2. CASE n # 0
    <3> HIDE DEF T, Next1
    <3>1. n \in 1 .. N /\ n - 1 \in 0 .. N BY <2>2, <1>1
    <3>2. f[n - 1] \in T /\ f[n] = G[<<n, f[n - 1]>>] BY <3>1, <1>6
    <3>3. <<n, f[n - 1]>> \in (1 .. N) \X T BY <3>1, <3>2
    <3>4. f[n] = Next1(n, f[n - 1]) BY <3>2, <3>3
    <3>5. QED BY <3>1, <3>4, <2>2 DEF Next1
  <2>3. QED BY <2>1, <2>2
<1>8. f = Worlds(f)
  <2>1. f = [n \in 0 .. N |-> f[n]] BY <1>6
  <2>2. f = [n \in 0 .. N |-> Worlds(f)[n]] BY <2>1, <1>7
  <2>3. QED BY <2>2
<1>9. k = Worlds(k)
  <2> HIDE DEF Worlds
  <2>1. QED BY <1>8
<1> HIDE DEF k
<1>10. ASSUME NEW n \in 0 .. N
       PROVE  k[n] = IF n = 0 THEN {w} ELSE Next1(n, k[n - 1])
  <2>1. k[n] = Worlds(k)[n]
    <3> HIDE DEF Worlds
    <3>1. QED BY <1>9
  <2>2. QED BY <2>1
<1> HIDE DEF Next1, Worlds, T, G
<1>11. k[0] \in T BY <1>1, <1>2, <1>10
<1>12. ASSUME NEW n \in 1 .. N, k[n - 1] \in T PROVE k[n] \in T
  <2>1. n \in 0 .. N /\ n # 0 BY <1>1
  <2>2. k[n] = Next1(n, k[n - 1]) BY <1>10, <2>1
  <2>3. QED BY <1>4, <1>12, <2>2
<1>13. k[N] \in T
  <2>1. \A n \in 0 .. N : k[n] \in T BY <1>1, <1>11, <1>12, StaysIn
  <2>2. QED BY <1>1, <2>1
<1>14. QED BY <1>3, <1>13 DEF T

-----------------------------------------------------------------------------
(* A frame, and the start of the game. *)

(* What the collisions start with: after the update of the objects no      *)
(* missile follows anything but an asteroid.                               *)
LEMMA UpdatedSound ==
  ASSUME NEW pool \in [Slots -> Sound], NEW ship, HasShip(pool, ship),
         NEW dt \in 0 .. Longest, NEW r \in Updated(WrapShips(Physics(pool, dt)), dt)
  PROVE  r \in [Slots -> Sound] /\ HasShip(r, ship) /\ Aims(r)
<1> DEFINE p == WrapShips(Physics(pool, dt))
<1>1. \A s \in Slots : p[s] \in Things /\ p[s].type = pool[s].type /\ Moved(p[s])
  BY Flies
<1>2. p \in [Slots -> Things]
  <2>1. p = [s \in Slots |-> p[s]] BY DEF WrapShips
  <2> HIDE DEF p
  <2>2. QED BY <1>1, <2>1
<1>3. HasShip(p, ship) BY <1>1 DEF HasShip
<1>4. dt \in Nat BY ConstantFacts
<1>5. r \in Updated(p, dt) OBVIOUS
<1> HIDE DEF p
<1>6. p \in Underway(ship) BY <1>1, <1>2, <1>3 DEF Underway
<1>7. r \in Underway(ship) /\ Finished(GAME_OBJ_INST_NUM_MAX, r)
  BY <1>4, <1>5, <1>6, PoolUpdated
<1>8. \A s \in Slots : s <= GAME_OBJ_INST_NUM_MAX BY ConstantFacts DEF Slots
<1>9. r \in [Slots -> Sound] /\ HasShip(r, ship) BY <1>7, <1>8 DEF Underway, Finished
<1>10. Aims(r) BY <1>7, <1>8 DEF Finished, Aims, Rubble
<1>11. QED BY <1>9, <1>10

LEMMA FramePassed ==
  ASSUME NEW w, Playing(w), NEW pressed, NEW triggered, NEW dt \in 0 .. Longest,
         NEW spared \in BOOLEAN,
         NEW fired \in Input(w, pressed, triggered, dt), NEW pool \in Spawned(fired),
         NEW updated \in Updated(WrapShips(Physics(pool, dt)), dt),
         NEW v \in Collided([w EXCEPT !.pool = updated, !.hit = FALSE], spared)
  PROVE  Playing(v)
<1>1. /\ w \in World /\ w.pool \in [Slots -> Sound] /\ HasShip(w.pool, w.spShip)
      /\ w.spShip \in Slots \cup {Null}
      /\ w.spShip # Null => w.sShipCtr >= 0
  BY WorldFields DEF Playing
<1>2. fired \in [Slots -> Sound] /\ HasShip(fired, w.spShip) BY <1>1, InputTaken
<1>3. pool \in [Slots -> Sound] /\ HasShip(pool, w.spShip) BY <1>2, Spawns
<1>4. updated \in [Slots -> Sound] /\ HasShip(updated, w.spShip) /\ Aims(updated)
  BY <1>3, UpdatedSound
<1> DEFINE u == [w EXCEPT !.pool = updated, !.hit = FALSE]
<1>5. updated \in [Slots -> Object \cup {Free, Particle}] BY <1>4 DEF Sound, Things
<1>6. /\ u \in World /\ u.pool = updated /\ u.spShip = w.spShip /\ u.sShipCtr = w.sShipCtr
  BY <1>1, <1>5 DEF World
<1>7. v \in Collided(u, spared) OBVIOUS
<1> HIDE DEF u
<1>8. Playing(u) BY <1>1, <1>4, <1>6 DEF Playing
<1>9. QED BY <1>7, <1>8, AllCollided

LEMMA EmptyPlaying == Playing(EmptyWorld)
<1> DEFINE pool == [s \in Slots |-> Free]
<1>1. EmptyWorld = [pool |-> pool, spShip |-> Null, sShipCtr |-> SHIP_INITIAL_NUM, hit |-> FALSE]
  BY DEF EmptyWorld
<1>2. pool \in [Slots -> Sound] /\ pool \in [Slots -> Object \cup {Free, Particle}]
      /\ \A s \in Slots : pool[s] = Free
  BY FreeSound
<1> HIDE DEF pool
<1>3. SHIP_INITIAL_NUM \in -1 .. SHIP_INITIAL_NUM BY ConstantFacts
<1>4. EmptyWorld \in World BY <1>1, <1>2, <1>3 DEF World
<1>5. EmptyWorld.pool = pool /\ EmptyWorld.spShip = Null BY <1>1
<1>6. HasShip(pool, Null) BY <1>2, FreeSound, ConstantFacts DEF HasShip
<1>7. Aims(pool) BY <1>2, FreeSound DEF Aims
<1>8. QED BY <1>2, <1>4, <1>5, <1>6, <1>7 DEF Playing

LEMMA FirstShip ==
  LET pool == gameObjInstCreate(EmptyWorld.pool, Instance("ship", 0, 0, 1))
  IN  /\ pool \in [Slots -> Sound] /\ HasShip(pool, 1)
      /\ \A s \in Slots : pool[s].type # "missile"
<1> DEFINE o == Instance("ship", 0, 0, 1)
           empty == EmptyWorld.pool
           pool == gameObjInstCreate(empty, o)
<1>1. empty = [s \in Slots |-> Free] BY DEF EmptyWorld
<1>2. o \in Sound /\ o.type = "ship"
  <2>1. o \in Object /\ o.type = "ship" /\ o.x = 0 /\ o.vel = 0 BY Instances
  <2> HIDE DEF o
  <2>2. 0 \in Window(ShipMargin) /\ 0 \in -ShipSpeed .. ShipSpeed BY Windows, ConstantFacts
  <2>3. QED BY <2>1, <2>2, SoundShips
<1> HIDE DEF o, empty
<1>3. empty \in [Slots -> Sound] /\ \A s \in Slots : empty[s].type = "free"
  BY <1>1, FreeSound
<1>4. Unused(empty) = Slots BY <1>3 DEF Unused, Of
<1>5. Min(Slots) = 1
  <2>1. Slots \subseteq Nat /\ 1 \in Slots /\ \A s \in Slots : s >= 1
    BY ConstantFacts DEF Slots
  <2> DEFINE m == Min(Slots)
  <2>2. m \in Slots /\ m <= 1 BY <2>1, MinimumIn
  <2> HIDE DEF m
  <2>3. m = 1 BY <2>1, <2>2
  <2>4. QED BY <2>3 DEF m
<1>6. 1 \in Slots BY ConstantFacts
<1>7. pool = [empty EXCEPT ![1] = o] BY <1>4, <1>5, <1>6 DEF gameObjInstCreate
<1> HIDE DEF pool
<1>8. pool \in [Slots -> Sound] /\ pool[1] = o /\ \A s \in Slots : s # 1 => pool[s] = empty[s]
  BY <1>2, <1>3, <1>6, <1>7, Replaced
<1>9. QED BY <1>2, <1>3, <1>6, <1>8 DEF HasShip, pool, o, empty

(* The ship and the asteroids of Game::Init. *)
LEMMA GameInitialised ==
  ASSUME InitGame
  PROVE  Playing(world')
<1> DEFINE N == sAstNum
           first == gameObjInstCreate(EmptyWorld.pool, Instance("ship", 0, 0, 1))
           T == {q \in [Slots -> Sound] : /\ HasShip(q, 1)
                                          /\ \A s \in Slots : q[s].type # "missile"}
<1>1. N \in Nat BY ConstantFacts
<1>2. first \in T BY FirstShip
<1> HIDE DEF first
<1>3. PICK pos \in [1 .. N -> Edge], vel \in [1 .. N -> {-1, 1}] :
        LET Pool[n \in 0 .. N] ==
              IF n = 0 THEN first ELSE gameObjInstCreate(Pool[n - 1], Asteroid(pos[n], vel[n], 1))
        IN  world' = [EmptyWorld EXCEPT !.pool = Pool[N], !.spShip = 1]
  BY DEF InitGame, first
<1> DEFINE Next1(n, q) == gameObjInstCreate(q, Asteroid(pos[n], vel[n], 1))
           Pools(f) == [n \in 0 .. N |->
                          IF n = 0 THEN first
                          ELSE gameObjInstCreate(f[n - 1], Asteroid(pos[n], vel[n], 1))]
           G == [x \in (1 .. N) \X T |-> Next1(x[1], x[2])]
           k == CHOOSE f : f = Pools(f)
<1>4. world' = [EmptyWorld EXCEPT !.pool = k[N], !.spShip = 1] BY <1>3
<1>5. ASSUME NEW n \in 1 .. N, NEW q \in T PROVE Next1(n, q) \in T
  <2> DEFINE o == Asteroid(pos[n], vel[n], 1)
             r == gameObjInstCreate(q, o)
  <2>1. pos[n] \in Edge /\ vel[n] \in {-1, 1} OBVIOUS
  <2>2. /\ q \in [Slots -> Sound] /\ HasShip(q, 1)
        /\ \A s \in Slots : q[s].type # "missile"
    OBVIOUS
  <2>3. Next1(n, q) = r OBVIOUS
  <2> HIDE DEF Next1, T, N, G, Pools, k
  <2>4. o \in Sound /\ o.type = "asteroid" BY <2>1, Newcomers
  <2> HIDE DEF o
  <2>5. r \in [Slots -> Sound] /\ Grown(q, r) BY <2>2, <2>4, CreatedSound
  <2>6. \A s \in Slots : r[s] = q[s] \/ r[s] = o BY <2>2, <2>4, CreatedSound
  <2> HIDE DEF r
  <2>7. HasShip(r, 1) BY <2>2, <2>5, ShipStays
  <2>8. \A s \in Slots : r[s].type # "missile" BY <2>2, <2>4, <2>6
  <2>9. QED BY <2>3, <2>5, <2>7, <2>8 DEF T
<1>6. G \in [(1 .. N) \X T -> T]
  <2> HIDE DEF Next1, T, N
  <2>1. \A x \in (1 .. N) \X T : Next1(x[1], x[2]) \in T BY <1>5
  <2>2. QED BY <2>1
<1>7. PICK f \in [0 .. N -> T] : f[0] = first /\ \A n \in 1 .. N : f[n] = G[<<n, f[n - 1]>>]
  <2> HIDE DEF G, N, T, Pools, k
  <2>1. \E f \in [0 .. N -> T] : Recursion(f, N, first, G) BY <1>1, <1>2, <1>6, RecursionUpTo
  <2>2. QED BY <2>1 DEF Recursion
<1>8. ASSUME NEW n \in 0 .. N PROVE f[n] = Pools(f)[n]
  <2>1. CASE n = 0 BY <2>1, <1>7
  <2>2. CASE n # 0
    <3> HIDE DEF T, Next1
    <3>1. n \in 1 .. N /\ n - 1 \in 0 .. N BY <2>2, <1>1
    <3>2. f[n - 1] \in T /\ f[n] = G[<<n, f[n - 1]>>] BY <3>1, <1>7
    <3>3. <<n, f[n - 1]>> \in (1 .. N) \X T BY <3>1, <3>2
    <3>4. f[n] = Next1(n, f[n - 1]) BY <3>2, <3>3
    <3>5. QED BY <3>1, <3>4, <2>2 DEF Next1
  <2>3. QED BY <2>1, <2>2
<1>9. f = Pools(f)
  <2>1. f = [n \in 0 .. N |-> f[n]] BY <1>7
  <2>2. f = [n \in 0 .. N |-> Pools(f)[n]] BY <2>1, <1>8
  <2>3. QED BY <2>2
<1>10. k = Pools(k)
  <2> HIDE DEF Pools
  <2>1. QED BY <1>9
<1> HIDE DEF k
<1>11. ASSUME NEW n \in 0 .. N
       PROVE  k[n] = IF n = 0 THEN first ELSE Next1(n, k[n - 1])
  <2>1. k[n] = Pools(k)[n]
    <3> HIDE DEF Pools
    <3>1. QED BY <1>10
  <2>2. QED BY <2>1
<1> HIDE DEF Next1, Pools, T, G
<1>12. k[0] \in T BY <1>1, <1>2, <1>11
<1>13. ASSUME NEW n \in 1 .. N, k[n - 1] \in T PROVE k[n] \in T
  <2>1. n \in 0 .. N /\ n # 0 BY <1>1
  <2>2. k[n] = Next1(n, k[n - 1]) BY <1>11, <2>1
  <2>3. QED BY <1>5, <1>13, <2>2
<1>14. k[N] \in T
  <2>1. \A n \in 0 .. N : k[n] \in T BY <1>1, <1>12, <1>13, StaysIn
  <2>2. QED BY <1>1, <2>1
<1> DEFINE q == k[N]
<1>15. q \in [Slots -> Sound] /\ HasShip(q, 1) /\ \A s \in Slots : q[s].type # "missile"
  BY <1>14 DEF T
<1> HIDE DEF q
<1>16. world' = [EmptyWorld EXCEPT !.pool = q, !.spShip = 1] BY <1>4 DEF q
<1>17. EmptyWorld.sShipCtr = SHIP_INITIAL_NUM /\ EmptyWorld \in World
       /\ SHIP_INITIAL_NUM \in Nat
  BY EmptyPlaying, ConstantFacts DEF EmptyWorld, Playing
<1>18. q \in [Slots -> Object \cup {Free, Particle}] BY <1>15 DEF Sound, Things
<1>19. world' \in World /\ world'.pool = q /\ world'.spShip = 1
       /\ world'.sShipCtr = SHIP_INITIAL_NUM
  <2>1. 1 \in Slots \cup {Null} BY ConstantFacts
  <2>2. QED BY <1>16, <1>17, <1>18, <2>1 DEF World
<1>20. Aims(q) BY <1>15 DEF Aims
<1>21. SHIP_INITIAL_NUM >= 0 BY <1>17
<1>22. QED BY <1>15, <1>19, <1>20, <1>21 DEF Playing

-----------------------------------------------------------------------------
(* The invariant. *)

Rest ==
  /\ phase \in {"main", "config", "load", "network", "socket", "init", "play", "over", "crashed"}
  /\ player \in Players
  /\ key_states \subseteq player \cap Triggers
  /\ inmortal \in BOOLEAN /\ timer \in 0 .. Inmortal - 1 /\ whole \in BOOLEAN

IInv == Rest /\ Playing(world)

LEMMA InvariantImplies ==
  ASSUME IInv
  PROVE  TypeOK /\ InWindow /\ MissileAims
<1>1. world \in World /\ world.pool \in [Slots -> Sound] /\ Aims(world.pool)
  BY DEF IInv, Playing
<1>2. \A s \in Slots : Near(world.pool[s]) /\ Inside(world.pool[s]) BY <1>1 DEF Sound
<1>3. TypeOK BY <1>1, <1>2 DEF IInv, Rest, TypeOK
<1>4. InWindow BY <1>2 DEF InWindow, Inside
<1>5. MissileAims BY <1>1 DEF MissileAims, Aims, Of, Rubble
<1>6. QED BY <1>3, <1>4, <1>5

LEMMA InvariantInit ==
  ASSUME Init
  PROVE  IInv
<1>1. Playing(world) BY EmptyPlaying DEF Init
<1>2. Inmortal \in Nat \ {0} BY ConstantFacts
<1>3. /\ phase = "main" /\ player \in Players /\ key_states = {} /\ inmortal = FALSE
      /\ timer = 0 /\ whole = FALSE
  BY DEF Init
<1>4. timer \in 0 .. Inmortal - 1 BY <1>2, <1>3
<1>5. Rest BY <1>3, <1>4 DEF Rest
<1>6. QED BY <1>1, <1>5 DEF IInv

LEMMA FramePlayed ==
  ASSUME IInv, NEW length \in 1 .. MaxFrame, Frame(length)
  PROVE  Playing(world') /\ inmortal' \in BOOLEAN /\ timer' \in 0 .. Inmortal - 1
<1> DEFINE t       == IF inmortal THEN timer + length ELSE timer
           spared  == inmortal /\ t < Inmortal
           dt      == length \div 2
           choices == {keys \in SUBSET player : keys \cap Triggers = key_states'}
<1>1. /\ Playing(world) /\ inmortal \in BOOLEAN /\ timer \in 0 .. Inmortal - 1
      /\ Inmortal \in Nat \ {0} /\ length \in Nat \ {0} /\ length <= MaxFrame /\ MaxFrame \in Nat
  BY ConstantFacts DEF IInv, Rest
<1>2. /\ Passes(choices, dt, spared)
      /\ timer' = IF inmortal THEN TimerAfter(t) ELSE timer
      /\ inmortal' = (spared \/ world'.hit)
  BY DEF Frame
<1>3. spared \in BOOLEAN OBVIOUS
<1>4. dt \in 0 .. Longest
  <2>1. dt \in Nat /\ dt <= MaxFrame \div 2 BY <1>1
  <2>2. QED BY <2>1, ConstantFacts DEF Longest
<1>5. Playing(world')
  <2> HIDE DEF spared, dt, choices
  <2> DEFINE fired   == UNION {Input(world, keys, keys \ key_states, dt) : keys \in choices}
             spawned == UNION {Spawned(pool) : pool \in fired}
             updated == UNION {Updated(WrapShips(Physics(pool, dt)), dt) : pool \in spawned}
  <2>1. PICK after \in updated :
          world' \in Collided([world EXCEPT !.pool = after, !.hit = FALSE], spared)
    BY <1>2 DEF Passes
  <2>2. PICK pool \in spawned : after \in Updated(WrapShips(Physics(pool, dt)), dt)
    <3> HIDE DEF spawned
    <3>1. QED BY <2>1
  <2>3. PICK before \in fired : pool \in Spawned(before)
    <3> HIDE DEF fired
    <3>1. QED BY <2>2
  <2>4. PICK keys \in choices : before \in Input(world, keys, keys \ key_states, dt)
    BY <2>3
  <2> HIDE DEF fired, spawned, updated
  <2> DEFINE triggered == keys \ key_states
             w         == world
             v         == world'
  <2>5. /\ Playing(w) /\ before \in Input(w, keys, triggered, dt)
        /\ v \in Collided([w EXCEPT !.pool = after, !.hit = FALSE], spared)
    BY <1>1, <2>1, <2>4
  <2> HIDE DEF triggered, w, v
  <2>6. Playing(v) BY <1>3, <1>4, <2>2, <2>3, <2>5, FramePassed
  <2>7. QED BY <2>6 DEF v
<1>6. world'.hit \in BOOLEAN BY <1>5, WorldFields DEF Playing
<1>7. inmortal' \in BOOLEAN BY <1>2, <1>3, <1>6
<1>8. timer' \in 0 .. Inmortal - 1
  <2>1. CASE inmortal
    <3>1. t \in Nat /\ timer' = TimerAfter(t) BY <1>1, <1>2, <2>1
    <3> HIDE DEF t
    <3>2. QED BY <1>1, <3>1 DEF TimerAfter
  <2>2. CASE ~inmortal BY <1>1, <1>2, <2>2
  <2>3. QED BY <2>1, <2>2
<1>9. QED BY <1>5, <1>7, <1>8

LEMMA InvariantStep ==
  ASSUME IInv, [Next]_vars
  PROVE  IInv'
<1>1. ASSUME NEW from, NEW to, Enter(from, to),
             to \in {"config", "load", "network", "socket", "init", "crashed"}
      PROVE  IInv'
  <2>1. phase' = to /\ UNCHANGED <<player, key_states, world, inmortal, timer, whole>>
    BY <1>1 DEF Enter
  <2>2. Playing(world)' BY <2>1 DEF IInv
  <2>3. Rest' BY <1>1, <2>1 DEF IInv, Rest
  <2>4. QED BY <2>2, <2>3 DEF IInv
<1>2. CASE CreateWindow BY <1>1, <1>2 DEF CreateWindow
<1>3. CASE ReadConfig BY <1>1, <1>3 DEF ReadConfig
<1>4. CASE Load BY <1>1, <1>4 DEF Load
<1>5. CASE network_create BY <1>1, <1>5 DEF network_create
<1>6. CASE StartNetwork BY <1>1, <1>6 DEF StartNetwork
<1>7. CASE InitGame
  <2>1. Playing(world') BY <1>7, GameInitialised
  <2>2. phase' = "play" /\ UNCHANGED <<player, key_states, inmortal, timer, whole>>
    BY <1>7 DEF InitGame
  <2>3. Rest' BY <2>2 DEF IInv, Rest
  <2>4. QED BY <2>1, <2>3 DEF IInv
<1>8. ASSUME NEW length \in 1 .. MaxFrame, Frame(length) PROVE IInv'
  <2>1. Playing(world') /\ inmortal' \in BOOLEAN /\ timer' \in 0 .. Inmortal - 1
    BY <1>8, FramePlayed
  <2>2. /\ key_states' \in SUBSET (player \cap Triggers) /\ whole' \in BOOLEAN
        /\ UNCHANGED <<phase, player>>
    BY <1>8 DEF Frame
  <2>3. Rest' BY <2>1, <2>2 DEF IInv, Rest
  <2>4. QED BY <2>1, <2>3 DEF IInv
<1>9. CASE Destroy
  <2>1. Playing(world') BY <1>9, EmptyPlaying DEF Destroy
  <2>2. Inmortal \in Nat \ {0} BY ConstantFacts
  <2>3. /\ phase' = "over" /\ player' \in Players /\ key_states' = {} /\ inmortal' = FALSE
        /\ timer' = 0 /\ whole' = FALSE
    BY <1>9 DEF Destroy, IInv, Rest
  <2>4. timer' \in 0 .. Inmortal - 1 BY <2>2, <2>3
  <2>5. Rest' BY <2>3, <2>4 DEF Rest
  <2>6. QED BY <2>1, <2>5 DEF IInv
<1>10. CASE UNCHANGED vars
  <2>1. UNCHANGED <<phase, player, key_states, world, inmortal, timer, whole>>
    BY <1>10 DEF vars
  <2>2. Playing(world)' BY <2>1 DEF IInv
  <2>3. Rest' BY <2>1 DEF IInv, Rest
  <2>4. QED BY <2>2, <2>3 DEF IInv
<1>11. QED
  BY <1>2, <1>3, <1>4, <1>5, <1>6, <1>7, <1>8, <1>9, <1>10 DEF Next

LEMMA Invariance == Spec => []IInv
<1>1. Init => IInv BY InvariantInit
<1>2. IInv /\ [Next]_vars => IInv' BY InvariantStep
<1>3. QED BY <1>1, <1>2, PTL DEF Spec

(* Types and speeds: dampening and the limit keep every speed in bounds,   *)
(* although thrust, the pull and the pieces of an asteroid add to it.      *)
THEOREM FrameTypeCorrect == Spec => []TypeOK
<1>1. IInv => TypeOK BY InvariantImplies
<1>2. QED BY <1>1, Invariance, PTL

(* No ship and no asteroid is left outside the range that wraps, as long   *)
(* as no frame is long enough to cross it.                                 *)
THEOREM NothingEscapes == Spec => []InWindow
<1>1. IInv => InWindow BY InvariantImplies
<1>2. QED BY <1>1, Invariance, PTL

(* The pointer a missile keeps into the pool is to an asteroid, or, until  *)
(* the missile looks again, to a slot that is free or holds a particle: it *)
(* is never to what is fired later.                                        *)
THEOREM MissilesFollowAsteroids == Spec => []MissileAims
<1>1. IInv => MissileAims BY InvariantImplies
<1>2. QED BY <1>1, Invariance, PTL
=============================================================================
