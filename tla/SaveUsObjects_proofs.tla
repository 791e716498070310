------------------------ MODULE SaveUsObjects_proofs ------------------------
(* The pools of objects, for any number of players, slots, asteroids and   *)
(* particles: what points into a pool stays right, an asteroid is          *)
(* destroyed once, the asteroids never come apart into more pieces than    *)
(* were asked for, and a client never runs ahead of the server.            *)
EXTENDS SaveUsObjects, FiniteSetTheorems, NaturalsInduction, WellFoundedInduction, TLAPS

LEMMA ConstantFacts ==
  /\ Server \in Player /\ Server \notin Clients /\ Clients \subseteq Player
  /\ Player = {Server} \cup Clients
  /\ Slots \subseteq Int /\ Null \notin Slots /\ Absent \notin Slots /\ Absent # Null
  /\ AstIds \subseteq Int /\ MaxAsteroid \in Nat /\ 0 \in Sizes /\ SizeMax \in Sizes
  /\ Sizes \subseteq Int /\ NoSize \notin Sizes
  /\ Colours \subseteq {6, 7, 8} /\ Weapons = {1, 2, 3}
BY ObjectsAssumption, BoundsAssumption
DEF ObjectsAssumption, BoundsAssumption, Server, Clients, Slots, Null, Absent, AstIds,
    Sizes, NoSize, Weapons, TYPE_BULLET, TYPE_BOMB, TYPE_MISSILE, TYPE_PTCL_WHITE,
    TYPE_PTCL_RED

LEMMA SlotsFinite == IsFiniteSet(Slots)
BY ObjectsAssumption, FS_Interval DEF ObjectsAssumption, Slots

Types == {TYPE_SHIP, TYPE_ASTEROID} \cup Weapons \cup Colours
Pools == [Slots -> Object \cup {Free}]

LEMMA TypeFacts ==
  /\ Types \subseteq Nat /\ TYPE_SHIP = 0 /\ TYPE_ASTEROID = 4
  /\ TYPE_ASTEROID \notin Weapons \cup Colours /\ TYPE_SHIP \notin Weapons \cup Colours
  /\ Weapons \cap Colours = {}
  /\ \A o \in Object : o.type \in Types /\ o # Free
  /\ Free.type = -1
  /\ Free \notin Object
<1>1. Free.type = -1 BY DEF Free
<1>2. Types \subseteq Nat BY ConstantFacts DEF Types, TYPE_SHIP, TYPE_ASTEROID
<1>3. \A o \in Object : o.type \in Types BY DEF Object, Types
<1>4. -1 \notin Types BY <1>2
<1>5. QED BY ConstantFacts, <1>1, <1>2, <1>3, <1>4 DEF TYPE_SHIP, TYPE_ASTEROID

-----------------------------------------------------------------------------
(* What must hold of one game.                                             *)

(* mAsteroids and sAstCtr agree with the pool. *)
Listing(g) ==
  /\ g.sAstCtr = Cardinality(Asteroids(g))
  /\ \A s \in Asteroids(g) : g.pool[s].m_id \in AstIds /\ g.mAsteroids[g.pool[s].m_id] = s
  /\ \A i \in AstIds : g.mAsteroids[i] # Null =>
       g.mAsteroids[i] \in Asteroids(g) /\ g.pool[g.mAsteroids[i]].m_id = i

Ship(g, i, s) == g.pool[s].type = TYPE_SHIP /\ g.pool[s].m_id = i

(* mShips and spShip point to ships. *)
ShipsAt(p, g) ==
  /\ \A i \in Player : g.mShips[i] \in Slots => Ship(g, i, g.mShips[i])
  /\ g.spShip # Null => Ship(g, p, g.spShip)

Good(p, g) == g \in World /\ Listing(g) /\ ShipsAt(p, g)

(* A step from g to h that leaves the asteroids and the number wanted of   *)
(* them, or the ships, alone.                                              *)
Untouched(g, h) ==
  /\ h.mAsteroids = g.mAsteroids /\ h.sAstCtr = g.sAstCtr /\ h.asteroids_id = g.asteroids_id
  /\ h.sAstNum = g.sAstNum
  /\ \A s \in Slots : \/ h.pool[s] = g.pool[s]
                      \/ g.pool[s].type # TYPE_ASTEROID /\ h.pool[s].type # TYPE_ASTEROID

ShipsKept(g, h) ==
  /\ h.mShips = g.mShips /\ h.spShip = g.spShip
  /\ \A s \in Slots : g.pool[s].type = TYPE_SHIP => h.pool[s] = g.pool[s]

(* What is in the pool stays as it is. *)
Occupied(g, h) == \A s \in Slots : g.pool[s] # Free => h.pool[s] = g.pool[s]

LEMMA WorldFields ==
  ASSUME NEW g \in World
  PROVE  /\ g.pool \in Pools /\ g.mAsteroids \in [AstIds -> Slots \cup {Null}]
         /\ g.mShips \in [Player -> Slots \cup {Null, Absent}]
         /\ g.spShip \in Slots \cup {Null} /\ g.sAstCtr \in Nat /\ g.sAstNum \in Nat
         /\ g.asteroids_id \in 0 .. MaxAsteroid /\ g.mScores \in [Player -> Nat]
         /\ g.sShipCtr \in Int /\ g.game_ended \in BOOLEAN /\ g.game_won \in BOOLEAN
BY DEF World, Pools

LEMMA PoolTypes ==
  ASSUME NEW g \in World, NEW s \in Slots
  PROVE  /\ g.pool[s] \in Object \cup {Free}
         /\ g.pool[s] = Free \/ (g.pool[s] \in Object /\ g.pool[s].type \in Types)
         /\ g.pool[s].type \in Int
         /\ g.pool[s] = Free <=> g.pool[s].type = -1
<1>1. g.pool[s] \in Object \cup {Free} BY WorldFields DEF Pools
<1>2. CASE g.pool[s] = Free BY <1>1, <1>2, TypeFacts
<1>3. CASE g.pool[s] # Free
  <2>1. g.pool[s] \in Object BY <1>1, <1>3
  <2>4. g.pool[s].type \in Types BY <2>1, TypeFacts
  <2>2. g.pool[s].type \in Nat BY <2>4, TypeFacts
  <2>3. QED BY <1>1, <1>3, <2>1, <2>2, <2>4
<1>4. QED BY <1>2, <1>3

LEMMA AsteroidsFinite ==
  ASSUME NEW g
  PROVE  IsFiniteSet(Asteroids(g)) /\ Asteroids(g) \subseteq Slots
<1>1. Asteroids(g) \in SUBSET Slots BY DEF Asteroids, Of
<1>2. QED BY <1>1, SlotsFinite, FS_Subset

LEMMA SameAsteroids ==
  ASSUME NEW g \in World, NEW h \in World, Untouched(g, h)
  PROVE  /\ Asteroids(h) = Asteroids(g)
         /\ \A s \in Asteroids(g) : h.pool[s] = g.pool[s]
BY DEF Untouched, Asteroids, Of

LEMMA ListingKept ==
  ASSUME NEW g \in World, NEW h \in World, Untouched(g, h), Listing(g)
  PROVE  /\ Listing(h)
         /\ AllAsteroids(h) = AllAsteroids(g)
<1>1. h.mAsteroids = g.mAsteroids /\ h.sAstCtr = g.sAstCtr BY DEF Untouched
<1>2. Listing(h) BY <1>1, SameAsteroids DEF Listing
<1>3. \A i \in AstIds : g.mAsteroids[i] # Null =>
        h.pool[g.mAsteroids[i]] = g.pool[g.mAsteroids[i]]
  BY SameAsteroids DEF Listing
<1>4. AllAsteroids(h) = AllAsteroids(g) BY <1>1, <1>3 DEF AllAsteroids
<1>5. QED BY <1>2, <1>4

LEMMA ShipsStay ==
  ASSUME NEW p, NEW g \in World, NEW h \in World, ShipsKept(g, h), ShipsAt(p, g)
  PROVE  ShipsAt(p, h)
BY WorldFields DEF ShipsKept, ShipsAt, Ship

LEMMA GoodKept ==
  ASSUME NEW p, NEW g, NEW h \in World, Good(p, g), Untouched(g, h), ShipsKept(g, h)
  PROVE  Good(p, h)
BY ListingKept, ShipsStay DEF Good

LEMMA UntouchedChain ==
  ASSUME NEW g, NEW h, NEW k, Untouched(g, h), Untouched(h, k)
  PROVE  Untouched(g, k)
BY DEF Untouched

LEMMA ShipsKeptChain ==
  ASSUME NEW g, NEW h, NEW k, ShipsKept(g, h), ShipsKept(h, k)
  PROVE  ShipsKept(g, k)
BY DEF ShipsKept

-----------------------------------------------------------------------------
(* Creation. *)

LEMMA Least ==
  ASSUME NEW T, T \subseteq Nat, T # {}
  PROVE  \E x \in T : \A y \in T : x <= y
<1> DEFINE R == OpToRel(<, Nat)
<1>1. IsWellFoundedOn(R, Nat) BY NatLessThanWellFounded
<1>2. \A x, y \in Nat : y < x => <<y, x>> \in R BY DEF OpToRel
<1> HIDE DEF R
<1>3. PICK x \in T : \A y \in T : ~ (<<y, x>> \in R) BY <1>1, WFMin
<1>4. ASSUME NEW y \in T PROVE x <= y
  <2>1. x \in Nat /\ y \in Nat /\ ~(<<y, x>> \in R) BY <1>3
  <2>2. ~(y < x) BY <2>1, <1>2
  <2>3. QED BY <2>1, <2>2
<1>5. QED BY <1>4

(* The test for a particle to replace never succeeds. *)
LEMMA NothingReplaced ==
  ASSUME NEW g \in World
  PROVE  Replaceable(g) = {}
BY PoolTypes DEF Replaceable, TYPE_PTCL_RED, TYPE_PTCL_WHITE

(* What gameObjInstCreate finds is a slot that is not in use. *)
LEMMA NewSlotFree ==
  ASSUME NEW g \in World, NEW force
  PROVE  /\ NewSlot(g, force) \in Slots \cup {Null}
         /\ NewSlot(g, force) # Null => g.pool[NewSlot(g, force)] = Free
<1>1. CASE Unused(g) = {}
  BY <1>1, NothingReplaced DEF NewSlot
<1>2. CASE Unused(g) # {}
  <2>1. Unused(g) \subseteq Nat /\ Unused(g) \subseteq Slots
    BY ObjectsAssumption DEF Unused, Slots, ObjectsAssumption
  <2>2. \E x \in Unused(g) : \A y \in Unused(g) : x <= y BY <1>2, <2>1, Least
  <2>3. Min(Unused(g)) \in Unused(g) BY <2>2 DEF Min
  <2>4. NewSlot(g, force) = Min(Unused(g)) BY <1>2 DEF NewSlot
  <2>5. QED BY <2>1, <2>3, <2>4 DEF Unused
<1>3. QED BY <1>1, <1>2

(* g with another pool. *)
LEMMA PoolReplaced ==
  ASSUME NEW g \in World, NEW q \in Pools, NEW h, h = [g EXCEPT !.pool = q]
  PROVE  /\ h \in World /\ h.pool = q
         /\ h.mAsteroids = g.mAsteroids /\ h.mShips = g.mShips /\ h.spShip = g.spShip
         /\ h.sAstCtr = g.sAstCtr /\ h.asteroids_id = g.asteroids_id
         /\ h.sAstNum = g.sAstNum
BY DEF World, Pools

(* A ship or a projectile, when there is a slot. *)
LEMMA Created ==
  ASSUME NEW g \in World, NEW type \in {TYPE_SHIP} \cup Weapons, NEW i \in Player, NEW force
  PROVE  LET h == gameObjInstCreate(g, type, i, 0, force)
             s == NewSlot(g, force)
         IN  /\ h \in World /\ Untouched(g, h) /\ ShipsKept(g, h) /\ Occupied(g, h)
             /\ s # Null => h.pool[s] = [type |-> type, m_id |-> i, scale |-> 0]
<1> DEFINE h == gameObjInstCreate(g, type, i, 0, force)
           s == NewSlot(g, force)
           o == [type |-> type, m_id |-> i, scale |-> 0]
           q == [g.pool EXCEPT ![s] = o]
<1>1. s \in Slots \cup {Null} /\ (s # Null => g.pool[s] = Free) BY NewSlotFree
<1>2. CASE s = Null
  <2>1. h = g BY <1>2 DEF gameObjInstCreate
  <2>2. QED BY <1>2, <2>1 DEF Untouched, ShipsKept, Occupied
<1>3. CASE s # Null
  <2>1. type # TYPE_ASTEROID /\ o \in Object
    BY TypeFacts, ConstantFacts DEF Object
  <2>2. g.pool \in Pools BY WorldFields
  <2>3. q \in Pools BY <2>1, <2>2 DEF Pools
  <2>4. h = [g EXCEPT !.pool = q]
    BY <1>3, <2>1 DEF gameObjInstCreate, World
  <2>5. /\ h \in World /\ h.pool = q
        /\ h.mAsteroids = g.mAsteroids /\ h.mShips = g.mShips /\ h.spShip = g.spShip
        /\ h.sAstCtr = g.sAstCtr /\ h.asteroids_id = g.asteroids_id
        /\ h.sAstNum = g.sAstNum
    <3> HIDE DEF h, q
    <3>1. QED BY <2>3, <2>4, PoolReplaced
  <2>6. s \in Slots /\ g.pool[s] = Free /\ q[s] = o BY <1>1, <1>3, <2>2 DEF Pools
  <2>7. \A r \in Slots : r # s => q[r] = g.pool[r] BY <2>2 DEF Pools
  <2> HIDE DEF h, q, s, o
  <2>8. o.type = type BY DEF o
  <2>9. QED
    BY <2>1, <2>5, <2>6, <2>7, <2>8, TypeFacts DEF Untouched, ShipsKept, Occupied, o, s, h
<1>4. QED BY <1>2, <1>3

(* Particles. *)
LEMMA Sparked ==
  ASSUME NEW p \in Player, NEW g \in World, NEW colour \in Colours
  PROVE  LET h == sparkCreate(p, g, colour)
         IN  h \in World /\ Untouched(g, h) /\ ShipsKept(g, h) /\ Occupied(g, h)
<1> DEFINE h == sparkCreate(p, g, colour)
           used == {s \in Unused(g) : Cardinality({r \in Unused(g) : r < s}) < Particles[p]}
           o == [type |-> colour, m_id |-> 0, scale |-> 0]
           q == [s \in Slots |-> IF s \in used THEN o ELSE g.pool[s]]
<1>1. o \in Object /\ o.type = colour
  BY ConstantFacts DEF Object, Server
<1>2. \A s \in used : g.pool[s] = Free BY DEF Unused
<1> HIDE DEF used
<1>3. g.pool \in Pools BY WorldFields
<1>4. q \in Pools BY <1>1, <1>3 DEF Pools
<1>5. h = [g EXCEPT !.pool = q] BY DEF sparkCreate, World, used
<1>6. /\ h \in World /\ h.pool = q
      /\ h.mAsteroids = g.mAsteroids /\ h.mShips = g.mShips /\ h.spShip = g.spShip
      /\ h.sAstCtr = g.sAstCtr /\ h.asteroids_id = g.asteroids_id
      /\ h.sAstNum = g.sAstNum
  <2> HIDE DEF h, q
  <2>1. QED BY <1>4, <1>5, PoolReplaced
<1>7. \A s \in Slots : q[s] = g.pool[s] \/ (g.pool[s] = Free /\ q[s] = o) BY <1>2
<1> HIDE DEF h, q, o
<1>8. colour # TYPE_ASTEROID BY TypeFacts
<1>9. Untouched(g, h) /\ ShipsKept(g, h) /\ Occupied(g, h)
  BY <1>1, <1>6, <1>7, <1>8, TypeFacts DEF Untouched, ShipsKept, Occupied
<1>10. QED BY <1>6, <1>9 DEF h

-----------------------------------------------------------------------------
(* Loops. *)

(* Induction over the numbers up to N, for a set of numbers.               *)
LEMMA InductionUpTo ==
  ASSUME NEW N \in Nat, NEW S, 0 \in S,
         \A n \in 1 .. N : n - 1 \in S => n \in S
  PROVE  \A n \in 0 .. N : n \in S
<1> DEFINE Bad == {n \in 0 .. N : n \notin S}
<1>1. SUFFICES ASSUME Bad # {} PROVE FALSE
  OBVIOUS
<1>2. PICK m \in Bad : \A n \in Bad : m <= n
  <2>1. Bad \subseteq Nat
    OBVIOUS
  <2> HIDE DEF Bad
  <2>2. QED  BY <1>1, <2>1, Least
<1>3. m \in 1 .. N /\ m \notin S
  OBVIOUS
<1>4. m - 1 \in 0 .. N /\ ~(m <= m - 1)
  BY <1>3
<1>5. m - 1 \in S
  BY <1>2, <1>4
<1>6. QED
  BY <1>3, <1>5

(* f is the function that starts with b and goes on as G says.             *)
Recursion(f, N, b, G) == f[0] = b /\ \A n \in 1 .. N : f[n] = G[<<n, f[n - 1]>>]

(* A recursion over the numbers up to N defines a function. *)
LEMMA RecursionUpTo ==
  ASSUME NEW N \in Nat, NEW T, NEW b \in T, NEW G \in [(1 .. N) \X T -> T]
  PROVE  \E f \in [0 .. N -> T] : Recursion(f, N, b, G)
<1> USE DEF Recursion
<1> DEFINE Exists(m) == \E f \in [0 .. m -> T] : Recursion(f, m, b, G)
           Bad == {m \in 0 .. N : ~Exists(m)}
<1>1. SUFFICES Bad = {}
  <2>1. N \in 0 .. N
    OBVIOUS
  <2>2. Exists(N)
    BY <2>1, Bad = {}
  <2>3. QED  BY <2>2
<1>2. SUFFICES ASSUME Bad # {} PROVE FALSE
  OBVIOUS
<1>3. PICK m \in Bad : \A k \in Bad : m <= k
  <2>1. Bad \subseteq Nat
    OBVIOUS
  <2> HIDE DEF Bad
  <2>2. QED  BY <1>2, <2>1, Least
<1>4. m \in 0 .. N /\ ~Exists(m)
  OBVIOUS
<1>5. CASE m = 0
  <2> DEFINE f == [n \in 0 .. 0 |-> b]
  <2>1. f \in [0 .. m -> T] /\ f[0] = b /\ 1 .. m = {}
    BY <1>5
  <2>2. Exists(m)
    BY <2>1
  <2>3. QED  BY <2>2, <1>4
<1>6. CASE m # 0
  <2>1. m - 1 \in 0 .. N /\ m - 1 \notin Bad
    BY <1>3, <1>4, <1>6
  <2>2. Exists(m - 1)
    BY <2>1
  <2>3. PICK f \in [0 .. m - 1 -> T] :
               f[0] = b /\ \A n \in 1 .. m - 1 : f[n] = G[<<n, f[n - 1]>>]
    BY <2>2
  <2> DEFINE h == [n \in 0 .. m |-> IF n = m THEN G[<<m, f[m - 1]>>] ELSE f[n]]
  <2>4. G[<<m, f[m - 1]>>] \in T
    BY <1>4, <1>6
  <2>5. h \in [0 .. m -> T]
    BY <2>4, <1>4, <1>6
  <2>6. h[0] = b
    BY <2>3, <1>4, <1>6
  <2>7. ASSUME NEW n \in 1 .. m PROVE h[n] = G[<<n, h[n - 1]>>]
    <3>1. n - 1 \in 0 .. m /\ n - 1 # m /\ h[n - 1] = f[n - 1]
      BY <1>4
    <3>2. CASE n = m
      BY <3>1, <3>2
    <3>3. CASE n # m
      <4>1. n \in 1 .. m - 1 /\ n \in 0 .. m
        BY <3>3, <1>4
      <4>2. QED  BY <4>1, <3>3, <3>1, <2>3
    <3>4. QED  BY <3>2, <3>3
  <2>8. Exists(m)
    BY <2>5, <2>6, <2>7
  <2>9. QED  BY <2>8, <1>4
<1>7. QED
  BY <1>5, <1>6

-----------------------------------------------------------------------------
(* What asteroids can be split into.                                       *)

Top == Smallest[SizeMax]

LEMMA SmallestFacts ==
  /\ Smallest \in [Sizes -> Nat] /\ Top \in Nat
  /\ \A n \in Sizes : n > 0 => n - 1 \in Sizes /\ Smallest[n] = 4 * Smallest[n - 1]
  /\ \A n \in Sizes : Smallest[n] <= Top
<1> DEFINE F(f) == [n \in Sizes |-> IF n = 0 THEN 1 ELSE 4 * f[n - 1]]
           G == [x \in (1 .. SizeMax) \X Nat |-> 4 * x[2]]
           S == {n \in 0 .. SizeMax : Smallest[n] \in Nat}
           R == {n \in 0 .. SizeMax : \A i \in 0 .. n : Smallest[i] <= Smallest[n]}
<1>1. SizeMax \in Nat /\ Sizes = 0 .. SizeMax
  BY ObjectsAssumption DEF ObjectsAssumption, Sizes
<1>2. PICK f \in [0 .. SizeMax -> Nat] : Recursion(f, SizeMax, 1, G)
  <2>1. G \in [(1 .. SizeMax) \X Nat -> Nat] OBVIOUS
  <2> HIDE DEF G
  <2>2. 1 \in Nat OBVIOUS
  <2>3. QED BY <1>1, <2>1, <2>2, RecursionUpTo
<1>3. f = F(f)
  <2>1. ASSUME NEW n \in Sizes PROVE f[n] = F(f)[n]
    <3>1. CASE n = 0 BY <3>1, <1>2 DEF Recursion
    <3>2. CASE n # 0
      <4>1. n \in 1 .. SizeMax /\ n - 1 \in 0 .. SizeMax BY <1>1, <3>2
      <4>2. f[n] = G[<<n, f[n - 1]>>] BY <1>2, <4>1 DEF Recursion
      <4>3. QED BY <3>2, <4>1, <4>2
    <3>3. QED BY <3>1, <3>2
  <2>2. f = [n \in Sizes |-> f[n]] BY <1>1
  <2>3. f = [n \in Sizes |-> F(f)[n]] BY <2>1, <2>2
  <2>4. QED BY <2>3
<1>4. Smallest = F(Smallest)
  <2>1. Smallest = CHOOSE g : g = F(g) BY DEF Smallest
  <2> HIDE DEF F
  <2>2. QED BY <1>3, <2>1
<1>5. \A n \in Sizes : Smallest[n] = IF n = 0 THEN 1 ELSE 4 * Smallest[n - 1]
  <2>1. \A n \in Sizes : Smallest[n] = F(Smallest)[n]
    <3> HIDE DEF F
    <3>1. QED BY <1>4
  <2>2. QED BY <2>1
<1>6. \A n \in 0 .. SizeMax : n \in S
  <2>1. 0 \in S BY <1>1, <1>5
  <2>2. ASSUME NEW n \in 1 .. SizeMax, n - 1 \in S PROVE n \in S
    <3>1. n \in Sizes /\ n # 0 BY <1>1
    <3>2. QED BY <1>1, <1>5, <2>2, <3>1
  <2> HIDE DEF S
  <2>3. QED BY <1>1, <2>1, <2>2, InductionUpTo
<1>7. \A n \in Sizes : Smallest[n] \in Nat BY <1>1, <1>6
<1>8. Smallest \in [Sizes -> Nat]
  <2>1. Smallest = [n \in Sizes |-> Smallest[n]]
    <3>1. DOMAIN F(Smallest) = Sizes OBVIOUS
    <3>2. F(Smallest) = [n \in Sizes |-> F(Smallest)[n]] OBVIOUS
    <3> HIDE DEF F
    <3>3. QED BY <1>4, <3>2
  <2>2. QED BY <1>7, <2>1
<1>9. \A n \in 0 .. SizeMax : n \in R
  <2>1. 0 \in R
    <3>1. \A i \in 0 .. 0 : i = 0 OBVIOUS
    <3>2. 0 \in 0 .. SizeMax /\ Smallest[0] \in Nat BY <1>1, <1>7
    <3>3. Smallest[0] <= Smallest[0] BY <3>2
    <3>4. QED BY <3>1, <3>2, <3>3
  <2>2. ASSUME NEW n \in 1 .. SizeMax, n - 1 \in R PROVE n \in R
    <3>1. n \in Sizes /\ n - 1 \in Sizes /\ n # 0 BY <1>1
    <3>2. Smallest[n] = 4 * Smallest[n - 1] /\ Smallest[n - 1] \in Nat BY <1>5, <1>7, <3>1
    <3>3. ASSUME NEW i \in 0 .. n PROVE Smallest[i] <= Smallest[n]
      <4>1. i \in Sizes BY <1>1
      <4>2. Smallest[i] \in Nat BY <1>7, <4>1
      <4>3. CASE i = n BY <4>2, <4>3
      <4>4. CASE i # n
        <5>1. i \in 0 .. n - 1 BY <4>4
        <5>2. Smallest[i] <= Smallest[n - 1] BY <2>2, <5>1
        <5>3. QED BY <3>2, <4>2, <5>2
      <4>5. QED BY <4>3, <4>4
    <3>4. QED BY <3>3
  <2> HIDE DEF R
  <2>3. QED BY <1>1, <2>1, <2>2, InductionUpTo
<1>10. \A n \in Sizes : Smallest[n] <= Top
  <2>1. SizeMax \in R BY <1>1, <1>9
  <2>2. QED BY <1>1, <2>1 DEF Top
<1>11. Top \in Nat BY <1>1, <1>7 DEF Top
<1>12. \A n \in Sizes : n > 0 => n - 1 \in Sizes /\ n # 0 BY <1>1
<1>13. QED BY <1>5, <1>8, <1>10, <1>11, <1>12

LEMMA WeightFacts ==
  ASSUME NEW g \in World, NEW s \in Slots
  PROVE  /\ Weight(g.pool[s]) \in Nat /\ Weight(g.pool[s]) <= Top
         /\ g.pool[s].type # TYPE_ASTEROID => Weight(g.pool[s]) = 0
         /\ g.pool[s] = Free => Weight(g.pool[s]) = 0
<1>1. CASE g.pool[s].type = TYPE_ASTEROID
  <2>1. g.pool[s] \in Object /\ g.pool[s] # Free BY <1>1, PoolTypes, TypeFacts
  <2>2. g.pool[s].scale \in Sizes BY <2>1 DEF Object
  <2>3. Weight(g.pool[s]) = Smallest[g.pool[s].scale] BY <1>1 DEF Weight
  <2>4. QED BY <1>1, <2>1, <2>2, <2>3, SmallestFacts
<1>2. CASE g.pool[s].type # TYPE_ASTEROID
  <2>1. Weight(g.pool[s]) = 0 BY <1>2 DEF Weight
  <2>2. QED BY <2>1, SmallestFacts
<1>3. QED BY <1>1, <1>2

(* Pieces adds up what is in the slots. *)
LEMMA PiecesSum ==
  ASSUME NEW g \in World
  PROVE  \E f \in [0 .. GAME_OBJ_INST_NUM_MAX -> Nat] :
           /\ f[0] = 0 /\ Pieces(g) = f[GAME_OBJ_INST_NUM_MAX]
           /\ \A n \in Slots : f[n] = f[n - 1] + Weight(g.pool[n])
<1> DEFINE N == GAME_OBJ_INST_NUM_MAX
           F(f) == [n \in 0 .. N |-> IF n = 0 THEN 0 ELSE f[n - 1] + Weight(g.pool[n])]
           G == [x \in (1 .. N) \X Nat |-> x[2] + Weight(g.pool[x[1]])]
           k == CHOOSE f : f = F(f)
<1>1. N \in Nat /\ Slots = 1 .. N BY ObjectsAssumption DEF ObjectsAssumption, Slots
<1>2. \A n \in 1 .. N : Weight(g.pool[n]) \in Nat BY <1>1, WeightFacts
<1>3. Pieces(g) = k[N] BY DEF Pieces
<1> HIDE DEF N
<1>4. G \in [(1 .. N) \X Nat -> Nat]
  <2>1. \A x \in (1 .. N) \X Nat : x[2] + Weight(g.pool[x[1]]) \in Nat BY <1>2
  <2>2. QED BY <2>1
<1>5. PICK f \in [0 .. N -> Nat] : Recursion(f, N, 0, G)
  <2> HIDE DEF G
  <2>1. 0 \in Nat OBVIOUS
  <2>2. QED BY <1>1, <1>4, <2>1, RecursionUpTo
<1>6. f[0] = 0 /\ \A n \in 1 .. N : f[n] = f[n - 1] + Weight(g.pool[n])
  <2>1. f[0] = 0 BY <1>5 DEF Recursion
  <2>2. ASSUME NEW n \in 1 .. N PROVE f[n] = f[n - 1] + Weight(g.pool[n])
    <3>1. n - 1 \in 0 .. N BY <1>1
    <3>2. f[n] = G[<<n, f[n - 1]>>] BY <1>5 DEF Recursion
    <3>3. <<n, f[n - 1]>> \in (1 .. N) \X Nat BY <3>1
    <3>4. QED BY <3>2, <3>3
  <2>3. QED BY <2>1, <2>2
<1>7. f = F(f)
  <2>1. ASSUME NEW n \in 0 .. N PROVE f[n] = F(f)[n]
    <3>1. n # 0 => n \in 1 .. N BY <1>1
    <3>2. QED BY <1>6, <3>1
  <2>2. f = [n \in 0 .. N |-> f[n]] OBVIOUS
  <2>3. f = [n \in 0 .. N |-> F(f)[n]] BY <2>1, <2>2
  <2>4. QED BY <2>3
<1>8. k = F(k)
  <2> HIDE DEF F
  <2>1. QED BY <1>7
<1> HIDE DEF k
<1>9. ASSUME NEW n \in 0 .. N
      PROVE  k[n] = IF n = 0 THEN 0 ELSE k[n - 1] + Weight(g.pool[n])
  <2>1. k[n] = F(k)[n]
    <3> HIDE DEF F
    <3>1. QED BY <1>8
  <2>2. QED BY <2>1
<1> DEFINE S == {n \in 0 .. N : k[n] = f[n]}
<1>10. 0 \in S BY <1>1, <1>6, <1>9
<1>11. ASSUME NEW n \in 1 .. N, n - 1 \in S PROVE n \in S
  <2>1. n \in 0 .. N /\ n # 0 BY <1>1
  <2>2. k[n] = k[n - 1] + Weight(g.pool[n]) BY <1>9, <2>1
  <2>3. f[n] = f[n - 1] + Weight(g.pool[n]) BY <1>6
  <2>4. QED BY <1>11, <2>1, <2>2, <2>3
<1>12. k[N] = f[N]
  <2> HIDE DEF S
  <2>1. \A n \in 0 .. N : n \in S BY <1>1, <1>10, <1>11, InductionUpTo
  <2>2. N \in S BY <1>1, <2>1
  <2>3. QED BY <2>2 DEF S
<1>13. f \in [0 .. GAME_OBJ_INST_NUM_MAX -> Nat] /\ Pieces(g) = f[GAME_OBJ_INST_NUM_MAX]
  BY <1>3, <1>12 DEF N
<1>14. QED BY <1>1, <1>6, <1>13

LEMMA PiecesNat ==
  ASSUME NEW g \in World
  PROVE  Pieces(g) \in Nat
<1>1. GAME_OBJ_INST_NUM_MAX \in 0 .. GAME_OBJ_INST_NUM_MAX
  BY ObjectsAssumption DEF ObjectsAssumption
<1>2. QED BY <1>1, PiecesSum

(* Two games that differ in one slot, or where one has less in the others. *)
LEMMA PiecesCompared ==
  ASSUME NEW g \in World, NEW h \in World, NEW s \in Slots,
         \A r \in Slots : r # s => Weight(h.pool[r]) <= Weight(g.pool[r])
  PROVE  Pieces(h) + Weight(g.pool[s]) <= Pieces(g) + Weight(h.pool[s])
<1> DEFINE N == GAME_OBJ_INST_NUM_MAX
           a == Weight(g.pool[s])
           b == Weight(h.pool[s])
<1>1. N \in Nat /\ Slots = 1 .. N /\ N \in 0 .. N /\ s \in 1 .. N
  BY ObjectsAssumption DEF ObjectsAssumption, Slots
<1>2. \A r \in 1 .. N : Weight(g.pool[r]) \in Nat /\ Weight(h.pool[r]) \in Nat
  BY <1>1, WeightFacts
<1>3. PICK u \in [0 .. N -> Nat] : /\ u[0] = 0 /\ Pieces(g) = u[N]
                                   /\ \A n \in Slots : u[n] = u[n - 1] + Weight(g.pool[n])
  BY PiecesSum
<1>4. PICK v \in [0 .. N -> Nat] : /\ v[0] = 0 /\ Pieces(h) = v[N]
                                   /\ \A n \in Slots : v[n] = v[n - 1] + Weight(h.pool[n])
  BY PiecesSum
<1>5. a \in Nat /\ b \in Nat BY <1>1, <1>2
<1> DEFINE S == {n \in 0 .. N : /\ n < s => v[n] <= u[n]
                                /\ n >= s => v[n] + a <= u[n] + b}
<1>6. 0 \in S BY <1>1, <1>3, <1>4
<1>7. ASSUME NEW n \in 1 .. N, n - 1 \in S PROVE n \in S
  <2> DEFINE x == Weight(g.pool[n])
             y == Weight(h.pool[n])
  <2>1. n \in 0 .. N /\ n - 1 \in 0 .. N /\ n \in Slots BY <1>1
  <2>2. u[n] = u[n - 1] + x /\ v[n] = v[n - 1] + y BY <1>3, <1>4, <2>1
  <2>3. u[n - 1] \in Nat /\ v[n - 1] \in Nat /\ x \in Nat /\ y \in Nat BY <1>2, <2>1
  <2>4. n # s => y <= x BY <2>1
  <2>5. n = s => x = a /\ y = b OBVIOUS
  <2>6. /\ n - 1 < s => v[n - 1] <= u[n - 1]
        /\ n - 1 >= s => v[n - 1] + a <= u[n - 1] + b
    BY <1>7
  <2> HIDE DEF x, y, a, b, N
  <2>7. n < s => v[n] <= u[n] BY <1>1, <2>2, <2>3, <2>4, <2>6
  <2>8. ASSUME n > s PROVE v[n] + a <= u[n] + b
    <3>1. n - 1 >= s /\ n # s /\ n \in Int /\ s \in Int BY <1>1, <2>8
    <3>2. v[n - 1] + a <= u[n - 1] + b /\ y <= x BY <2>4, <2>6, <3>1
    <3>3. (v[n - 1] + y) + a <= (u[n - 1] + x) + b BY <1>5, <2>3, <3>2
    <3>4. QED BY <2>2, <3>3
  <2>9. n = s => v[n] + a <= u[n] + b BY <1>1, <1>5, <2>2, <2>3, <2>5, <2>6
  <2>10. QED BY <1>1, <2>1, <2>7, <2>8, <2>9
<1>8. N \in S
  <2> HIDE DEF S, N
  <2>1. \A n \in 0 .. N : n \in S BY <1>1, <1>6, <1>7, InductionUpTo
  <2>2. QED BY <1>1, <2>1
<1>9. v[N] + a <= u[N] + b BY <1>1, <1>8
<1>10. QED BY <1>3, <1>4, <1>9

LEMMA PiecesFewer ==
  ASSUME NEW g \in World, NEW h \in World,
         \A r \in Slots : Weight(h.pool[r]) <= Weight(g.pool[r])
  PROVE  Pieces(h) <= Pieces(g)
<1>1. 1 \in Slots BY ObjectsAssumption DEF ObjectsAssumption, Slots
<1>2. Pieces(h) + Weight(g.pool[1]) <= Pieces(g) + Weight(h.pool[1])
  BY <1>1, PiecesCompared
<1>3. /\ Pieces(g) \in Nat /\ Pieces(h) \in Nat
      /\ Weight(g.pool[1]) \in Nat /\ Weight(h.pool[1]) \in Nat
  BY <1>1, PiecesNat, WeightFacts
<1>4. Weight(h.pool[1]) <= Weight(g.pool[1]) BY <1>1
<1>5. QED BY <1>2, <1>3, <1>4

(* No asteroid can be split into more pieces than the largest. *)
LEMMA PiecesBounded ==
  ASSUME NEW g \in World
  PROVE  Pieces(g) <= Cardinality(Asteroids(g)) * Top
<1> DEFINE N == GAME_OBJ_INST_NUM_MAX
           A(n) == Asteroids(g) \cap (1 .. n)
           c(n) == Cardinality(A(n))
<1>1. N \in Nat /\ Slots = 1 .. N /\ N \in 0 .. N
  BY ObjectsAssumption DEF ObjectsAssumption, Slots
<1>2. PICK u \in [0 .. N -> Nat] : /\ u[0] = 0 /\ Pieces(g) = u[N]
                                   /\ \A n \in Slots : u[n] = u[n - 1] + Weight(g.pool[n])
  BY PiecesSum
<1>3. \A n : IsFiniteSet(A(n)) /\ c(n) \in Nat
  <2> SUFFICES ASSUME NEW n PROVE IsFiniteSet(A(n)) /\ c(n) \in Nat OBVIOUS
  <2>1. A(n) \subseteq Asteroids(g) OBVIOUS
  <2> HIDE DEF A
  <2>2. IsFiniteSet(A(n)) BY <2>1, AsteroidsFinite, FS_Subset
  <2>3. QED BY <2>2, FS_CardinalityType
<1> DEFINE S == {n \in 0 .. N : u[n] <= c(n) * Top}
<1>4. 0 \in S
  <2>1. A(0) = {} BY SMT
  <2>2. c(0) = 0 BY <2>1, FS_EmptySet
  <2>3. 0 <= 0 * Top BY SmallestFacts
  <2>4. 0 \in 0 .. N BY <1>1
  <2>5. u[0] <= c(0) * Top
    <3> HIDE DEF c
    <3>1. QED BY <1>2, <2>2, <2>3
  <2>6. QED BY <2>4, <2>5
<1>5. ASSUME NEW n \in 1 .. N, n - 1 \in S PROVE n \in S
  <2>1. n \in 0 .. N /\ n - 1 \in 0 .. N /\ n \in Slots /\ n \in Int BY <1>1
  <2>2. u[n] = u[n - 1] + Weight(g.pool[n]) /\ u[n - 1] \in Nat BY <1>2, <2>1
  <2>3. u[n - 1] <= c(n - 1) * Top BY <1>5
  <2>4. Weight(g.pool[n]) \in Nat /\ Weight(g.pool[n]) <= Top BY <2>1, WeightFacts
  <2>5. 1 .. n = (1 .. n - 1) \cup {n} /\ n \notin 1 .. n - 1 BY <2>1
  <2>6. CASE n \in Asteroids(g)
    <3>1. A(n) = A(n - 1) \cup {n} /\ n \notin A(n - 1) BY <2>5, <2>6
    <3> HIDE DEF A
    <3>2. c(n) = c(n - 1) + 1 BY <1>3, <3>1, FS_AddElement
    <3>3. (c(n - 1) + 1) * Top = c(n - 1) * Top + Top
      <4>1. c(n - 1) \in Nat /\ Top \in Nat BY <1>3, SmallestFacts
      <4> HIDE DEF c
      <4>2. QED BY <4>1
    <3>4. c(n - 1) * Top \in Nat
      <4>1. c(n - 1) \in Nat /\ Top \in Nat BY <1>3, SmallestFacts
      <4> HIDE DEF c
      <4>2. QED BY <4>1
    <3> DEFINE x == c(n - 1) * Top
               w == Weight(g.pool[n])
    <3>5. c(n) * Top = x + Top BY <3>2, <3>3
    <3>6. u[n] = u[n - 1] + w /\ u[n - 1] \in Nat /\ u[n - 1] <= x /\ w \in Nat /\ w <= Top
          /\ x \in Nat /\ Top \in Nat
      BY <2>2, <2>3, <2>4, <3>4, SmallestFacts
    <3> HIDE DEF x, w
    <3>7. u[n] <= x + Top BY <3>6
    <3> HIDE DEF c
    <3>8. u[n] <= c(n) * Top BY <3>5, <3>7
    <3>9. QED BY <2>1, <3>8
  <2>7. CASE n \notin Asteroids(g)
    <3>1. A(n) = A(n - 1) BY <2>5, <2>7
    <3>2. c(n) = c(n - 1)
      <4> HIDE DEF A
      <4>1. QED BY <3>1
    <3>3. g.pool[n].type # TYPE_ASTEROID BY <2>1, <2>7 DEF Asteroids, Of
    <3>4. u[n] = u[n - 1] BY <2>1, <2>2, <3>3, WeightFacts
    <3> HIDE DEF c
    <3>5. u[n] <= c(n) * Top BY <2>3, <3>2, <3>4
    <3>6. QED BY <2>1, <3>5
  <2>8. QED BY <2>6, <2>7
<1>6. N \in S
  <2> HIDE DEF S, N
  <2>1. \A n \in 0 .. N : n \in S BY <1>1, <1>4, <1>5, InductionUpTo
  <2>2. QED BY <1>1, <2>1
<1>7. A(N) = Asteroids(g)
  <2>1. Asteroids(g) \subseteq 1 .. N BY <1>1, AsteroidsFinite
  <2>2. QED BY <2>1
<1>8. c(N) = Cardinality(Asteroids(g))
  <2> HIDE DEF A
  <2>1. QED BY <1>7
<1>9. u[N] <= c(N) * Top BY <1>6
<1>10. QED BY <1>2, <1>8, <1>9

(* What there is can be split into no more than sAstNum of the largest     *)
(* can.                                                                    *)
Budget(g) == Pieces(g) <= g.sAstNum * Top

(* A step from g to h that adds no pieces and asks for no fewer asteroids. *)
Thrifty(g, h) == Pieces(h) <= Pieces(g) /\ g.sAstNum <= h.sAstNum

LEMMA ThriftyChain ==
  ASSUME NEW g \in World, NEW h \in World, NEW k \in World, Thrifty(g, h), Thrifty(h, k)
  PROVE  Thrifty(g, k)
<1>1. /\ Pieces(g) \in Nat /\ Pieces(h) \in Nat /\ Pieces(k) \in Nat
      /\ g.sAstNum \in Nat /\ h.sAstNum \in Nat /\ k.sAstNum \in Nat
  BY PiecesNat, WorldFields
<1>2. QED BY <1>1 DEF Thrifty

LEMMA BudgetKept ==
  ASSUME NEW g \in World, NEW h \in World, Budget(g), Thrifty(g, h)
  PROVE  Budget(h)
<1> DEFINE a == g.sAstNum
           b == h.sAstNum
<1>1. /\ Pieces(g) \in Nat /\ Pieces(h) \in Nat /\ a \in Nat /\ b \in Nat /\ Top \in Nat
  BY PiecesNat, WorldFields, SmallestFacts
<1>2. a <= b /\ Pieces(h) <= Pieces(g) /\ Pieces(g) <= a * Top BY DEF Thrifty, Budget
<1> HIDE DEF a, b
<1>3. a * Top <= b * Top
  <2>1. b - a \in Nat /\ b = a + (b - a) BY <1>1, <1>2
  <2>2. (b - a) * Top \in Nat BY <1>1, <2>1
  <2>3. b * Top = a * Top + (b - a) * Top BY <1>1, <2>1
  <2>4. a * Top \in Nat BY <1>1
  <2>5. QED BY <2>2, <2>3, <2>4
<1>4. a * Top \in Nat /\ b * Top \in Nat BY <1>1
<1>5. Pieces(h) <= b * Top BY <1>1, <1>2, <1>3, <1>4
<1>6. QED BY <1>5 DEF Budget, b

LEMMA UntouchedThrifty ==
  ASSUME NEW g \in World, NEW h \in World, Untouched(g, h)
  PROVE  Thrifty(g, h)
<1>1. ASSUME NEW s \in Slots PROVE Weight(h.pool[s]) <= Weight(g.pool[s])
  <2>1. Weight(g.pool[s]) \in Nat BY WeightFacts
  <2>2. CASE h.pool[s] = g.pool[s] BY <2>1, <2>2
  <2>3. CASE g.pool[s].type # TYPE_ASTEROID /\ h.pool[s].type # TYPE_ASTEROID
    <3>1. Weight(h.pool[s]) = 0 BY <2>3, WeightFacts
    <3>2. QED BY <2>1, <3>1
  <2>4. QED BY <2>2, <2>3 DEF Untouched
<1>2. Pieces(h) <= Pieces(g) BY <1>1, PiecesFewer
<1>3. g.sAstNum \in Nat /\ h.sAstNum = g.sAstNum BY WorldFields DEF Untouched
<1>4. g.sAstNum <= h.sAstNum BY <1>3
<1>5. QED BY <1>2, <1>4 DEF Thrifty

(* As many asteroids as are wanted, of any size. *)
LEMMA FewAsteroids ==
  ASSUME NEW g \in World, NEW k \in Nat, Listing(g), g.sAstCtr + k <= g.sAstNum
  PROVE  Pieces(g) + k * Top <= g.sAstNum * Top
<1> DEFINE c == g.sAstCtr
           n == g.sAstNum
<1>1. /\ c \in Nat /\ n \in Nat /\ Top \in Nat /\ Pieces(g) \in Nat /\ c + k <= n
  BY PiecesNat, WorldFields, SmallestFacts
<1>2. Pieces(g) <= c * Top BY PiecesBounded DEF Listing
<1> HIDE DEF c, n
<1>3. c * Top \in Nat /\ k * Top \in Nat BY <1>1
<1>4. n - (c + k) \in Nat /\ n = (c + k) + (n - (c + k)) BY <1>1
<1>5. (n - (c + k)) * Top \in Nat BY <1>1, <1>4
<1>6. n * Top = (c * Top + k * Top) + (n - (c + k)) * Top BY <1>1, <1>4
<1>7. Pieces(g) + k * Top <= n * Top BY <1>1, <1>2, <1>3, <1>5, <1>6
<1>8. QED BY <1>7 DEF n

-----------------------------------------------------------------------------
(* Destruction, resizing and numbering.                                    *)

LEMMA DestroyedFields ==
  ASSUME NEW g \in World, NEW S
  PROVE  LET h == gameObjInstDestroy(g, S)
             gone == {s \in S : g.pool[s].type = TYPE_ASTEROID}
             ids == {g.pool[s].m_id : s \in gone}
         IN  /\ h.pool = [s \in Slots |-> IF s \in S THEN Free ELSE g.pool[s]]
             /\ h.mAsteroids = [i \in AstIds |-> IF i \in ids THEN Null ELSE g.mAsteroids[i]]
             /\ h.sAstCtr = g.sAstCtr - Cardinality(gone)
             /\ h.asteroids_id = g.asteroids_id /\ h.mShips = g.mShips /\ h.spShip = g.spShip
             /\ h.sAstNum = g.sAstNum
             /\ h.sAstCtr \in Nat => h \in World
<1> DEFINE h == gameObjInstDestroy(g, S)
           gone == {s \in S : g.pool[s].type = TYPE_ASTEROID}
           ids == {g.pool[s].m_id : s \in gone}
           q == [s \in Slots |-> IF s \in S THEN Free ELSE g.pool[s]]
           a == [i \in AstIds |-> IF i \in ids THEN Null ELSE g.mAsteroids[i]]
           n == g.sAstCtr - Cardinality(gone)
<1>1. h = [g EXCEPT !.pool = q, !.mAsteroids = a, !.sAstCtr = n]
  BY DEF gameObjInstDestroy, World
<1>2. q \in Pools /\ a \in [AstIds -> Slots \cup {Null}]
  <2>1. g.pool \in Pools /\ g.mAsteroids \in [AstIds -> Slots \cup {Null}] BY WorldFields
  <2>2. QED BY <2>1 DEF Pools
<1> HIDE DEF h, gone, ids, q, a, n
<1>3. /\ h.pool = q /\ h.mAsteroids = a /\ h.sAstCtr = n
      /\ h.asteroids_id = g.asteroids_id /\ h.mShips = g.mShips /\ h.spShip = g.spShip
      /\ h.sAstNum = g.sAstNum
  BY <1>1 DEF World
<1>4. n \in Nat => h \in World BY <1>1, <1>2 DEF World, Pools
<1>5. QED BY <1>3, <1>4 DEF h, gone, ids, q, a, n

(* What is no asteroid. *)
LEMMA OthersDestroyed ==
  ASSUME NEW g \in World, NEW S, S \subseteq Slots,
         \A s \in S : g.pool[s].type # TYPE_ASTEROID
  PROVE  LET h == gameObjInstDestroy(g, S)
         IN  /\ h \in World /\ Untouched(g, h)
             /\ h.mShips = g.mShips /\ h.spShip = g.spShip
             /\ \A s \in Slots \ S : h.pool[s] = g.pool[s]
<1> DEFINE h == gameObjInstDestroy(g, S)
           gone == {s \in S : g.pool[s].type = TYPE_ASTEROID}
           ids == {g.pool[s].m_id : s \in gone}
<1>1. gone = {} OBVIOUS
<1>2. ids = {} /\ Cardinality(gone) = 0 BY <1>1, FS_EmptySet
<1>3. g.sAstCtr \in Nat /\ g.mAsteroids \in [AstIds -> Slots \cup {Null}] BY WorldFields
<1>4. /\ h.pool = [s \in Slots |-> IF s \in S THEN Free ELSE g.pool[s]]
      /\ h.mAsteroids = [i \in AstIds |-> IF i \in ids THEN Null ELSE g.mAsteroids[i]]
      /\ h.sAstCtr = g.sAstCtr - Cardinality(gone)
      /\ h.asteroids_id = g.asteroids_id /\ h.mShips = g.mShips /\ h.spShip = g.spShip
      /\ h.sAstNum = g.sAstNum
      /\ h.sAstCtr \in Nat => h \in World
  BY DestroyedFields
<1> HIDE DEF h, gone, ids
<1>5. h.mAsteroids = g.mAsteroids /\ h.sAstCtr = g.sAstCtr BY <1>2, <1>3, <1>4
<1>6. QED BY <1>3, <1>4, <1>5, TypeFacts DEF Untouched, h

(* A projectile or a particle. *)
LEMMA ShotDestroyed ==
  ASSUME NEW g \in World, NEW s \in Slots, g.pool[s].type \in Weapons \cup Colours
  PROVE  LET h == gameObjInstDestroy(g, {s})
         IN  /\ h \in World /\ Untouched(g, h) /\ ShipsKept(g, h)
             /\ \A r \in Slots : r # s => h.pool[r] = g.pool[r]
BY OthersDestroyed, TypeFacts DEF ShipsKept

(* An asteroid. *)
LEMMA AsteroidDestroyed ==
  ASSUME NEW g \in World, Listing(g), NEW a \in Asteroids(g)
  PROVE  LET h == gameObjInstDestroy(g, {a})
         IN  /\ h \in World /\ Listing(h) /\ ShipsKept(g, h)
             /\ h.sAstCtr = g.sAstCtr - 1 /\ h.asteroids_id = g.asteroids_id
             /\ \A r \in Slots : r # a => h.pool[r] = g.pool[r]
             /\ Thrifty(g, h)
             /\ \A i \in AstIds : h.mAsteroids[i] # Null =>
                  g.mAsteroids[i] # Null /\ AllAsteroids(h)[i] = AllAsteroids(g)[i]
<1> DEFINE h == gameObjInstDestroy(g, {a})
           gone == {s \in {a} : g.pool[s].type = TYPE_ASTEROID}
           ids == {g.pool[s].m_id : s \in gone}
           j == g.pool[a].m_id
<1>1. a \in Slots /\ g.pool[a].type = TYPE_ASTEROID BY DEF Asteroids, Of
<1>2. gone = {a} BY <1>1
<1>3. ids = {j} /\ Cardinality(gone) = 1 BY <1>2, FS_Singleton
<1>4. /\ g.sAstCtr \in Nat /\ g.pool \in Pools
      /\ g.mAsteroids \in [AstIds -> Slots \cup {Null}]
  BY WorldFields
<1>5. /\ h.pool = [s \in Slots |-> IF s \in {a} THEN Free ELSE g.pool[s]]
      /\ h.mAsteroids = [i \in AstIds |-> IF i \in ids THEN Null ELSE g.mAsteroids[i]]
      /\ h.sAstCtr = g.sAstCtr - Cardinality(gone)
      /\ h.asteroids_id = g.asteroids_id /\ h.mShips = g.mShips /\ h.spShip = g.spShip
      /\ h.sAstNum = g.sAstNum
      /\ h.sAstCtr \in Nat => h \in World
  BY DestroyedFields
<1> HIDE DEF h, gone, ids
<1>6. Asteroids(h) = Asteroids(g) \ {a}
  BY <1>5, TypeFacts DEF Asteroids, Of
<1>7. /\ IsFiniteSet(Asteroids(g)) /\ Cardinality(Asteroids(g)) \in Nat
      /\ Cardinality(Asteroids(h)) = Cardinality(Asteroids(g)) - 1
  BY <1>6, AsteroidsFinite, FS_CardinalityType, FS_RemoveElement
<1>8. Cardinality(Asteroids(h)) \in Nat
  BY <1>6, <1>7, FS_RemoveElement, FS_CardinalityType
<1>9. h.sAstCtr = Cardinality(Asteroids(h)) /\ h.sAstCtr = g.sAstCtr - 1
  BY <1>3, <1>5, <1>7 DEF Listing
<1>10. j \in AstIds /\ g.mAsteroids[j] = a BY DEF Listing
<1>11. \A s \in Slots : s # a => h.pool[s] = g.pool[s] BY <1>5
<1>12. \A i \in AstIds : h.mAsteroids[i] = IF i = j THEN Null ELSE g.mAsteroids[i]
  BY <1>3, <1>5
<1>13. \A s \in Asteroids(h) : h.pool[s].m_id \in AstIds /\ h.mAsteroids[h.pool[s].m_id] = s
  <2> SUFFICES ASSUME NEW s \in Asteroids(h)
               PROVE  h.pool[s].m_id \in AstIds /\ h.mAsteroids[h.pool[s].m_id] = s
    OBVIOUS
  <2>1. s \in Asteroids(g) /\ s # a /\ s \in Slots BY <1>6 DEF Asteroids, Of
  <2>2. h.pool[s] = g.pool[s] BY <2>1, <1>11
  <2>3. g.pool[s].m_id \in AstIds /\ g.mAsteroids[g.pool[s].m_id] = s BY <2>1 DEF Listing
  <2>4. g.pool[s].m_id # j BY <2>1, <2>3, <1>10
  <2>5. QED BY <2>2, <2>3, <2>4, <1>12
<1>14. ASSUME NEW i \in AstIds, h.mAsteroids[i] # Null
       PROVE  /\ i # j /\ h.mAsteroids[i] = g.mAsteroids[i] /\ g.mAsteroids[i] # Null
              /\ h.mAsteroids[i] \in Asteroids(h)
              /\ h.pool[h.mAsteroids[i]] = g.pool[h.mAsteroids[i]]
              /\ h.pool[h.mAsteroids[i]].m_id = i
  <2>1. i # j /\ h.mAsteroids[i] = g.mAsteroids[i] BY <1>12, <1>14
  <2>2. g.mAsteroids[i] \in Asteroids(g) /\ g.pool[g.mAsteroids[i]].m_id = i
    BY <2>1, <1>14 DEF Listing
  <2>3. g.mAsteroids[i] # a BY <2>1, <2>2
  <2>4. QED BY <2>1, <2>2, <2>3, <1>6, <1>11, <1>14 DEF Asteroids, Of
<1>15. Listing(h) BY <1>9, <1>13, <1>14 DEF Listing
<1>16. \A i \in AstIds : h.mAsteroids[i] # Null =>
         g.mAsteroids[i] # Null /\ AllAsteroids(h)[i] = AllAsteroids(g)[i]
  BY <1>14 DEF AllAsteroids
<1>17. ShipsKept(g, h) BY <1>1, <1>5, <1>11, TypeFacts DEF ShipsKept
<1>18. h \in World BY <1>5, <1>8, <1>9
<1>19. Thrifty(g, h)
  <2>1. ASSUME NEW s \in Slots PROVE Weight(h.pool[s]) <= Weight(g.pool[s])
    <3>1. Weight(g.pool[s]) \in Nat BY WeightFacts
    <3>2. CASE s = a
      <4>1. h.pool[s] = Free BY <1>5, <3>2
      <4>2. Weight(h.pool[s]) = 0 BY <1>18, <4>1, WeightFacts
      <4>3. QED BY <3>1, <4>2
    <3>3. CASE s # a BY <1>11, <3>1, <3>3
    <3>4. QED BY <3>2, <3>3
  <2>2. Pieces(h) <= Pieces(g) BY <1>18, <2>1, PiecesFewer
  <2>3. g.sAstNum \in Nat BY WorldFields
  <2>4. g.sAstNum <= h.sAstNum BY <1>5, <2>3
  <2>5. QED BY <2>2, <2>4 DEF Thrifty
<1>20. QED BY <1>5, <1>9, <1>11, <1>15, <1>16, <1>17, <1>18, <1>19 DEF h

(* An asteroid of another size. *)
LEMMA Resized ==
  ASSUME NEW g \in World, Listing(g), NEW a \in Asteroids(g), NEW size \in Sizes
  PROVE  LET h == [g EXCEPT !.pool[a].scale = size]
         IN  /\ h \in World /\ Listing(h) /\ ShipsKept(g, h)
             /\ h.mAsteroids = g.mAsteroids
             /\ h.sAstCtr = g.sAstCtr /\ h.asteroids_id = g.asteroids_id
             /\ h.sAstNum = g.sAstNum
             /\ \A s \in Slots : s # a => h.pool[s] = g.pool[s]
             /\ \A i \in AstIds : AllAsteroids(h)[i] =
                  IF i = g.pool[a].m_id THEN size ELSE AllAsteroids(g)[i]
<1> DEFINE h == [g EXCEPT !.pool[a].scale = size]
           o == [g.pool[a] EXCEPT !.scale = size]
           q == [g.pool EXCEPT ![a] = o]
           j == g.pool[a].m_id
<1>1. a \in Slots /\ g.pool[a].type = TYPE_ASTEROID BY DEF Asteroids, Of
<1>2. g.pool \in Pools BY WorldFields
<1>3. g.pool[a] \in Object BY <1>1, PoolTypes, TypeFacts
<1>4. o \in Object /\ o.type = TYPE_ASTEROID /\ o.m_id = j /\ o.scale = size
  BY <1>1, <1>3 DEF Object
<1>5. q \in Pools BY <1>2, <1>4 DEF Pools
<1>6. h = [g EXCEPT !.pool = q] OBVIOUS
<1> HIDE DEF o, q, h
<1>7. /\ h \in World /\ h.pool = q
      /\ h.mAsteroids = g.mAsteroids /\ h.mShips = g.mShips /\ h.spShip = g.spShip
      /\ h.sAstCtr = g.sAstCtr /\ h.asteroids_id = g.asteroids_id
      /\ h.sAstNum = g.sAstNum
  BY <1>5, <1>6, PoolReplaced
<1>8. q[a] = o /\ \A s \in Slots : s # a => q[s] = g.pool[s]
  BY <1>1, <1>2 DEF Pools, q
<1>9. Asteroids(h) = Asteroids(g)
  BY <1>1, <1>4, <1>7, <1>8 DEF Asteroids, Of
<1>10. \A s \in Slots : h.pool[s].m_id = g.pool[s].m_id BY <1>4, <1>7, <1>8
<1>11. Asteroids(g) \subseteq Slots BY DEF Asteroids, Of
<1>12. Listing(h) BY <1>7, <1>9, <1>10, <1>11 DEF Listing
<1>13. ShipsKept(g, h) BY <1>1, <1>7, <1>8, TypeFacts DEF ShipsKept
<1>14. ASSUME NEW i \in AstIds
       PROVE  AllAsteroids(h)[i] = IF i = j THEN size ELSE AllAsteroids(g)[i]
  <2>1. j \in AstIds /\ g.mAsteroids[j] = a /\ a # Null
    BY <1>1, ConstantFacts DEF Listing
  <2>2. CASE i = j
    <3>1. h.mAsteroids[i] = a /\ h.pool[a].scale = size BY <2>1, <2>2, <1>4, <1>7, <1>8
    <3>2. QED BY <2>1, <2>2, <3>1 DEF AllAsteroids
  <2>3. CASE i # j /\ g.mAsteroids[i] = Null
    BY <2>3, <1>7 DEF AllAsteroids
  <2>4. CASE i # j /\ g.mAsteroids[i] # Null
    <3>1. g.mAsteroids[i] \in Slots /\ g.pool[g.mAsteroids[i]].m_id = i
      BY <2>4, <1>11 DEF Listing
    <3>2. g.mAsteroids[i] # a BY <3>1, <2>4
    <3>3. QED BY <3>1, <3>2, <2>4, <1>7, <1>8 DEF AllAsteroids
  <2>5. QED BY <2>2, <2>3, <2>4
<1>15. QED BY <1>7, <1>8, <1>12, <1>13, <1>14 DEF h

(* A new asteroid in a free slot, listed under an id that was not.         *)
LEMMA Enlisted ==
  ASSUME NEW g \in World, NEW h \in World, Listing(g), NEW s \in Slots, g.pool[s] = Free,
         NEW i \in AstIds, g.mAsteroids[i] = Null, NEW o \in Object,
         o.type = TYPE_ASTEROID, o.m_id = i,
         h.pool[s] = o, \A r \in Slots : r # s => h.pool[r] = g.pool[r],
         \A j \in AstIds : h.mAsteroids[j] = IF j = i THEN s ELSE g.mAsteroids[j],
         h.sAstCtr = g.sAstCtr + 1
  PROVE  /\ Listing(h)
         /\ \A j \in AstIds :
              AllAsteroids(h)[j] = IF j = i THEN o.scale ELSE AllAsteroids(g)[j]
<1>2. h.pool[s] = o /\ \A r \in Slots : r # s => h.pool[r] = g.pool[r]
  OBVIOUS
<1>3. h.mAsteroids[i] = s /\ \A j \in AstIds : j # i => h.mAsteroids[j] = g.mAsteroids[j]
  OBVIOUS
<1>4. s \notin Asteroids(g) BY TypeFacts DEF Asteroids, Of
<1>5. Asteroids(h) = Asteroids(g) \cup {s}
  BY <1>2 DEF Asteroids, Of
<1>6. h.sAstCtr = Cardinality(Asteroids(h))
  <2>1. Cardinality(Asteroids(g) \cup {s}) = Cardinality(Asteroids(g)) + 1
    BY <1>4, AsteroidsFinite, FS_AddElement
  <2>2. QED BY <1>5, <2>1 DEF Listing
<1>7. Asteroids(g) \subseteq Slots BY DEF Asteroids, Of
<1>8. ASSUME NEW r \in Asteroids(h)
      PROVE  h.pool[r].m_id \in AstIds /\ h.mAsteroids[h.pool[r].m_id] = r
  <2>1. CASE r = s BY <2>1, <1>2, <1>3
  <2>2. CASE r # s
    <3>1. r \in Asteroids(g) /\ r \in Slots /\ h.pool[r] = g.pool[r]
      BY <2>2, <1>2, <1>5, <1>7
    <3>2. g.pool[r].m_id \in AstIds /\ g.mAsteroids[g.pool[r].m_id] = r
      BY <3>1 DEF Listing
    <3>3. r # Null BY <3>1, ConstantFacts
    <3>4. g.pool[r].m_id # i BY <3>2, <3>3
    <3>5. QED BY <3>1, <3>2, <3>4, <1>3
  <2>3. QED BY <2>1, <2>2
<1>9. ASSUME NEW j \in AstIds, j # i, g.mAsteroids[j] # Null
      PROVE  /\ g.mAsteroids[j] \in Asteroids(h)
             /\ h.pool[g.mAsteroids[j]] = g.pool[g.mAsteroids[j]]
             /\ g.pool[g.mAsteroids[j]].m_id = j
  <2>1. g.mAsteroids[j] \in Asteroids(g) /\ g.pool[g.mAsteroids[j]].m_id = j
    BY <1>9 DEF Listing
  <2>2. g.mAsteroids[j] # s /\ g.mAsteroids[j] \in Slots BY <2>1, <1>4, <1>7
  <2>3. QED BY <2>1, <2>2, <1>2, <1>5
<1>10. ASSUME NEW j \in AstIds, h.mAsteroids[j] # Null
       PROVE  h.mAsteroids[j] \in Asteroids(h) /\ h.pool[h.mAsteroids[j]].m_id = j
  <2>1. CASE j = i BY <2>1, <1>2, <1>3, <1>5
  <2>2. CASE j # i BY <2>2, <1>3, <1>9, <1>10
  <2>3. QED BY <2>1, <2>2
<1>11. Listing(h) BY <1>6, <1>8, <1>10 DEF Listing
<1>12. ASSUME NEW j \in AstIds
       PROVE  AllAsteroids(h)[j] = IF j = i THEN o.scale ELSE AllAsteroids(g)[j]
  <2>1. s # Null BY ConstantFacts
  <2>2. CASE j = i BY <2>1, <2>2, <1>2, <1>3 DEF AllAsteroids
  <2>3. CASE j # i /\ g.mAsteroids[j] = Null BY <2>3, <1>3 DEF AllAsteroids
  <2>4. CASE j # i /\ g.mAsteroids[j] # Null
    BY <2>4, <1>3, <1>9 DEF AllAsteroids
  <2>5. QED BY <2>2, <2>3, <2>4
<1>13. QED BY <1>11, <1>12

-----------------------------------------------------------------------------
(* How the server's game evolves.                                          *)

(* Only ids that were given out are listed. *)
Numbered(g) == \A i \in AstIds : g.mAsteroids[i] # Null => i < g.asteroids_id

(* k asteroids are destroyed, and what is not new does not grow.           *)
Evolves(g, h, k) ==
  /\ h \in World /\ Listing(h) /\ Numbered(h)
  /\ h.asteroids_id - h.sAstCtr = g.asteroids_id - g.sAstCtr + k
  /\ g.asteroids_id <= h.asteroids_id
  /\ \A i \in AstIds : h.mAsteroids[i] # Null =>
       \/ i >= g.asteroids_id
       \/ g.mAsteroids[i] # Null /\ AllAsteroids(h)[i] <= AllAsteroids(g)[i]

LEMMA TableFacts ==
  ASSUME NEW g \in World, Listing(g)
  PROVE  /\ AllAsteroids(g) \in Tables
         /\ \A i \in AstIds : /\ g.mAsteroids[i] # Null => AllAsteroids(g)[i] \in Sizes
                              /\ g.mAsteroids[i] = Null => AllAsteroids(g)[i] = NoSize
<1>1. ASSUME NEW i \in AstIds, g.mAsteroids[i] # Null
      PROVE  g.pool[g.mAsteroids[i]].scale \in Sizes
  <2>1. g.mAsteroids[i] \in Slots /\ g.pool[g.mAsteroids[i]].type = TYPE_ASTEROID
    BY <1>1 DEF Listing, Asteroids, Of
  <2>2. g.pool[g.mAsteroids[i]] \in Object BY <2>1, PoolTypes, TypeFacts
  <2>3. QED BY <2>2 DEF Object
<1>2. \A i \in AstIds : /\ g.mAsteroids[i] # Null => AllAsteroids(g)[i] \in Sizes
                        /\ g.mAsteroids[i] = Null => AllAsteroids(g)[i] = NoSize
  BY <1>1 DEF AllAsteroids
<1>3. AllAsteroids(g) \in Tables BY <1>1 DEF AllAsteroids, Tables
<1>4. QED BY <1>2, <1>3

LEMMA EvolvesUntouched ==
  ASSUME NEW g \in World, NEW h \in World, Listing(g), Numbered(g), Untouched(g, h)
  PROVE  Evolves(g, h, 0)
<1>1. Listing(h) /\ AllAsteroids(h) = AllAsteroids(g) BY ListingKept
<1>2. /\ h.mAsteroids = g.mAsteroids /\ h.sAstCtr = g.sAstCtr
      /\ h.asteroids_id = g.asteroids_id
  BY DEF Untouched
<1>3. g.asteroids_id \in Int /\ g.sAstCtr \in Int BY WorldFields
<1>4. \A i \in AstIds : g.mAsteroids[i] # Null => AllAsteroids(g)[i] \in Int
  BY TableFacts, ConstantFacts
<1>5. Numbered(h) BY <1>2 DEF Numbered
<1>6. QED BY <1>1, <1>2, <1>3, <1>4, <1>5 DEF Evolves

LEMMA EvolvesChain ==
  ASSUME NEW g \in World, NEW h, NEW f, NEW k \in Int, NEW n \in Int,
         Listing(g), Evolves(g, h, k), Evolves(h, f, n)
  PROVE  Evolves(g, f, k + n)
<1>1. h \in World /\ Listing(h) /\ f \in World /\ Listing(f) /\ Numbered(f)
  BY DEF Evolves
<1>2. /\ g.asteroids_id \in Int /\ h.asteroids_id \in Int /\ f.asteroids_id \in Int
      /\ g.sAstCtr \in Int /\ h.sAstCtr \in Int /\ f.sAstCtr \in Int
  BY <1>1, WorldFields
<1>3. \A i \in AstIds : /\ g.mAsteroids[i] # Null => AllAsteroids(g)[i] \in Int
                        /\ h.mAsteroids[i] # Null => AllAsteroids(h)[i] \in Int
                        /\ f.mAsteroids[i] # Null => AllAsteroids(f)[i] \in Int
                        /\ i \in Int
  BY <1>1, TableFacts, ConstantFacts
<1>4. /\ f.asteroids_id - f.sAstCtr = g.asteroids_id - g.sAstCtr + (k + n)
      /\ g.asteroids_id <= f.asteroids_id
  BY <1>2 DEF Evolves
<1>5. ASSUME NEW i \in AstIds, f.mAsteroids[i] # Null, ~(i >= g.asteroids_id)
      PROVE  g.mAsteroids[i] # Null /\ AllAsteroids(f)[i] <= AllAsteroids(g)[i]
  <2>1. ~(i >= h.asteroids_id) BY <1>2, <1>3, <1>5 DEF Evolves
  <2>2. h.mAsteroids[i] # Null /\ AllAsteroids(f)[i] <= AllAsteroids(h)[i]
    BY <2>1, <1>5 DEF Evolves
  <2>3. g.mAsteroids[i] # Null /\ AllAsteroids(h)[i] <= AllAsteroids(g)[i]
    BY <2>2, <1>5 DEF Evolves
  <2>4. QED BY <2>2, <2>3, <1>3, <1>5
<1>6. QED BY <1>1, <1>4, <1>5 DEF Evolves

LEMMA EvolvesDestroyed ==
  ASSUME NEW g \in World, Listing(g), Numbered(g), NEW a \in Asteroids(g)
  PROVE  Evolves(g, gameObjInstDestroy(g, {a}), 1)
<1> DEFINE h == gameObjInstDestroy(g, {a})
<1>1. /\ h \in World /\ Listing(h)
      /\ h.sAstCtr = g.sAstCtr - 1 /\ h.asteroids_id = g.asteroids_id
      /\ \A i \in AstIds : h.mAsteroids[i] # Null =>
           g.mAsteroids[i] # Null /\ AllAsteroids(h)[i] = AllAsteroids(g)[i]
  BY AsteroidDestroyed
<1> HIDE DEF h
<1>2. g.asteroids_id \in Int /\ g.sAstCtr \in Int BY WorldFields
<1>3. \A i \in AstIds : g.mAsteroids[i] # Null => AllAsteroids(g)[i] \in Int
  BY TableFacts, ConstantFacts
<1>4. Numbered(h) BY <1>1 DEF Numbered
<1>5. Evolves(g, h, 1) BY <1>1, <1>2, <1>3, <1>4 DEF Evolves
<1>6. QED BY <1>5 DEF h

(* astCreate(0) on the server. *)
LEMMA AstCreated ==
  ASSUME NEW g \in World, Listing(g), Numbered(g), NEW size \in Sizes,
         g.asteroids_id < MaxAsteroid
  PROVE  LET h == astCreate(Server, g, size)
         IN  /\ Evolves(g, h, 0) /\ ShipsKept(g, h) /\ Occupied(g, h)
             /\ h.asteroids_id <= g.asteroids_id + 1
             /\ Pieces(h) <= Pieces(g) + Smallest[size] /\ h.sAstNum = g.sAstNum
<1> DEFINE s == NewSlot(g, TRUE)
           n == g.asteroids_id
           h == astCreate(Server, g, size)
           o == [type |-> TYPE_ASTEROID, m_id |-> n, scale |-> size]
           q == [g.pool EXCEPT ![s] = o]
           a == [g.mAsteroids EXCEPT ![n] = s]
<1>1. s \in Slots \cup {Null} /\ (s # Null => g.pool[s] = Free) BY NewSlotFree
<1>2. n \in AstIds /\ n \in Int /\ g.mAsteroids[n] = Null /\ n + 1 \in 0 .. MaxAsteroid
  <2>1. n \in 0 .. MaxAsteroid BY WorldFields
  <2>2. n \in AstIds /\ n \in Int /\ n + 1 \in 0 .. MaxAsteroid
    BY <2>1, ConstantFacts DEF AstIds
  <2>3. ~(n < g.asteroids_id) BY <2>2
  <2>4. QED BY <2>2, <2>3 DEF Numbered
<1>0. Smallest[size] \in Nat /\ Pieces(g) \in Nat BY SmallestFacts, PiecesNat
<1>3. CASE s = Null
  <2>1. h = g BY <1>3 DEF astCreate, gameObjInstCreate
  <2>2. Untouched(g, g) /\ ShipsKept(g, g) /\ Occupied(g, g)
    BY DEF Untouched, ShipsKept, Occupied
  <2> HIDE DEF h
  <2>3. Evolves(g, h, 0) BY <2>1, <2>2, EvolvesUntouched
  <2>4. Pieces(h) <= Pieces(g) + Smallest[size] BY <1>0, <2>1
  <2>5. QED BY <2>1, <2>2, <2>3, <2>4, <1>2 DEF h
<1>4. CASE s # Null
  <2>1. h = [g EXCEPT !.pool = q, !.sAstCtr = g.sAstCtr + 1, !.mAsteroids = a,
                      !.asteroids_id = n + 1]
    BY <1>4 DEF astCreate, gameObjInstCreate, World
  <2>2. o \in Object /\ o.type = TYPE_ASTEROID /\ o.m_id = n /\ o.scale = size
    BY <1>2 DEF Object
  <2>3. /\ g.pool \in Pools /\ g.mAsteroids \in [AstIds -> Slots \cup {Null}]
        /\ g.sAstCtr \in Nat
    BY WorldFields
  <2>4. s \in Slots /\ g.pool[s] = Free BY <1>1, <1>4
  <2>5. q \in Pools /\ a \in [AstIds -> Slots \cup {Null}] /\ g.sAstCtr + 1 \in Nat
    <3> HIDE DEF o, s, n
    <3>1. q \in Pools BY <2>2, <2>3 DEF Pools
    <3>2. a \in [AstIds -> Slots \cup {Null}] BY <2>3, <2>4
    <3>3. QED BY <3>1, <3>2, <2>3
  <2>6. /\ h \in World /\ h.pool = q /\ h.mAsteroids = a /\ h.sAstCtr = g.sAstCtr + 1
        /\ h.asteroids_id = n + 1 /\ h.mShips = g.mShips /\ h.spShip = g.spShip
        /\ h.sAstNum = g.sAstNum
    <3> HIDE DEF h, q, a, o, s, n
    <3>1. QED BY <2>1, <2>5, <1>2 DEF World, Pools
  <2>7. /\ h.pool[s] = o /\ \A r \in Slots : r # s => h.pool[r] = g.pool[r]
        /\ \A j \in AstIds : h.mAsteroids[j] = IF j = n THEN s ELSE g.mAsteroids[j]
    <3> HIDE DEF h, o, s, n
    <3>1. QED BY <2>3, <2>4, <2>6 DEF Pools
  <2> HIDE DEF h, q, a, o, s
  <2>8. /\ Listing(h)
        /\ \A j \in AstIds :
             AllAsteroids(h)[j] = IF j = n THEN o.scale ELSE AllAsteroids(g)[j]
    <3>1. n \in AstIds /\ g.mAsteroids[n] = Null BY <1>2
    <3> HIDE DEF n
    <3>2. h \in World /\ h.sAstCtr = g.sAstCtr + 1 BY <2>6
    <3>3. QED BY <2>2, <2>4, <2>7, <3>1, <3>2, Enlisted
  <2>9. \A j \in AstIds : /\ j \in Int
                          /\ g.mAsteroids[j] # Null => AllAsteroids(g)[j] \in Int
    BY TableFacts, ConstantFacts
  <2>10. Numbered(h) BY <2>6, <2>7, <2>9, <1>2 DEF Numbered
  <2>11. Evolves(g, h, 0)
    <3>1. h.asteroids_id - h.sAstCtr = g.asteroids_id - g.sAstCtr + 0
          /\ g.asteroids_id <= h.asteroids_id
      BY <2>3, <2>6, <1>2 DEF n
    <3>2. ASSUME NEW i \in AstIds, h.mAsteroids[i] # Null, ~(i >= g.asteroids_id)
          PROVE  g.mAsteroids[i] # Null /\ AllAsteroids(h)[i] <= AllAsteroids(g)[i]
      <4>1. i # n BY <3>2, <1>2 DEF n
      <4>2. QED BY <4>1, <3>2, <2>7, <2>8, <2>9
    <3>3. QED BY <3>1, <3>2, <2>6, <2>8, <2>10 DEF Evolves
  <2>12. ShipsKept(g, h) /\ Occupied(g, h)
    BY <2>4, <2>6, <2>7, TypeFacts DEF ShipsKept, Occupied
  <2>13. Pieces(h) <= Pieces(g) + Smallest[size]
    <3>1. Weight(h.pool[s]) = Smallest[size] BY <2>2, <2>7 DEF Weight
    <3>2. Weight(g.pool[s]) = 0 BY <2>4, WeightFacts
    <3>3. \A r \in Slots : r # s => Weight(h.pool[r]) <= Weight(g.pool[r])
      <4>1. \A r \in Slots : Weight(g.pool[r]) \in Nat BY WeightFacts
      <4>2. QED BY <2>7, <4>1
    <3>4. h \in World BY <2>6
    <3>5. Pieces(h) + Weight(g.pool[s]) <= Pieces(g) + Weight(h.pool[s])
      BY <2>4, <3>3, <3>4, PiecesCompared
    <3>6. Pieces(h) \in Nat BY <3>4, PiecesNat
    <3>7. QED BY <1>0, <3>1, <3>2, <3>5, <3>6
  <2>14. QED BY <2>6, <2>11, <2>12, <2>13, <1>2 DEF h
<1>5. QED BY <1>3, <1>4

(* The three children of a split asteroid. *)
LEMMA ChildrenCreated ==
  ASSUME NEW g \in World, Listing(g), Numbered(g), NEW size \in Sizes,
         g.asteroids_id + 3 <= MaxAsteroid
  PROVE  LET h == Children(g, size)
         IN  /\ Evolves(g, h, 0) /\ ShipsKept(g, h) /\ Occupied(g, h)
             /\ Pieces(h) <= Pieces(g) + 3 * Smallest[size] /\ h.sAstNum = g.sAstNum
<1> DEFINE h1 == Child(g, size)
           h2 == Child(h1, size)
           h3 == Child(h2, size)
<1>1. g.asteroids_id \in Int /\ MaxAsteroid \in Int BY WorldFields, ConstantFacts
<1>2. /\ Evolves(g, h1, 0) /\ ShipsKept(g, h1) /\ Occupied(g, h1)
      /\ h1.asteroids_id <= g.asteroids_id + 1
      /\ Pieces(h1) <= Pieces(g) + Smallest[size] /\ h1.sAstNum = g.sAstNum
  BY <1>1, AstCreated DEF Child
<1> HIDE DEF h1
<1>3. h1 \in World /\ Listing(h1) /\ Numbered(h1) /\ h1.asteroids_id \in Int
  BY <1>2, WorldFields DEF Evolves
<1>4. /\ Evolves(h1, h2, 0) /\ ShipsKept(h1, h2) /\ Occupied(h1, h2)
      /\ h2.asteroids_id <= h1.asteroids_id + 1
      /\ Pieces(h2) <= Pieces(h1) + Smallest[size] /\ h2.sAstNum = h1.sAstNum
  BY <1>1, <1>2, <1>3, AstCreated DEF Child
<1> HIDE DEF h2
<1>5. h2 \in World /\ Listing(h2) /\ Numbered(h2) /\ h2.asteroids_id \in Int
  BY <1>4, WorldFields DEF Evolves
<1>6. /\ Evolves(h2, h3, 0) /\ ShipsKept(h2, h3) /\ Occupied(h2, h3)
      /\ Pieces(h3) <= Pieces(h2) + Smallest[size] /\ h3.sAstNum = h2.sAstNum
  BY <1>1, <1>2, <1>3, <1>4, <1>5, AstCreated DEF Child
<1> HIDE DEF h3
<1>7. Evolves(g, h2, 0 + 0) BY <1>2, <1>4, EvolvesChain
<1>8. Evolves(g, h2, 0) BY <1>7
<1>9. Evolves(g, h3, 0 + 0) BY <1>6, <1>8, EvolvesChain
<1>10. Evolves(g, h3, 0) BY <1>9
<1>11. ShipsKept(g, h3) BY <1>2, <1>4, <1>6, ShipsKeptChain
<1>12. Occupied(g, h3) BY <1>2, <1>4, <1>6 DEF Occupied
<1>13. Children(g, size) = h3 BY DEF Children, h1, h2, h3
<1>14. Pieces(h3) <= Pieces(g) + 3 * Smallest[size]
  <2>1. h3 \in World BY <1>6 DEF Evolves
  <2>2. /\ Pieces(g) \in Nat /\ Pieces(h1) \in Nat /\ Pieces(h2) \in Nat
        /\ Pieces(h3) \in Nat /\ Smallest[size] \in Nat
    BY <1>3, <1>5, <2>1, PiecesNat, SmallestFacts
  <2>3. QED BY <1>2, <1>4, <1>6, <2>2
<1>15. h3.sAstNum = g.sAstNum BY <1>2, <1>4, <1>6
<1>16. QED BY <1>10, <1>11, <1>12, <1>13, <1>14, <1>15

(* astCreate with a source: it shrinks, or the pool is full before. *)
LEMMA AsteroidSplit ==
  ASSUME NEW g \in World, Listing(g), Numbered(g), NEW a \in Asteroids(g),
         g.pool[a].scale > 0, g.asteroids_id + 3 <= MaxAsteroid, NEW colour \in Colours
  PROVE  LET h == Split(g, a, colour)
         IN  /\ Evolves(g, h, 0) /\ ShipsKept(g, h)
             /\ \A s \in Slots : s # a /\ g.pool[s] # Free => h.pool[s] = g.pool[s]
             /\ ~Cramped(g, colour) => Thrifty(g, h)
<1> DEFINE size == g.pool[a].scale - 1
           k == sparkCreate(Server, g, colour)
           h == Children(k, size)
           o == [g.pool[a] EXCEPT !.scale = size]
           f == [h EXCEPT !.pool[a].scale = size]
           j == g.pool[a].m_id
<1>0. Split(g, a, colour) = IF Cramped(g, colour) THEN h ELSE f
  BY DEF Split
<1>1. a \in Slots /\ g.pool[a].type = TYPE_ASTEROID BY DEF Asteroids, Of
<1>2. g.pool[a] \in Object /\ g.pool[a] # Free BY <1>1, PoolTypes, TypeFacts
<1>3. /\ g.pool[a].scale \in Sizes /\ size \in Sizes /\ size <= g.pool[a].scale
      /\ Smallest[g.pool[a].scale] = 4 * Smallest[size] /\ Smallest[size] \in Nat
  <2>1. g.pool[a].scale \in Sizes BY <1>2 DEF Object
  <2>2. size \in Sizes /\ size <= g.pool[a].scale BY <2>1, ConstantFacts DEF Sizes
  <2>3. QED BY <2>1, <2>2, SmallestFacts
<1>4. k \in World /\ Untouched(g, k) /\ ShipsKept(g, k) /\ Occupied(g, k)
  BY Sparked, ConstantFacts
<1>5. Listing(k) /\ AllAsteroids(k) = AllAsteroids(g) /\ Evolves(g, k, 0)
  BY <1>4, ListingKept, EvolvesUntouched
<1>6. Numbered(k) /\ k.asteroids_id + 3 <= MaxAsteroid
  BY <1>4, <1>5 DEF Evolves, Untouched
<1> HIDE DEF k, size
<1>7. /\ Evolves(k, h, 0) /\ ShipsKept(k, h) /\ Occupied(k, h)
      /\ Pieces(h) <= Pieces(k) + 3 * Smallest[size] /\ h.sAstNum = k.sAstNum
  BY <1>3, <1>4, <1>5, <1>6, ChildrenCreated
<1> HIDE DEF h
<1>8. Evolves(g, h, 0)
  <2>1. Evolves(g, h, 0 + 0) BY <1>5, <1>7, EvolvesChain
  <2>2. QED BY <2>1
<1>9. ShipsKept(g, h) BY <1>4, <1>7, ShipsKeptChain
<1>10. Occupied(g, h) BY <1>4, <1>7 DEF Occupied
<1>11. h \in World /\ Listing(h) /\ Numbered(h) BY <1>8 DEF Evolves
<1>12. h.pool[a] = g.pool[a] /\ a \in Asteroids(h)
  BY <1>1, <1>2, <1>10 DEF Occupied, Asteroids, Of
<1>13. /\ f \in World /\ Listing(f) /\ ShipsKept(h, f)
       /\ f.mAsteroids = h.mAsteroids
       /\ f.sAstCtr = h.sAstCtr /\ f.asteroids_id = h.asteroids_id
       /\ f.sAstNum = h.sAstNum
       /\ \A s \in Slots : s # a => f.pool[s] = h.pool[s]
       /\ \A i \in AstIds : AllAsteroids(f)[i] =
            IF i = h.pool[a].m_id THEN size ELSE AllAsteroids(h)[i]
  BY <1>3, <1>11, <1>12, Resized
<1>14. f.pool[a].type = TYPE_ASTEROID /\ f.pool[a].scale = size
  <2>1. h.pool \in Pools BY <1>11, WorldFields
  <2>2. g.pool[a] = [type |-> g.pool[a].type, m_id |-> g.pool[a].m_id,
                     scale |-> g.pool[a].scale]
    BY <1>2 DEF Object
  <2>3. f.pool = [h.pool EXCEPT ![a] = [h.pool[a] EXCEPT !.scale = size]]
    BY <1>11 DEF World
  <2>4. f.pool[a] = [g.pool[a] EXCEPT !.scale = size] BY <1>1, <1>12, <2>1, <2>3 DEF Pools
  <2>5. QED BY <1>1, <1>2, <2>4 DEF Object
<1> HIDE DEF f
<1>16. AllAsteroids(h)[j] = g.pool[a].scale /\ j \in AstIds
  <2>1. j \in AstIds /\ h.mAsteroids[j] = a BY <1>11, <1>12 DEF Listing
  <2>2. a # Null BY <1>1, ConstantFacts
  <2>3. QED BY <2>1, <2>2, <1>12 DEF AllAsteroids
<1>17. Evolves(h, f, 0)
  <2>1. h.asteroids_id \in Int /\ h.sAstCtr \in Int BY <1>11, WorldFields
  <2>2. \A i \in AstIds : h.mAsteroids[i] # Null => AllAsteroids(h)[i] \in Int
    BY <1>11, TableFacts, ConstantFacts
  <2>3. Numbered(f) BY <1>11, <1>13 DEF Numbered
  <2>4. \A i \in AstIds : f.mAsteroids[i] # Null => AllAsteroids(f)[i] <= AllAsteroids(h)[i]
    BY <2>2, <1>3, <1>12, <1>13, <1>16
  <2>5. QED BY <2>1, <2>3, <2>4, <1>13 DEF Evolves
<1>18. Evolves(g, f, 0)
  <2>1. Evolves(g, f, 0 + 0) BY <1>8, <1>17, EvolvesChain
  <2>2. QED BY <2>1
<1>19. ShipsKept(g, f) BY <1>9, <1>13, ShipsKeptChain
<1>20. Thrifty(g, f)
  <2> DEFINE w == Smallest[size]
  <2>1. Weight(h.pool[a]) = 4 * w
    <3>1. h.pool[a].type = TYPE_ASTEROID /\ h.pool[a].scale = g.pool[a].scale
      BY <1>1, <1>12
    <3>2. QED BY <1>3, <3>1 DEF Weight
  <2>2. Weight(f.pool[a]) = w
    <3>1. f.pool[a].type = TYPE_ASTEROID /\ f.pool[a].scale = size BY <1>14
    <3>2. QED BY <3>1 DEF Weight
  <2>3. \A r \in Slots : r # a => Weight(f.pool[r]) <= Weight(h.pool[r])
    <3>1. \A r \in Slots : Weight(h.pool[r]) \in Nat BY <1>11, WeightFacts
    <3>2. QED BY <1>13, <3>1
  <2>4. Pieces(f) + Weight(h.pool[a]) <= Pieces(h) + Weight(f.pool[a])
    BY <1>1, <1>11, <1>13, <2>3, PiecesCompared
  <2>5. Pieces(k) <= Pieces(g) /\ g.sAstNum <= k.sAstNum
    BY <1>4, UntouchedThrifty DEF Thrifty
  <2>6. /\ Pieces(g) \in Nat /\ Pieces(k) \in Nat /\ Pieces(h) \in Nat /\ Pieces(f) \in Nat
    BY <1>4, <1>11, <1>13, PiecesNat
  <2>7. w \in Nat /\ Pieces(h) <= Pieces(k) + 3 * w BY <1>3, <1>7
  <2> HIDE DEF w
  <2>8. Pieces(f) <= Pieces(g) BY <2>1, <2>2, <2>4, <2>5, <2>6, <2>7
  <2>9. g.sAstNum <= f.sAstNum BY <1>7, <1>13, <2>5
  <2>10. QED BY <2>8, <2>9 DEF Thrifty
<1>21. QED BY <1>0, <1>8, <1>9, <1>10, <1>13, <1>18, <1>19, <1>20 DEF Occupied

-----------------------------------------------------------------------------
(* Ships, scores and the first games.                                      *)

LEMMA Scored ==
  ASSUME NEW g \in World, Listing(g), Numbered(g), NEW i
  PROVE  LET h == Score(g, i)
         IN  /\ h \in World /\ h.pool = g.pool /\ ShipsKept(g, h)
             /\ Evolves(g, h, 0) /\ Thrifty(g, h)
<1> DEFINE h == Score(g, i)
           n == g.mScores[i] + 1
           scores == [g.mScores EXCEPT ![i] = n]
           ships == IF n % AST_SHIP_RATIO = 0 THEN g.sShipCtr + 1 ELSE g.sShipCtr
           num == IF n = g.sAstNum * LevelRatio /\ g.sAstNum < AST_NUM_MAX
                  THEN 2 * g.sAstNum ELSE g.sAstNum
<1>1. g.mScores \in [Player -> Nat] /\ g.sShipCtr \in Int /\ g.sAstNum \in Nat
  BY WorldFields
<1>2. i \in Player => n \in Nat BY <1>1
<1> HIDE DEF n
<1>3. scores \in [Player -> Nat] BY <1>1, <1>2
<1>4. ships \in Int
  <2>1. g.sShipCtr + 1 \in Int BY <1>1
  <2>2. QED BY <1>1, <2>1
<1>5. num \in Nat /\ g.sAstNum <= num
  <2>1. 2 * g.sAstNum \in Nat /\ g.sAstNum <= 2 * g.sAstNum /\ g.sAstNum <= g.sAstNum
    BY <1>1
  <2>2. QED BY <1>1, <2>1
<1>6. h = [g EXCEPT !.mScores = scores, !.sShipCtr = ships, !.sAstNum = num]
  BY DEF Score, World, n
<1> HIDE DEF h, scores, ships, num
<1>7. h \in World BY <1>3, <1>4, <1>5, <1>6 DEF World
<1>8. /\ h.pool = g.pool /\ h.mAsteroids = g.mAsteroids /\ h.sAstCtr = g.sAstCtr
      /\ h.asteroids_id = g.asteroids_id /\ h.mShips = g.mShips /\ h.spShip = g.spShip
      /\ h.sAstNum = num
  BY <1>6 DEF World
<1>9. ShipsKept(g, h) BY <1>8 DEF ShipsKept
<1>10. Evolves(g, h, 0)
  <2>1. Asteroids(h) = Asteroids(g) /\ AllAsteroids(h) = AllAsteroids(g)
    BY <1>8 DEF Asteroids, Of, AllAsteroids
  <2>2. Listing(h) /\ Numbered(h) BY <1>8, <2>1 DEF Listing, Numbered
  <2>3. g.asteroids_id \in Int /\ g.sAstCtr \in Int BY WorldFields
  <2>4. \A r \in AstIds : g.mAsteroids[r] # Null => AllAsteroids(g)[r] \in Int
    BY TableFacts, ConstantFacts
  <2>5. QED BY <1>7, <1>8, <2>1, <2>2, <2>3, <2>4 DEF Evolves
<1>11. Thrifty(g, h)
  <2>1. \A r \in Slots : Weight(g.pool[r]) \in Nat BY WeightFacts
  <2>2. \A r \in Slots : Weight(h.pool[r]) <= Weight(g.pool[r]) BY <1>8, <2>1
  <2>3. Pieces(h) <= Pieces(g) BY <1>7, <2>2, PiecesFewer
  <2>4. QED BY <1>5, <1>8, <2>3 DEF Thrifty
<1>12. QED BY <1>7, <1>8, <1>9, <1>10, <1>11 DEF h

(* g with other pointers to ships, or another count of them. *)
LEMMA PointersReplaced ==
  ASSUME NEW g \in World, NEW ships \in [Player -> Slots \cup {Null, Absent}],
         NEW own \in Slots \cup {Null}, NEW scores \in [Player -> Nat], NEW left \in Int,
         NEW ended \in BOOLEAN, NEW won \in BOOLEAN
  PROVE  LET h == [g EXCEPT !.mShips = ships, !.spShip = own, !.mScores = scores,
                            !.sShipCtr = left, !.game_ended = ended, !.game_won = won]
         IN  /\ h \in World /\ h.pool = g.pool /\ h.mShips = ships /\ h.spShip = own
             /\ Untouched(g, h)
<1> DEFINE h == [g EXCEPT !.mShips = ships, !.spShip = own, !.mScores = scores,
                          !.sShipCtr = left, !.game_ended = ended, !.game_won = won]
<1>1. h \in World BY DEF World
<1>2. /\ h.pool = g.pool /\ h.mAsteroids = g.mAsteroids /\ h.sAstCtr = g.sAstCtr
      /\ h.asteroids_id = g.asteroids_id /\ h.mShips = ships /\ h.spShip = own
      /\ h.sAstNum = g.sAstNum
  BY DEF World
<1> HIDE DEF h
<1>3. QED BY <1>1, <1>2 DEF Untouched, h

LEMMA ShipsInSlots ==
  ASSUME NEW p, NEW g, Good(p, g), NEW i \in Player, g.mShips[i] \in Slots
  PROVE  g.pool[g.mShips[i]].type = TYPE_SHIP /\ g.pool[g.mShips[i]].type # TYPE_ASTEROID
BY TypeFacts DEF Good, ShipsAt, Ship

(* NET_PLAYER_DEATH and RemovePlayer: the ship of another player, or the   *)
(* own one with the pointer to it.                                         *)
LEMMA ShipLost ==
  ASSUME NEW p \in Player, NEW g, Good(p, g), NEW i \in Player
  PROVE  LET h == LoseShip(g, i)
         IN  /\ h \in World /\ Untouched(g, h)
             /\ i # p => Good(p, h)
             /\ [h EXCEPT !.spShip = Null] \in World
             /\ Untouched(g, [h EXCEPT !.spShip = Null])
             /\ Good(p, [h EXCEPT !.spShip = Null])
<1> DEFINE S == {g.mShips[i]} \cap Slots
           d == gameObjInstDestroy(g, S)
           ships == [d.mShips EXCEPT ![i] = Absent]
           h == LoseShip(g, i)
           f == [h EXCEPT !.spShip = Null]
<1>1. g \in World /\ Listing(g) /\ ShipsAt(p, g) BY DEF Good
<1>2. \A s \in S : g.pool[s].type = TYPE_SHIP /\ g.pool[s].type # TYPE_ASTEROID
  BY ShipsInSlots
<1>3. S \subseteq Slots OBVIOUS
<1> HIDE DEF S
<1>4. /\ d \in World /\ Untouched(g, d) /\ d.mShips = g.mShips /\ d.spShip = g.spShip
      /\ \A s \in Slots \ S : d.pool[s] = g.pool[s]
  BY <1>1, <1>2, <1>3, OthersDestroyed
<1> HIDE DEF d
<1>5. ships \in [Player -> Slots \cup {Null, Absent}] BY <1>4, WorldFields
<1>6. h = [d EXCEPT !.mShips = ships] BY <1>4 DEF LoseShip, S, d, World
<1>7. f = [d EXCEPT !.mShips = ships, !.spShip = Null] BY <1>6
<1> HIDE DEF h, f, ships
<1>8. h \in World /\ f \in World BY <1>4, <1>5, <1>6, <1>7 DEF World
<1>9. /\ h.pool = d.pool /\ h.mAsteroids = d.mAsteroids /\ h.sAstCtr = d.sAstCtr
      /\ h.sAstNum = d.sAstNum
      /\ h.asteroids_id = d.asteroids_id /\ h.mShips = ships /\ h.spShip = d.spShip
      /\ f.pool = d.pool /\ f.mAsteroids = d.mAsteroids /\ f.sAstCtr = d.sAstCtr
      /\ f.sAstNum = d.sAstNum
      /\ f.asteroids_id = d.asteroids_id /\ f.mShips = ships /\ f.spShip = Null
  BY <1>4, <1>6, <1>7 DEF World
<1>10. Untouched(g, h) /\ Untouched(g, f) BY <1>4, <1>9 DEF Untouched
<1>11. ASSUME NEW j \in Player, ships[j] \in Slots
       PROVE  d.pool[ships[j]].type = TYPE_SHIP /\ d.pool[ships[j]].m_id = j
  <2>1. g.mShips \in [Player -> Slots \cup {Null, Absent}] BY <1>1, WorldFields
  <2>2. j # i BY <2>1, <1>4, <1>11, ConstantFacts DEF ships
  <2>3. ships[j] = g.mShips[j] BY <2>1, <2>2, <1>4 DEF ships
  <2>4. Ship(g, j, ships[j]) BY <2>3, <1>1, <1>11 DEF ShipsAt
  <2>5. ships[j] \notin S
    <3>1. g.mShips[i] \in Slots => g.pool[g.mShips[i]].m_id = i
      BY <1>1 DEF ShipsAt, Ship
    <3>2. QED BY <3>1, <2>2, <2>4 DEF S, Ship
  <2>6. QED BY <2>4, <2>5, <1>4, <1>11 DEF Ship
<1>12. ASSUME i # p, g.spShip # Null
       PROVE  d.pool[g.spShip].type = TYPE_SHIP /\ d.pool[g.spShip].m_id = p
  <2>1. g.spShip \in Slots /\ Ship(g, p, g.spShip)
    BY <1>1, <1>12, WorldFields DEF ShipsAt
  <2>2. g.spShip \notin S
    <3>1. g.mShips[i] \in Slots => g.pool[g.mShips[i]].m_id = i
      BY <1>1 DEF ShipsAt, Ship
    <3>2. QED BY <3>1, <2>1, <1>12 DEF S, Ship
  <2>3. QED BY <2>1, <2>2, <1>4 DEF Ship
<1>13. i # p => ShipsAt(p, h) BY <1>4, <1>9, <1>11, <1>12 DEF ShipsAt, Ship
<1>14. ShipsAt(p, f) BY <1>9, <1>11 DEF ShipsAt, Ship
<1>15. Listing(h) /\ Listing(f) BY <1>1, <1>8, <1>10, ListingKept
<1>16. QED BY <1>8, <1>10, <1>13, <1>14, <1>15 DEF Good, h, f

LEMMA PlayerRemoved ==
  ASSUME NEW p \in Player, NEW g, Good(p, g), NEW i \in Player, i # p
  PROVE  Good(p, RemovePlayer(g, i)) /\ Untouched(g, RemovePlayer(g, i))
<1> DEFINE h == LoseShip(g, i)
           scores == [h.mScores EXCEPT ![i] = 0]
           f == [h EXCEPT !.mScores = scores]
<1>1. h \in World /\ Untouched(g, h) /\ Good(p, h) BY ShipLost
<1> HIDE DEF h
<1>2. scores \in [Player -> Nat] BY <1>1, WorldFields
<1> HIDE DEF scores
<1>3. f \in World BY <1>1, <1>2 DEF World
<1>4. /\ f.pool = h.pool /\ f.mAsteroids = h.mAsteroids /\ f.sAstCtr = h.sAstCtr
      /\ f.asteroids_id = h.asteroids_id /\ f.mShips = h.mShips /\ f.spShip = h.spShip
      /\ f.sAstNum = h.sAstNum
  BY <1>1 DEF World
<1>5. RemovePlayer(g, i) = IF g.mShips[i] = Absent THEN g ELSE f
  BY DEF RemovePlayer, f, scores, h
<1> HIDE DEF f
<1>6. Untouched(h, f) /\ ShipsKept(h, f) BY <1>4 DEF Untouched, ShipsKept
<1>7. Good(p, f) /\ Untouched(g, f) BY <1>1, <1>3, <1>6, GoodKept, UntouchedChain
<1>8. Untouched(g, g) BY DEF Untouched
<1>9. QED BY <1>5, <1>7, <1>8

(* NET_GAME_WON: every ship and every pointer to one. *)
LEMMA ShipsCleared ==
  ASSUME NEW p \in Player, NEW g, Good(p, g)
  PROVE  Good(p, ClearShips(g)) /\ Untouched(g, ClearShips(g))
<1> DEFINE S == {g.mShips[i] : i \in Player} \cap Slots
           d == gameObjInstDestroy(g, S)
           ships == [i \in Player |-> Absent]
           h == ClearShips(g)
<1>1. g \in World /\ Listing(g) BY DEF Good
<1>2. \A s \in S : g.pool[s].type # TYPE_ASTEROID BY ShipsInSlots
<1>3. S \subseteq Slots OBVIOUS
<1>4. h = [d EXCEPT !.mShips = ships, !.spShip = Null, !.game_won = TRUE]
  BY DEF ClearShips
<1> HIDE DEF S
<1>5. d \in World /\ Untouched(g, d) BY <1>1, <1>2, <1>3, OthersDestroyed
<1>6. ships \in [Player -> Slots \cup {Null, Absent}] OBVIOUS
<1>7. \A i \in Player : ships[i] \notin Slots BY ConstantFacts
<1> HIDE DEF d, h, ships
<1>8. h \in World BY <1>4, <1>5, <1>6 DEF World
<1>9. /\ h.pool = d.pool /\ h.mAsteroids = d.mAsteroids /\ h.sAstCtr = d.sAstCtr
      /\ h.asteroids_id = d.asteroids_id /\ h.mShips = ships /\ h.spShip = Null
      /\ h.sAstNum = d.sAstNum
  BY <1>4, <1>5 DEF World
<1>10. Untouched(g, h) BY <1>5, <1>9 DEF Untouched
<1>11. ShipsAt(p, h) BY <1>7, <1>9 DEF ShipsAt
<1>12. QED BY <1>1, <1>8, <1>10, <1>11, ListingKept DEF Good, h

(* CreateShip: the ship that was there stays in the pool. *)
LEMMA ShipCreated ==
  ASSUME NEW p \in Player, NEW g, Good(p, g), NEW i \in Player
  PROVE  LET h == CreateShip(g, i)
         IN  /\ Good(p, h) /\ Untouched(g, h)
             /\ h.mShips[i] \in Slots \cup {Null}
<1> DEFINE s == NewSlot(g, TRUE)
           c == gameObjInstCreate(g, TYPE_SHIP, i, 0, TRUE)
           ships == [c.mShips EXCEPT ![i] = s]
           scores == [c.mScores EXCEPT ![i] = 0]
           h == CreateShip(g, i)
           o == [type |-> TYPE_SHIP, m_id |-> i, scale |-> 0]
<1>1. g \in World /\ Listing(g) /\ ShipsAt(p, g) BY DEF Good
<1>2. /\ c \in World /\ Untouched(g, c) /\ ShipsKept(g, c)
      /\ s # Null => c.pool[s] = o
  BY <1>1, Created
<1>3. s \in Slots \cup {Null} BY <1>1, NewSlotFree
<1>4. h = [c EXCEPT !.mShips = ships, !.mScores = scores]
  BY DEF CreateShip
<1>5. o.type = TYPE_SHIP /\ o.m_id = i OBVIOUS
<1> HIDE DEF s, c, h, o
<1>6. c.mShips \in [Player -> Slots \cup {Null, Absent}] /\ c.mScores \in [Player -> Nat]
  BY <1>2, WorldFields
<1>7. ships \in [Player -> Slots \cup {Null, Absent}] /\ scores \in [Player -> Nat]
  BY <1>3, <1>6
<1>8. ships[i] = s /\ \A j \in Player : j # i => ships[j] = c.mShips[j] BY <1>6
<1> HIDE DEF ships, scores
<1>9. h \in World BY <1>2, <1>4, <1>7 DEF World
<1>10. /\ h.pool = c.pool /\ h.mAsteroids = c.mAsteroids /\ h.sAstCtr = c.sAstCtr
       /\ h.asteroids_id = c.asteroids_id /\ h.mShips = ships /\ h.spShip = c.spShip
       /\ h.sAstNum = c.sAstNum
  BY <1>2, <1>4 DEF World
<1>11. Untouched(g, h) BY <1>2, <1>10 DEF Untouched
<1>12. ShipsAt(p, c) BY <1>1, <1>2, ShipsStay
<1>13. \A j \in Player : ships[j] \in Slots => Ship(c, j, ships[j])
  BY <1>2, <1>5, <1>8, <1>12, ConstantFacts DEF ShipsAt, Ship
<1>14. ShipsAt(p, h) BY <1>10, <1>12, <1>13 DEF ShipsAt, Ship
<1>15. QED
  BY <1>1, <1>3, <1>8, <1>9, <1>10, <1>11, <1>14, ListingKept DEF Good, h

LEMMA OwnShipCreated ==
  ASSUME NEW p \in Player, NEW g, Good(p, g)
  PROVE  Good(p, OwnShip(g, p)) /\ Untouched(g, OwnShip(g, p))
<1> DEFINE h == CreateShip(g, p)
           f == [h EXCEPT !.spShip = h.mShips[p]]
<1>1. Good(p, h) /\ Untouched(g, h) /\ h.mShips[p] \in Slots \cup {Null} BY ShipCreated
<1>2. OwnShip(g, p) = f BY DEF OwnShip
<1> HIDE DEF h
<1>3. h \in World /\ Listing(h) /\ ShipsAt(p, h) BY <1>1 DEF Good
<1>4. f \in World BY <1>1, <1>3 DEF World
<1>5. /\ f.pool = h.pool /\ f.mAsteroids = h.mAsteroids /\ f.sAstCtr = h.sAstCtr
      /\ f.asteroids_id = h.asteroids_id /\ f.mShips = h.mShips /\ f.spShip = h.mShips[p]
      /\ f.sAstNum = h.sAstNum
  BY <1>3 DEF World
<1> HIDE DEF f
<1>6. Untouched(h, f) BY <1>5 DEF Untouched
<1>7. ShipsAt(p, f)
  <2>1. f.spShip # Null => f.spShip \in Slots BY <1>1, <1>5
  <2>2. QED BY <2>1, <1>3, <1>5 DEF ShipsAt, Ship
<1>8. Good(p, f) BY <1>3, <1>4, <1>6, <1>7, ListingKept DEF Good
<1>9. QED BY <1>1, <1>2, <1>6, <1>8, UntouchedChain

LEMMA EmptyGood ==
  ASSUME NEW p \in Player
  PROVE  /\ Good(p, EmptyGame) /\ Numbered(EmptyGame)
         /\ EmptyGame.asteroids_id = 0 /\ EmptyGame.sAstCtr = 0
         /\ EmptyGame.sAstNum = AST_NUM_MIN
         /\ EmptyGame.sAstNum = AST_NUM_MIN
      /\ \A i \in AstIds : EmptyGame.mAsteroids[i] = Null
<1> DEFINE g == EmptyGame
<1>1. EmptyGame \in World
  <2>1. AST_NUM_MIN \in Nat /\ SHIP_INITIAL_NUM \in Nat /\ MaxAsteroid \in Nat
    BY ObjectsAssumption DEF ObjectsAssumption
  <2>2. QED BY <2>1 DEF EmptyGame, World
<1>2. /\ EmptyGame.asteroids_id = 0 /\ EmptyGame.sAstCtr = 0 /\ EmptyGame.spShip = Null
      /\ EmptyGame.sAstNum = AST_NUM_MIN
      /\ \A i \in AstIds : EmptyGame.mAsteroids[i] = Null
      /\ \A s \in Slots : EmptyGame.pool[s] = Free
      /\ \A i \in Player : EmptyGame.mShips[i] = Absent
  BY DEF EmptyGame
<1>3. Asteroids(EmptyGame) = {}
  BY <1>2, TypeFacts DEF Asteroids, Of
<1>4. Listing(EmptyGame) BY <1>2, <1>3, FS_EmptySet DEF Listing
<1>5. ShipsAt(p, EmptyGame) BY <1>2, ConstantFacts DEF ShipsAt
<1>6. QED BY <1>1, <1>2, <1>4, <1>5 DEF Good, Numbered

(* An asteroid of NET_ASTEROID_UPDATE. *)
LEMMA AsteroidUpdated ==
  ASSUME NEW p \in Clients, NEW g, Good(p, g), NEW i \in AstIds, NEW size \in Sizes
  PROVE  LET h == UpdateAsteroid(p, g, i, size)
         IN  /\ Good(p, h)
             /\ \A j \in AstIds : \/ AllAsteroids(h)[j] = AllAsteroids(g)[j]
                                  \/ j = i /\ AllAsteroids(h)[j] = size
<1>1. g \in World /\ Listing(g) /\ ShipsAt(p, g) BY DEF Good
<1>2. /\ g.pool \in Pools /\ g.mAsteroids \in [AstIds -> Slots \cup {Null}]
      /\ g.sAstCtr \in Nat
  BY <1>1, WorldFields
<1>3. CASE g.mAsteroids[i] # Null
  <2> DEFINE s == g.mAsteroids[i]
             a == [g.mAsteroids EXCEPT ![i] = s]
             o == [g.pool[s] EXCEPT !.m_id = i, !.scale = size]
             q == [g.pool EXCEPT ![s] = o]
             h == UpdateAsteroid(p, g, i, size)
             f == [g EXCEPT !.pool[s].scale = size]
  <2>1. s \in Asteroids(g) /\ g.pool[s].m_id = i /\ s \in Slots
    BY <1>1, <1>3 DEF Listing, Asteroids, Of
  <2>2. g.pool[s] \in Object
    BY <1>1, <2>1, PoolTypes, TypeFacts DEF Asteroids, Of
  <2>3. a = g.mAsteroids BY <1>2
  <2>4. o = [g.pool[s] EXCEPT !.scale = size] BY <2>1, <2>2 DEF Object
  <2>5. h = [g EXCEPT !.mAsteroids = a, !.pool = q]
    BY <1>1, <1>2, <1>3, <2>1 DEF UpdateAsteroid, World, Pools
  <2>6. f = [g EXCEPT !.pool = q] BY <2>4
  <2> HIDE DEF a, q
  <2>7. [g EXCEPT !.mAsteroids = a, !.pool = q] = [g EXCEPT !.pool = q]
    BY <1>1, <2>3 DEF World
  <2>8. h = f BY <2>5, <2>6, <2>7
  <2>9. /\ f \in World /\ Listing(f) /\ ShipsKept(g, f)
        /\ \A j \in AstIds : AllAsteroids(f)[j] =
             IF j = g.pool[s].m_id THEN size ELSE AllAsteroids(g)[j]
    BY <1>1, <2>1, Resized
  <2> HIDE DEF h, f
  <2>10. ShipsAt(p, f) BY <1>1, <2>9, ShipsStay
  <2>11. QED BY <2>1, <2>8, <2>9, <2>10 DEF Good, h
<1>4. CASE g.mAsteroids[i] = Null
  <2> DEFINE s == NewSlot(g, TRUE)
             a == [g.mAsteroids EXCEPT ![i] = s]
             o == [type |-> TYPE_ASTEROID, m_id |-> i, scale |-> size]
             q == [g.pool EXCEPT ![s] = o]
             h == UpdateAsteroid(p, g, i, size)
  <2>1. s \in Slots \cup {Null} /\ (s # Null => g.pool[s] = Free) BY <1>1, NewSlotFree
  <2>2. astCreate(p, g, SizeMax) = gameObjInstCreate(g, TYPE_ASTEROID, 0, SizeMax, TRUE)
    BY ConstantFacts DEF astCreate
  <2>3. CASE s = Null
    <3>1. h = g
      <4>1. astCreate(p, g, SizeMax) = g BY <2>2, <2>3 DEF gameObjInstCreate
      <4>2. h = [g EXCEPT !.mAsteroids[i] = Null,
                          !.pool[Null] = [g.pool[Null] EXCEPT !.m_id = i, !.scale = size]]
        BY <1>4, <2>3, <4>1 DEF UpdateAsteroid
      <4>3. [g.mAsteroids EXCEPT ![i] = Null] = g.mAsteroids BY <1>2, <1>4
      <4>4. \A x : [g.pool EXCEPT ![Null] = x] = g.pool
        BY <1>2, ConstantFacts DEF Pools
      <4>5. h = [g EXCEPT !.mAsteroids = g.mAsteroids, !.pool = g.pool]
        BY <1>1, <4>2, <4>3, <4>4 DEF World
      <4>6. QED BY <1>1, <4>5 DEF World
    <3>2. QED BY <3>1
  <2>4. CASE s # Null
    <3>1. s \in Slots /\ g.pool[s] = Free BY <2>1, <2>4
    <3>2. o \in Object /\ o.type = TYPE_ASTEROID /\ o.m_id = i /\ o.scale = size
      BY DEF Object
    <3> DEFINE r == [type |-> TYPE_ASTEROID, m_id |-> 0, scale |-> SizeMax]
               c == [g EXCEPT !.pool[s] = r, !.sAstCtr = g.sAstCtr + 1]
               b == [c.pool EXCEPT ![s] = [c.pool[s] EXCEPT !.m_id = i, !.scale = size]]
    <3>3. astCreate(p, g, SizeMax) = c BY <2>2, <2>4 DEF gameObjInstCreate
    <3>4. /\ c.pool = [g.pool EXCEPT ![s] = r] /\ c.mAsteroids = g.mAsteroids
          /\ c.sAstCtr = g.sAstCtr + 1
      BY <1>1 DEF World
    <3>5. c.pool[s] = r /\ [r EXCEPT !.m_id = i, !.scale = size] = o
      <4>1. [r EXCEPT !.m_id = i, !.scale = size] = o
        <5>1. [r EXCEPT !.m_id = i] = [type |-> TYPE_ASTEROID, m_id |-> i, scale |-> SizeMax]
          OBVIOUS
        <5>2. [[type |-> TYPE_ASTEROID, m_id |-> i, scale |-> SizeMax] EXCEPT !.scale = size]
                = o
          OBVIOUS
        <5>3. [[r EXCEPT !.m_id = i] EXCEPT !.scale = size] = o BY <5>1, <5>2
        <5>4. QED BY <5>3, Zenon
      <4>2. c.pool[s] = r
        <5> HIDE DEF r, c, s
        <5>1. QED BY <1>2, <3>1, <3>4 DEF Pools
      <4>3. QED BY <4>1, <4>2
    <3>6. b = q
      <4> HIDE DEF r, o
      <4>1. [c.pool[s] EXCEPT !.m_id = i, !.scale = size] = o BY <3>5
      <4>2. b = [c.pool EXCEPT ![s] = o] BY <4>1
      <4>3. QED BY <4>2, <3>4, <1>2 DEF Pools
    <3>7. h = [g EXCEPT !.mAsteroids = a, !.pool = q, !.sAstCtr = g.sAstCtr + 1]
      <4>1. h = [c EXCEPT !.mAsteroids[i] = s,
                          !.pool[s] = [c.pool[s] EXCEPT !.m_id = i, !.scale = size]]
        BY <1>4, <3>3 DEF UpdateAsteroid
      <4>2. h = [c EXCEPT !.mAsteroids = a, !.pool = b]
        BY <1>1, <3>1, <3>4, <4>1 DEF World
      <4>3. h = [c EXCEPT !.mAsteroids = a, !.pool = q] BY <4>2, <3>6
      <4> HIDE DEF a, q, s, h
      <4>4. QED BY <1>1, <4>3 DEF World
    <3>8. q \in Pools /\ a \in [AstIds -> Slots \cup {Null}] /\ g.sAstCtr + 1 \in Nat
      <4> HIDE DEF o, s
      <4>1. q \in Pools BY <1>2, <3>2 DEF Pools
      <4>2. QED BY <1>2, <3>1, <4>1
    <3>9. /\ h \in World /\ h.pool = q /\ h.mAsteroids = a /\ h.sAstCtr = g.sAstCtr + 1
          /\ h.mShips = g.mShips /\ h.spShip = g.spShip
      <4> HIDE DEF h, q, a, s
      <4>1. QED BY <1>1, <3>7, <3>8 DEF World, Pools
    <3>10. /\ h.pool[s] = o /\ \A k \in Slots : k # s => h.pool[k] = g.pool[k]
           /\ \A j \in AstIds : h.mAsteroids[j] = IF j = i THEN s ELSE g.mAsteroids[j]
      <4> HIDE DEF h, o, s
      <4>1. QED BY <1>2, <3>1, <3>9 DEF Pools
    <3> HIDE DEF h, o, s, q, a
    <3>11. /\ Listing(h)
           /\ \A j \in AstIds :
                AllAsteroids(h)[j] = IF j = i THEN o.scale ELSE AllAsteroids(g)[j]
      BY <1>1, <1>4, <3>1, <3>2, <3>9, <3>10, Enlisted
    <3>12. ShipsKept(g, h) BY <3>1, <3>9, <3>10, TypeFacts DEF ShipsKept
    <3>13. Good(p, h) BY <1>1, <3>9, <3>11, <3>12, ShipsStay DEF Good
    <3>14. QED BY <3>2, <3>11, <3>13 DEF h
  <2>5. QED BY <2>3, <2>4
<1>5. QED BY <1>3, <1>4

(* NET_ASTEROID_UPDATE: an asteroid that changes is the packet's.          *)
LEMMA AsteroidsUpdated ==
  ASSUME NEW p \in Clients, NEW g, Good(p, g), NEW asteroids \in Tables
  PROVE  LET h == UpdateAsteroids(p, g, asteroids)
         IN  /\ Good(p, h)
             /\ \A j \in AstIds : \/ AllAsteroids(h)[j] = AllAsteroids(g)[j]
                                  \/ AllAsteroids(h)[j] = asteroids[j]
<1> DEFINE N == MaxAsteroid
           T == {h \in World : Good(p, h)}
           Next1(n, h) == IF asteroids[n - 1] = NoSize THEN h
                          ELSE UpdateAsteroid(p, h, n - 1, asteroids[n - 1])
           Games(f) == [n \in 0 .. N |->
                          IF n = 0 THEN g
                          ELSE IF asteroids[n - 1] = NoSize THEN f[n - 1]
                          ELSE UpdateAsteroid(p, f[n - 1], n - 1, asteroids[n - 1])]
           G == [x \in (1 .. N) \X T |-> Next1(x[1], x[2])]
           k == CHOOSE f : f = Games(f)
<1>1. N \in Nat /\ g \in T BY ConstantFacts DEF Good
<1>2. UpdateAsteroids(p, g, asteroids) = k[N] BY DEF UpdateAsteroids
<1>3. ASSUME NEW n \in 1 .. N, NEW h \in T
      PROVE  /\ Next1(n, h) \in T
             /\ \A j \in AstIds : \/ AllAsteroids(Next1(n, h))[j] = AllAsteroids(h)[j]
                                  \/ AllAsteroids(Next1(n, h))[j] = asteroids[j]
  <2> DEFINE u == UpdateAsteroid(p, h, n - 1, asteroids[n - 1])
  <2>1. CASE asteroids[n - 1] = NoSize BY <2>1
  <2>2. CASE asteroids[n - 1] # NoSize
    <3>1. n - 1 \in AstIds BY <1>1 DEF AstIds
    <3>2. asteroids[n - 1] \in Sizes BY <2>2, <3>1 DEF Tables
    <3>3. /\ Good(p, u)
          /\ \A j \in AstIds : \/ AllAsteroids(u)[j] = AllAsteroids(h)[j]
                               \/ j = n - 1 /\ AllAsteroids(u)[j] = asteroids[n - 1]
      BY <3>1, <3>2, AsteroidUpdated
    <3>4. Next1(n, h) = u BY <2>2
    <3> HIDE DEF u, Next1
    <3>5. u \in T BY <3>3 DEF Good
    <3>6. QED BY <3>3, <3>4, <3>5
  <2>3. QED BY <2>1, <2>2
<1>4. G \in [(1 .. N) \X T -> T]
  <2> HIDE DEF Next1, T, N
  <2>1. \A x \in (1 .. N) \X T : Next1(x[1], x[2]) \in T BY <1>3
  <2>2. QED BY <2>1
<1>5. \E f \in [0 .. N -> T] : Recursion(f, N, g, G)
  <2> HIDE DEF G, N, T, Games, k
  <2>1. QED BY <1>1, <1>4, RecursionUpTo
<1>6. PICK f \in [0 .. N -> T] : f[0] = g /\ \A n \in 1 .. N : f[n] = G[<<n, f[n - 1]>>]
  <2> HIDE DEF G, N, T, Games, k
  <2>1. QED BY <1>5 DEF Recursion
<1>7. ASSUME NEW n \in 0 .. N PROVE f[n] = Games(f)[n]
  <2>1. CASE n = 0 BY <2>1, <1>6
  <2>2. CASE n # 0
    <3> HIDE DEF T, Next1
    <3>1. n \in 1 .. N /\ n - 1 \in 0 .. N BY <2>2, <1>1
    <3>2. f[n - 1] \in T /\ f[n] = G[<<n, f[n - 1]>>] BY <3>1, <1>6
    <3>3. <<n, f[n - 1]>> \in (1 .. N) \X T BY <3>1, <3>2
    <3>4. f[n] = Next1(n, f[n - 1]) BY <3>2, <3>3
    <3>5. QED BY <3>1, <3>4, <2>2 DEF Next1
  <2>3. QED BY <2>1, <2>2
<1>8. f = Games(f)
  <2>1. f = [n \in 0 .. N |-> f[n]] BY <1>6
  <2>2. f = [n \in 0 .. N |-> Games(f)[n]] BY <2>1, <1>7
  <2>3. QED BY <2>2
<1>9. k = Games(k)
  <2> HIDE DEF Games
  <2>1. QED BY <1>8
<1> HIDE DEF k
<1>10. ASSUME NEW n \in 0 .. N
       PROVE  k[n] = IF n = 0 THEN g ELSE Next1(n, k[n - 1])
  <2>1. k[n] = Games(k)[n]
    <3> HIDE DEF Games
    <3>1. QED BY <1>9
  <2>2. QED BY <2>1
<1> DEFINE Done(h) == \A j \in AstIds : \/ AllAsteroids(h)[j] = AllAsteroids(g)[j]
                                        \/ AllAsteroids(h)[j] = asteroids[j]
           S == {n \in 0 .. N : k[n] \in T /\ Done(k[n])}
<1>11. 0 \in S
  <2>1. 0 \in 0 .. N /\ k[0] = g BY <1>1, <1>10
  <2>2. QED BY <1>1, <2>1
<1>12. ASSUME NEW n \in 1 .. N, n - 1 \in S PROVE n \in S
  <2> DEFINE h == k[n - 1]
             u == Next1(n, h)
  <2>1. n \in 0 .. N /\ n # 0 BY <1>1
  <2>2. k[n] = u BY <2>1, <1>10
  <2>3. h \in T /\ Done(h) BY <1>12
  <2>4. /\ u \in T
        /\ \A j \in AstIds : \/ AllAsteroids(u)[j] = AllAsteroids(h)[j]
                             \/ AllAsteroids(u)[j] = asteroids[j]
    BY <1>3, <2>3
  <2> HIDE DEF u, h, Next1, T
  <2>5. Done(u) BY <2>3, <2>4
  <2>6. QED BY <2>1, <2>2, <2>4, <2>5
<1>13. N \in S
  <2> HIDE DEF S
  <2>1. \A n \in 0 .. N : n \in S BY <1>1, <1>11, <1>12, InductionUpTo
  <2>2. QED BY <1>1, <2>1
<1>14. QED BY <1>2, <1>13

(* NET_ASTEROID_DESTROY on a client. *)
LEMMA AsteroidGone ==
  ASSUME NEW p \in Player, NEW g, Good(p, g), NEW i \in AstIds, NEW colour \in Colours
  PROVE  LET h == DestroyAsteroid(p, g, i, colour)
         IN  /\ Good(p, h)
             /\ \A j \in AstIds : \/ AllAsteroids(h)[j] = AllAsteroids(g)[j]
                                  \/ AllAsteroids(h)[j] = NoSize
<1>1. g \in World /\ Listing(g) /\ ShipsAt(p, g) BY DEF Good
<1>2. CASE g.mAsteroids[i] = Null BY <1>2 DEF DestroyAsteroid
<1>3. CASE g.mAsteroids[i] # Null
  <2> DEFINE a == g.mAsteroids[i]
             d == gameObjInstDestroy(g, {a})
             h == sparkCreate(p, d, colour)
  <2>1. a \in Asteroids(g) BY <1>1, <1>3 DEF Listing
  <2>2. /\ d \in World /\ Listing(d) /\ ShipsKept(g, d)
        /\ \A j \in AstIds : d.mAsteroids[j] # Null =>
             g.mAsteroids[j] # Null /\ AllAsteroids(d)[j] = AllAsteroids(g)[j]
    BY <1>1, <2>1, AsteroidDestroyed
  <2>3. DestroyAsteroid(p, g, i, colour) = h BY <1>3 DEF DestroyAsteroid
  <2> HIDE DEF a, d
  <2>4. h \in World /\ Untouched(d, h) /\ ShipsKept(d, h) BY <2>2, Sparked
  <2>5. Listing(h) /\ AllAsteroids(h) = AllAsteroids(d) BY <2>2, <2>4, ListingKept
  <2>6. ShipsAt(p, h) BY <1>1, <2>2, <2>4, ShipsStay
  <2> HIDE DEF h
  <2>7. \A j \in AstIds : \/ AllAsteroids(h)[j] = AllAsteroids(g)[j]
                          \/ AllAsteroids(h)[j] = NoSize
    BY <2>2, <2>5, TableFacts
  <2>8. QED BY <2>3, <2>4, <2>5, <2>6, <2>7 DEF Good
<1>4. QED BY <1>2, <1>3

(* Game::Init: the server's asteroids, and what a client is told. *)
LEMMA InitialGames ==
  ASSUME NEW p \in Player
  PROVE  /\ Good(p, InitialGame(p)) /\ Numbered(InitialGame(p))
         /\ InitialGame(p).asteroids_id = InitialGame(p).sAstCtr
         /\ p = Server => InitialGame(p).sAstCtr <= InitialGame(p).sAstNum
         /\ p \in Clients => \A i \in AstIds : InitialGame(p).mAsteroids[i] = Null
<1>1. CASE p = Server
  <2> DEFINE N == AST_NUM_MIN
             g == OwnShip(EmptyGame, Server)
             Even(h) == h.asteroids_id = h.sAstCtr
             T == {h \in World : Good(Server, h) /\ Numbered(h) /\ h.sAstNum = N}
             Next1(h) == IF h.asteroids_id < MaxAsteroid THEN astCreate(Server, h, SizeMax)
                         ELSE h
             Games(f) == [n \in 0 .. N |->
                            IF n = 0 THEN g ELSE astCreate(Server, f[n - 1], SizeMax)]
             G == [x \in (1 .. N) \X T |-> Next1(x[2])]
             k == CHOOSE f : f = Games(f)
  <2>1. N \in Nat /\ MaxAsteroid \in Nat /\ N <= MaxAsteroid
    BY ObjectsAssumption DEF ObjectsAssumption
  <2>2. InitialGame(Server) = k[N] BY DEF InitialGame
  <2>3. g \in T /\ Even(g) /\ g.asteroids_id = 0
    <3>1. Good(Server, g) /\ Untouched(EmptyGame, g)
      BY ConstantFacts, EmptyGood, OwnShipCreated
    <3> HIDE DEF g
    <3>2. Numbered(g) BY <3>1, EmptyGood DEF Untouched, Numbered
    <3>3. g.sAstNum = N BY <3>1, EmptyGood DEF Untouched
    <3>4. QED BY <3>1, <3>2, <3>3, EmptyGood DEF Untouched, Good
  <2>4. ASSUME NEW h \in T, h.asteroids_id < MaxAsteroid
        PROVE  LET u == astCreate(Server, h, SizeMax)
               IN  u \in T /\ (Even(h) => Even(u)) /\ u.asteroids_id <= h.asteroids_id + 1
    <3> DEFINE u == astCreate(Server, h, SizeMax)
    <3>1. h \in World /\ Listing(h) /\ Numbered(h) /\ ShipsAt(Server, h) BY DEF Good
    <3>2. /\ Evolves(h, u, 0) /\ ShipsKept(h, u) /\ u.asteroids_id <= h.asteroids_id + 1
          /\ u.sAstNum = N
      BY <2>4, <3>1, AstCreated, ConstantFacts
    <3> HIDE DEF u
    <3>3. u \in World /\ Listing(u) /\ Numbered(u)
          /\ u.asteroids_id - u.sAstCtr = h.asteroids_id - h.sAstCtr + 0
      BY <3>2 DEF Evolves
    <3>4. ShipsAt(Server, u) BY <3>1, <3>2, <3>3, ShipsStay
    <3>5. u.asteroids_id \in Int /\ u.sAstCtr \in Int BY <3>3, <2>1, WorldFields
    <3>6. h.asteroids_id \in Int /\ h.sAstCtr \in Int BY <3>1, <2>1, WorldFields
    <3>7. Even(h) => Even(u)
      <4> DEFINE a == u.asteroids_id
                 b == u.sAstCtr
                 c == h.asteroids_id
                 d == h.sAstCtr
      <4>1. a \in Int /\ b \in Int /\ c \in Int /\ d \in Int /\ a - b = c - d + 0
        BY <3>3, <3>5, <3>6
      <4> HIDE DEF a, b, c, d
      <4>2. c = d => a = b BY <4>1
      <4>3. QED BY <4>2 DEF a, b, c, d
    <3>8. u \in T BY <3>2, <3>3, <3>4 DEF Good
    <3>9. QED BY <3>2, <3>7, <3>8 DEF u
  <2>5. ASSUME NEW h \in T PROVE Next1(h) \in T BY <2>4
  <2>6. G \in [(1 .. N) \X T -> T]
    <3> HIDE DEF Next1, T, N
    <3>1. \A x \in (1 .. N) \X T : Next1(x[2]) \in T BY <2>5
    <3>2. QED BY <3>1
  <2>7. PICK f \in [0 .. N -> T] : f[0] = g /\ \A n \in 1 .. N : f[n] = G[<<n, f[n - 1]>>]
    <3> HIDE DEF G, N, T, Games, k, g
    <3>1. \E f \in [0 .. N -> T] : Recursion(f, N, g, G) BY <2>1, <2>3, <2>6, RecursionUpTo
    <3>2. QED BY <3>1 DEF Recursion
  <2>8. ASSUME NEW n \in 1 .. N
        PROVE  n - 1 \in 0 .. N /\ f[n - 1] \in T /\ f[n] = Next1(f[n - 1])
    <3> HIDE DEF T, Next1
    <3>1. n - 1 \in 0 .. N BY <2>1
    <3>2. f[n - 1] \in T /\ f[n] = G[<<n, f[n - 1]>>] BY <3>1, <2>7
    <3>3. <<n, f[n - 1]>> \in (1 .. N) \X T BY <3>2
    <3>4. QED BY <3>1, <3>2, <3>3
  <2> DEFINE S == {n \in 0 .. N : f[n].asteroids_id <= n /\ Even(f[n])}
  <2>9. 0 \in S
    <3> HIDE DEF g, T, G, Games, Next1
    <3>1. 0 \in 0 .. N /\ f[0] = g /\ g.asteroids_id <= 0 BY <2>1, <2>3, <2>7
    <3>2. QED BY <2>3, <3>1
  <2>10. ASSUME NEW n \in 1 .. N, n - 1 \in S
         PROVE  /\ n \in S
                /\ f[n] = astCreate(Server, f[n - 1], SizeMax)
    <3> DEFINE h == f[n - 1]
               u == astCreate(Server, h, SizeMax)
    <3>1. h \in T /\ f[n] = Next1(h) BY <2>8
    <3>2. h.asteroids_id <= n - 1 /\ Even(h) BY <2>10
    <3>3. h.asteroids_id \in Int /\ h.asteroids_id < MaxAsteroid
      BY <2>1, <3>1, <3>2, WorldFields
    <3>4. f[n] = u BY <3>1, <3>3
    <3>5. u \in T /\ Even(u) /\ u.asteroids_id <= h.asteroids_id + 1
      BY <2>4, <3>1, <3>2, <3>3
    <3>6. u.asteroids_id \in Int BY <2>1, <3>5, WorldFields
    <3> HIDE DEF u, h, T
    <3>7. u.asteroids_id <= n BY <2>1, <3>2, <3>3, <3>5, <3>6
    <3>8. QED BY <2>1, <3>4, <3>5, <3>7 DEF u, h
  <2>11. \A n \in 0 .. N : n \in S
    <3> HIDE DEF S
    <3>1. QED BY <2>1, <2>9, <2>10, InductionUpTo
  <2>12. ASSUME NEW n \in 0 .. N PROVE f[n] = Games(f)[n]
    <3>1. CASE n = 0 BY <3>1, <2>7
    <3>2. CASE n # 0
      <4> HIDE DEF S
      <4>1. n \in 1 .. N /\ n - 1 \in 0 .. N BY <3>2, <2>1
      <4>2. f[n] = astCreate(Server, f[n - 1], SizeMax) BY <4>1, <2>10, <2>11
      <4>3. QED BY <3>2, <4>2
    <3>3. QED BY <3>1, <3>2
  <2>13. f = Games(f)
    <3>1. f = [n \in 0 .. N |-> f[n]] BY <2>7
    <3>2. f = [n \in 0 .. N |-> Games(f)[n]] BY <3>1, <2>12
    <3>3. QED BY <3>2
  <2>14. k = Games(k)
    <3> HIDE DEF Games
    <3>1. QED BY <2>13
  <2> HIDE DEF k
  <2>15. ASSUME NEW n \in 0 .. N
         PROVE  k[n] = IF n = 0 THEN g ELSE astCreate(Server, k[n - 1], SizeMax)
    <3>1. k[n] = Games(k)[n]
      <4> HIDE DEF Games
      <4>1. QED BY <2>14
    <3>2. QED BY <3>1
  <2> DEFINE R == {n \in 0 .. N : k[n] = f[n]}
  <2>16. 0 \in R BY <2>1, <2>7, <2>15
  <2>17. ASSUME NEW n \in 1 .. N, n - 1 \in R PROVE n \in R
    <3>1. n \in 0 .. N /\ n # 0 BY <2>1
    <3>2. k[n] = astCreate(Server, k[n - 1], SizeMax) BY <3>1, <2>15
    <3>3. f[n] = astCreate(Server, f[n - 1], SizeMax)
      <4> HIDE DEF S
      <4>1. QED BY <2>8, <2>10, <2>11
    <3>4. QED BY <3>1, <3>2, <3>3, <2>17
  <2>18. N \in R
    <3> HIDE DEF R
    <3>1. \A n \in 0 .. N : n \in R BY <2>1, <2>16, <2>17, InductionUpTo
    <3>2. QED BY <2>1, <3>1
  <2>19. k[N] = f[N] /\ f[N] \in T /\ Even(f[N]) /\ f[N].sAstCtr <= f[N].sAstNum
    <3>1. N \in 0 .. N BY <2>1
    <3>2. k[N] = f[N] /\ f[N] \in T /\ Even(f[N]) /\ f[N].asteroids_id <= N
      BY <3>1, <2>7, <2>11, <2>18
    <3>3. QED BY <3>2
  <2>20. QED BY <1>1, <2>2, <2>19, ConstantFacts
<1>2. CASE p # Server
  <2> DEFINE c == CreateShip(EmptyGame, Server)
             h == OwnShip(c, p)
  <2>1. InitialGame(p) = h BY <1>2 DEF InitialGame
  <2>2. Good(p, c) /\ Untouched(EmptyGame, c) BY ConstantFacts, EmptyGood, ShipCreated
  <2> HIDE DEF c
  <2>3. Good(p, h) /\ Untouched(c, h) BY <2>2, OwnShipCreated
  <2> HIDE DEF h
  <2>4. /\ h.mAsteroids = EmptyGame.mAsteroids /\ h.sAstCtr = EmptyGame.sAstCtr
        /\ h.asteroids_id = EmptyGame.asteroids_id
    BY <2>2, <2>3 DEF Untouched
  <2>5. Numbered(h) BY <2>4, EmptyGood DEF Numbered
  <2>6. QED BY <1>2, <2>1, <2>3, <2>4, <2>5, EmptyGood
<1>3. QED BY <1>1, <1>2

-----------------------------------------------------------------------------
(* The inductive invariant.                                                *)

\* What a client sends to the server
ToServer == {"PLAYER_NEW", "PLAYER_DEATH", "PLAYER_SHOT", "PLAYER_BOMB", "PLAYER_MISSILE"}

(* A packet is never sent to the player it is about, who would lose the    *)
(* ship its own pointer names; only the server speaks of asteroids.        *)
PacketRight(m) ==
  /\ m \in Packet
  /\ m.dst # m.id
  /\ m.dst = Server => m.type \in ToServer
  /\ m.type = "ASTEROID_DESTROY" => \E i \in AstIds : m.asteroids[i] # NoSize

(* The sizes T are those of asteroids that game g has numbered, and not    *)
(* less than what is left of them.                                         *)
Behind(g, T) ==
  \A i \in AstIds : T[i] # NoSize =>
    /\ i < g.asteroids_id
    /\ g.mAsteroids[i] # Null => T[i] >= AllAsteroids(g)[i]

Basics ==
  /\ mGame \in [Player -> World] /\ on \subseteq Player
  /\ kills \in Nat /\ cut \in BOOLEAN /\ limits \in Limits

AllGood == \A p \in Player : Good(p, mGame[p])

PacketsRight == \A m \in net : PacketRight(m)

Stopped == Server \notin on => mGame[Server] = EmptyGame

(* What the server has destroyed or made smaller is so for every table     *)
(* that is shown by a client or may still arrive there.                    *)
Ahead ==
  Server \in on =>
    /\ Numbered(mGame[Server])
    /\ mGame[Server].asteroids_id = mGame[Server].sAstCtr + kills
    /\ \A c \in Clients : Behind(mGame[Server], AllAsteroids(mGame[c]))
    /\ \A m \in net : m.type = "ASTEROID_UPDATE" => Behind(mGame[Server], m.asteroids)

IInv == Basics /\ AllGood /\ PacketsRight /\ Stopped /\ Ahead /\ AsteroidBudget

(* A packet that Posted makes.                                             *)
LEMMA PostedRight ==
  ASSUME NEW p \in Player, NEW type \in Kinds, NEW id \in Player, NEW asteroids \in Tables,
         on \subseteq Player, p # Server => id # Server /\ type \in ToServer,
         type = "ASTEROID_DESTROY" => \E i \in AstIds : asteroids[i] # NoSize
  PROVE  \A m \in Posted(p, type, id, asteroids) :
           PacketRight(m) /\ m.type = type /\ m.asteroids = asteroids
<1> SUFFICES ASSUME NEW m \in Posted(p, type, id, asteroids)
             PROVE  PacketRight(m) /\ m.type = type /\ m.asteroids = asteroids
  OBVIOUS
<1>1. PICK d \in (IF p = Server THEN (on \cap Clients) \ {id} ELSE {Server}) :
        m = [dst |-> d, type |-> type, id |-> id, asteroids |-> asteroids]
  BY DEF Posted
<1>2. d \in Player /\ d # id /\ (d = Server => p # Server)
  BY <1>1, ConstantFacts
<1>4. m \in Packet BY <1>1, <1>2 DEF Packet
<1>5. m.dst = d /\ m.type = type /\ m.id = id /\ m.asteroids = asteroids BY <1>1
<1>6. QED BY <1>2, <1>4, <1>5 DEF PacketRight

LEMMA NoAsteroidsTable ==
  /\ NoAsteroids \in Tables
  /\ \A i \in AstIds, size \in Sizes :
       /\ [NoAsteroids EXCEPT ![i] = size] \in Tables
       /\ [NoAsteroids EXCEPT ![i] = size][i] # NoSize
BY ConstantFacts DEF NoAsteroids, Tables

LEMMA ShotPackets ==
  /\ \A w \in Weapons : ShotPacket(w) \in ToServer
  /\ \A m : IsShot(m) => (CHOOSE w \in Weapons : m.type = ShotPacket(w)) \in Weapons
<1>1. /\ ShotPacket(TYPE_BULLET) = "PLAYER_SHOT"
      /\ ShotPacket(TYPE_BOMB) = "PLAYER_BOMB"
      /\ ShotPacket(TYPE_MISSILE) = "PLAYER_MISSILE"
  BY DEF ShotPacket, TYPE_BULLET, TYPE_BOMB, TYPE_MISSILE
<1>2. \A w \in Weapons : ShotPacket(w) \in ToServer BY <1>1 DEF Weapons, ToServer
<1>3. \A m : IsShot(m) => (CHOOSE w \in Weapons : m.type = ShotPacket(w)) \in Weapons
  BY DEF IsShot
<1>4. QED BY <1>2, <1>3

(* Every kind of packet is one a case of ProcessPacket handles. *)
LEMMA OtherKinds ==
  ASSUME NEW m, m.type \in Kinds,
         m.type \notin {"PLAYER_NEW", "PLAYER_DEATH", "PLAYER_DISCONECTS",
                        "ASTEROID_UPDATE", "ASTEROID_DESTROY", "GAME_WON"}
  PROVE  IsShot(m)
<1>1. /\ ShotPacket(TYPE_BULLET) = "PLAYER_SHOT"
      /\ ShotPacket(TYPE_BOMB) = "PLAYER_BOMB"
      /\ ShotPacket(TYPE_MISSILE) = "PLAYER_MISSILE"
  BY DEF ShotPacket, TYPE_BULLET, TYPE_BOMB, TYPE_MISSILE
<1>2. m.type \in {"PLAYER_SHOT", "PLAYER_BOMB", "PLAYER_MISSILE"} BY DEF Kinds
<1>3. QED BY <1>1, <1>2 DEF IsShot, Weapons

LEMMA BehindEvolves ==
  ASSUME NEW g \in World, NEW h, NEW k \in Int, Listing(g), Evolves(g, h, k),
         NEW T \in Tables, Behind(g, T)
  PROVE  Behind(h, T)
<1> SUFFICES ASSUME NEW i \in AstIds, T[i] # NoSize
             PROVE  /\ i < h.asteroids_id
                    /\ h.mAsteroids[i] # Null => T[i] >= AllAsteroids(h)[i]
  BY DEF Behind
<1>1. h \in World /\ Listing(h) BY DEF Evolves
<1>2. /\ i \in Int /\ g.asteroids_id \in Int /\ h.asteroids_id \in Int
      /\ T[i] \in Int
  <2>1. T[i] \in Sizes BY DEF Tables
  <2>2. g.asteroids_id \in 0 .. MaxAsteroid /\ h.asteroids_id \in 0 .. MaxAsteroid
    BY <1>1, WorldFields
  <2>3. \A n \in 0 .. MaxAsteroid : n \in Int OBVIOUS
  <2>4. g.asteroids_id \in Int /\ h.asteroids_id \in Int BY <2>2, <2>3
  <2>5. i \in Int /\ T[i] \in Int BY <2>1, ConstantFacts
  <2>6. QED BY <2>4, <2>5
<1>3. i < g.asteroids_id /\ (g.mAsteroids[i] # Null => T[i] >= AllAsteroids(g)[i])
  BY DEF Behind
<1>4. i < h.asteroids_id BY <1>2, <1>3 DEF Evolves
<1>5. ASSUME h.mAsteroids[i] # Null PROVE T[i] >= AllAsteroids(h)[i]
  <2>1. g.mAsteroids[i] # Null /\ AllAsteroids(h)[i] <= AllAsteroids(g)[i]
    BY <1>2, <1>3, <1>5 DEF Evolves
  <2>2. AllAsteroids(h)[i] \in Int /\ AllAsteroids(g)[i] \in Int
    BY <1>1, <1>5, <2>1, TableFacts, ConstantFacts
  <2>3. QED BY <1>2, <1>3, <2>1, <2>2
<1>6. QED BY <1>4, <1>5

LEMMA BehindItself ==
  ASSUME NEW g \in World, Listing(g), Numbered(g)
  PROVE  Behind(g, AllAsteroids(g))
<1> SUFFICES ASSUME NEW i \in AstIds, AllAsteroids(g)[i] # NoSize
             PROVE  /\ i < g.asteroids_id
                    /\ g.mAsteroids[i] # Null => AllAsteroids(g)[i] >= AllAsteroids(g)[i]
  BY DEF Behind
<1>1. g.mAsteroids[i] # Null /\ AllAsteroids(g)[i] \in Sizes BY TableFacts
<1>2. i < g.asteroids_id BY <1>1 DEF Numbered
<1>3. AllAsteroids(g)[i] \in Int BY <1>1, ConstantFacts
<1>4. QED BY <1>2, <1>3

LEMMA BehindNothing ==
  ASSUME NEW g, NEW h, \A i \in AstIds : h.mAsteroids[i] = Null
  PROVE  Behind(g, AllAsteroids(h))
BY DEF Behind, AllAsteroids

(* The asteroids of a game that is left alone. *)
LEMMA UntouchedEvolves ==
  ASSUME IInv, NEW h, Good(Server, h), Untouched(mGame[Server], h), Server \in on
  PROVE  Evolves(mGame[Server], h, 0)
<1>1. Good(Server, mGame[Server]) BY ConstantFacts DEF IInv, AllGood
<1>2. Numbered(mGame[Server]) BY DEF IInv, Ahead
<1>3. QED BY <1>1, <1>2, EvolvesUntouched DEF Good

-----------------------------------------------------------------------------
(* Steps.                                                                  *)

\* What a step sends, when it is not the sizes of the asteroids
Sent ==
  /\ net \subseteq net'
  /\ \A m \in net' \ net : PacketRight(m) /\ m.type # "ASTEROID_UPDATE"

LEMMA SentNothing == net' = net => Sent
BY DEF Sent

LEMMA SentPosted ==
  ASSUME NEW p \in Player, NEW type \in Kinds, NEW id \in Player, NEW asteroids \in Tables,
         IInv, p # Server => id # Server /\ type \in ToServer, type # "ASTEROID_UPDATE",
         type = "ASTEROID_DESTROY" => \E i \in AstIds : asteroids[i] # NoSize,
         net' = net \cup Posted(p, type, id, asteroids)
  PROVE  Sent
<1>1. \A m \in Posted(p, type, id, asteroids) :
        PacketRight(m) /\ m.type = type /\ m.asteroids = asteroids
  BY PostedRight DEF IInv, Basics
<1>2. QED BY <1>1 DEF Sent

(* The server's game changes. *)
LEMMA ServerChange ==
  ASSUME IInv, Server \in on, NEW h, NEW k \in Nat,
         Evolves(mGame[Server], h, k), ShipsAt(Server, h),
         mGame' \in [Player -> World], mGame'[Server] = h,
         \A c \in Clients : mGame'[c] = mGame[c] \/ mGame'[c] = EmptyGame,
         on' \subseteq Player, Server \in on', kills' = kills + k, cut' \in BOOLEAN,
         limits' = limits, Sent,
         ~cut' => Budget(h)
  PROVE  IInv'
<1> DEFINE g == mGame[Server]
<1>1. Good(Server, g) /\ g \in World /\ Listing(g) /\ Numbered(g)
  BY ConstantFacts DEF IInv, AllGood, Ahead, Good
<1>2. h \in World /\ Listing(h) /\ Numbered(h) BY DEF Evolves
<1>3. Good(Server, h) BY <1>2 DEF Good
<1>4. Basics' BY DEF IInv, Basics
<1>5. AllGood'
  <2>1. ASSUME NEW p \in Player PROVE Good(p, mGame'[p])
    <3>1. CASE p = Server BY <3>1, <1>3
    <3>2. CASE p # Server
      <4>1. p \in Clients BY <3>2, ConstantFacts
      <4>2. Good(p, mGame[p]) /\ Good(p, EmptyGame) BY EmptyGood DEF IInv, AllGood
      <4>3. QED BY <4>1, <4>2
    <3>3. QED BY <3>1, <3>2
  <2>2. QED BY <2>1 DEF AllGood
<1>6. PacketsRight' BY DEF IInv, PacketsRight, Sent, PacketRight
<1>7. Stopped' BY DEF Stopped
<1>8. ASSUME NEW c \in Clients PROVE Behind(h, AllAsteroids(mGame'[c]))
  <2>1. CASE mGame'[c] = mGame[c]
    <3>1. c \in Player /\ Good(c, mGame[c]) BY ConstantFacts DEF IInv, AllGood
    <3>2. AllAsteroids(mGame[c]) \in Tables BY <3>1, TableFacts DEF Good
    <3>3. Behind(g, AllAsteroids(mGame[c])) BY DEF IInv, Ahead
    <3> HIDE DEF g
    <3>4. Behind(h, AllAsteroids(mGame[c])) BY <1>1, <3>2, <3>3, BehindEvolves DEF g
    <3>5. QED BY <2>1, <3>4
  <2>2. CASE mGame'[c] = EmptyGame
    <3>1. \A i \in AstIds : EmptyGame.mAsteroids[i] = Null BY EmptyGood, ConstantFacts
    <3>2. QED BY <2>2, <3>1, BehindNothing
  <2>3. QED BY <2>1, <2>2
<1>9. ASSUME NEW m \in net', m.type = "ASTEROID_UPDATE" PROVE Behind(h, m.asteroids)
  <2>1. m \in net BY <1>9 DEF Sent
  <2>2. m.asteroids \in Tables BY <2>1 DEF IInv, PacketsRight, PacketRight, Packet
  <2>3. Behind(g, m.asteroids) BY <1>9, <2>1 DEF IInv, Ahead
  <2>4. QED BY <1>1, <2>2, <2>3, BehindEvolves
<1>10. h.asteroids_id = h.sAstCtr + kills'
  <2>1. /\ g.asteroids_id \in Int /\ g.sAstCtr \in Int /\ h.asteroids_id \in Int
        /\ h.sAstCtr \in Int /\ kills \in Int
    BY <1>1, <1>2, ConstantFacts, WorldFields DEF IInv, Basics
  <2>2. g.asteroids_id = g.sAstCtr + kills BY DEF IInv, Ahead
  <2>3. h.asteroids_id - h.sAstCtr = g.asteroids_id - g.sAstCtr + k BY DEF Evolves
  <2> HIDE DEF g
  <2>4. QED BY <2>1, <2>2, <2>3
<1>11. Ahead' BY <1>2, <1>8, <1>9, <1>10 DEF Ahead
<1>12. AsteroidBudget' BY DEF AsteroidBudget, Budget, Top
<1>13. QED BY <1>4, <1>5, <1>6, <1>7, <1>11, <1>12 DEF IInv

(* What game h of a client shows, g does or the server has sent.           *)
Follows(g, h) ==
  \A i \in AstIds :
    \/ AllAsteroids(h)[i] = AllAsteroids(g)[i]
    \/ AllAsteroids(h)[i] = NoSize
    \/ \E m \in net : m.type = "ASTEROID_UPDATE" /\ AllAsteroids(h)[i] = m.asteroids[i]

(* A client's game changes. *)
LEMMA ClientChange ==
  ASSUME IInv, NEW p \in Clients, NEW h, Good(p, h), Follows(mGame[p], h),
         mGame' = [mGame EXCEPT ![p] = h],
         on' \subseteq Player, Server \in on' <=> Server \in on,
         kills' = kills, cut' = cut, limits' = limits, Sent
  PROVE  IInv'
<1> DEFINE g == mGame[Server]
<1>1. /\ mGame \in [Player -> World] /\ p \in Player /\ p # Server /\ h \in World
      /\ mGame' \in [Player -> World]
      /\ mGame'[p] = h /\ \A c \in Player : c # p => mGame'[c] = mGame[c]
  BY ConstantFacts DEF IInv, Basics, Good
<1>2. mGame'[Server] = g BY <1>1, ConstantFacts
<1>3. Basics' BY <1>1 DEF IInv, Basics
<1>4. AllGood' BY <1>1 DEF IInv, AllGood
<1>5. PacketsRight' BY DEF IInv, PacketsRight, Sent, PacketRight
<1>6. Stopped' BY <1>2 DEF IInv, Stopped
<1>7. ASSUME Server \in on, NEW c \in Clients PROVE Behind(g, AllAsteroids(mGame'[c]))
  <2>1. CASE c # p
    <3>1. mGame'[c] = mGame[c] BY <1>1, <2>1, ConstantFacts
    <3>2. QED BY <1>7, <3>1 DEF IInv, Ahead
  <2>2. CASE c = p
    <3>1. Behind(g, AllAsteroids(mGame[p])) BY <1>7 DEF IInv, Ahead
    <3>2. \A m \in net : m.type = "ASTEROID_UPDATE" => Behind(g, m.asteroids)
      BY <1>7 DEF IInv, Ahead
    <3> HIDE DEF g
    <3>3. Behind(g, AllAsteroids(h)) BY <3>1, <3>2 DEF Behind, Follows
    <3>4. QED BY <2>2, <3>3, <1>1
  <2>3. QED BY <2>1, <2>2
<1>8. \A m \in net' : m.type = "ASTEROID_UPDATE" => m \in net BY DEF Sent
<1>9. Ahead' BY <1>2, <1>7, <1>8 DEF IInv, Ahead
<1>10. AsteroidBudget' BY <1>2 DEF IInv, AsteroidBudget
<1>11. QED BY <1>3, <1>4, <1>5, <1>6, <1>9, <1>10 DEF IInv

(* What the invariant says of the number of pieces. *)
LEMMA BudgetOf ==
  ASSUME IInv, ~cut, NEW h \in World, Thrifty(mGame[Server], h)
  PROVE  Budget(h)
<1>1. Budget(mGame[Server]) BY DEF IInv, AsteroidBudget, Budget, Top
<1>2. mGame[Server] \in World BY ConstantFacts DEF IInv, AllGood, Good
<1>3. QED BY <1>1, <1>2, BudgetKept

(* A game changes in which the asteroids stay. *)
LEMMA QuietChange ==
  ASSUME IInv, NEW p \in Player, p \in on, NEW h, Good(p, h), Untouched(mGame[p], h),
         mGame' = [mGame EXCEPT ![p] = h],
         on' = on, kills' = kills, cut' = cut, limits' = limits, Sent
  PROVE  IInv'
<1>1. /\ mGame \in [Player -> World] /\ on \subseteq Player /\ cut \in BOOLEAN /\ kills \in Nat
      /\ Good(p, mGame[p]) /\ h \in World
  BY DEF IInv, Basics, AllGood, Good
<1>2. /\ mGame' \in [Player -> World] /\ mGame'[p] = h
      /\ \A c \in Player : c # p => mGame'[c] = mGame[c]
  BY <1>1
<1>3. CASE p = Server
  <2>1. Evolves(mGame[Server], h, 0) BY <1>3, UntouchedEvolves
  <2>2. ShipsAt(Server, h) BY <1>3 DEF Good
  <2>3. \A c \in Clients : mGame'[c] = mGame[c] BY <1>2, <1>3, ConstantFacts
  <2>4. kills' = kills + 0 /\ 0 \in Nat BY <1>1
  <2>5. Server \in on' /\ on' \subseteq Player /\ cut' \in BOOLEAN BY <1>1, <1>3
  <2>6. ~cut' => Budget(h)
    <3>1. Thrifty(mGame[Server], h) BY <1>1, <1>3, UntouchedThrifty DEF Good
    <3>2. QED BY <1>1, <3>1, BudgetOf
  <2>7. QED BY <2>1, <2>2, <2>3, <2>4, <2>5, <2>6, <1>2, <1>3, ServerChange
<1>4. CASE p # Server
  <2>1. p \in Clients BY <1>4, ConstantFacts
  <2>2. AllAsteroids(h) = AllAsteroids(mGame[p]) BY <1>1, ListingKept DEF Good
  <2>3. Follows(mGame[p], h) BY <2>2 DEF Follows
  <2>4. Server \in on' <=> Server \in on OBVIOUS
  <2>5. QED BY <1>1, <2>1, <2>3, <2>4, ClientChange
<1>5. QED BY <1>3, <1>4

(* A program ends. *)
LEMMA Stops ==
  ASSUME IInv, NEW p \in Player, Stop(p), kills' = kills, cut' = cut, limits' = limits,
         Sent
  PROVE  IInv'
<1>1. /\ mGame \in [Player -> World] /\ on \subseteq Player
      /\ mGame' = [mGame EXCEPT ![p] = EmptyGame] /\ on' = on \ {p}
      /\ Good(p, EmptyGame) /\ EmptyGame \in World
      /\ \A i \in AstIds : EmptyGame.mAsteroids[i] = Null
  BY EmptyGood DEF IInv, Basics, Stop, Change, Good
<1>2. CASE p = Server
  <2>1. /\ mGame' \in [Player -> World] /\ mGame'[Server] = EmptyGame
        /\ \A c \in Player : c # p => mGame'[c] = mGame[c]
    BY <1>1, <1>2
  <2>2. Basics' BY <1>1, <2>1 DEF IInv, Basics
  <2>3. AllGood' BY <1>1, <1>2, <2>1 DEF IInv, AllGood
  <2>4. PacketsRight' BY DEF IInv, PacketsRight, Sent, PacketRight
  <2>5. Stopped' /\ Ahead' BY <1>1, <1>2, <2>1 DEF Stopped, Ahead
  <2>6. AsteroidBudget'
    <3>1. Listing(EmptyGame) /\ EmptyGame.sAstCtr = 0 /\ EmptyGame.sAstNum \in Nat
          /\ Pieces(EmptyGame) \in Nat
      BY <1>1, EmptyGood, WorldFields, PiecesNat DEF Good
    <3>2. EmptyGame.sAstCtr + 0 <= EmptyGame.sAstNum BY <3>1
    <3>3. Pieces(EmptyGame) + 0 * Top <= EmptyGame.sAstNum * Top
      BY <1>1, <3>1, <3>2, FewAsteroids
    <3>4. Pieces(EmptyGame) <= EmptyGame.sAstNum * Top BY <3>1, <3>3, SmallestFacts
    <3>5. QED BY <2>1, <3>4 DEF AsteroidBudget, Top
  <2>7. QED BY <2>2, <2>3, <2>4, <2>5, <2>6 DEF IInv
<1>3. CASE p # Server
  <2>1. p \in Clients BY <1>3, ConstantFacts
  <2>2. \A i \in AstIds : AllAsteroids(EmptyGame)[i] = NoSize BY <1>1 DEF AllAsteroids
  <2>3. on' \subseteq Player /\ (Server \in on' <=> Server \in on) BY <1>1, <1>3
  <2>4. Follows(mGame[p], EmptyGame) BY <2>2 DEF Follows
  <2>5. QED BY <1>1, <2>1, <2>3, <2>4, ClientChange
<1>4. QED BY <1>2, <1>3

-----------------------------------------------------------------------------
(* The steps of a player.                                                  *)

LEMMA GameFacts ==
  ASSUME IInv, NEW p \in Player
  PROVE  /\ mGame[p] \in World /\ Listing(mGame[p]) /\ ShipsAt(p, mGame[p])
         /\ Good(p, mGame[p])
BY DEF IInv, AllGood, Good

LEMMA FireStep ==
  ASSUME IInv, NEW p \in Player, Fire(p), limits' = limits
  PROVE  IInv'
<1> DEFINE g == mGame[p]
<1>1. PICK type \in limits.Weapons :
        /\ Change(p, gameObjInstCreate(g, type, p, 0, TRUE))
        /\ net' = net \cup Post(p, ShotPacket(type))
  BY DEF Fire
<1> DEFINE h == gameObjInstCreate(g, type, p, 0, TRUE)
<1>2. type \in Weapons
  BY BoundsAssumption DEF BoundsAssumption, LimitRecord, IInv, Basics
<1>3. h \in World /\ Untouched(g, h) /\ ShipsKept(g, h)
  BY <1>2, GameFacts, Created
<1>4. p \in on /\ on' = on /\ kills' = kills /\ cut' = cut BY DEF Fire
<1>5. mGame' = [mGame EXCEPT ![p] = h] BY <1>1 DEF Change
<1>6. Sent
  <2>1. ShotPacket(type) \in ToServer BY <1>2, ShotPackets
  <2>2. /\ ShotPacket(type) \in Kinds /\ ShotPacket(type) # "ASTEROID_UPDATE"
        /\ ShotPacket(type) # "ASTEROID_DESTROY"
    BY <2>1 DEF ToServer, Kinds
  <2>3. net' = net \cup Posted(p, ShotPacket(type), p, NoAsteroids) BY <1>1 DEF Post
  <2>4. QED BY <2>1, <2>2, <2>3, NoAsteroidsTable, SentPosted
<1> HIDE DEF h
<1>7. Good(p, h) BY <1>3, GameFacts, GoodKept
<1>8. QED BY <1>3, <1>4, <1>5, <1>6, <1>7, QuietChange

LEMMA EmitParticlesStep ==
  ASSUME IInv, NEW p \in Player, EmitParticles(p), limits' = limits
  PROVE  IInv'
<1> DEFINE g == mGame[p]
<1>1. PICK colour \in Colours : Change(p, sparkCreate(p, g, colour)) BY DEF EmitParticles
<1> DEFINE h == sparkCreate(p, g, colour)
<1>2. h \in World /\ Untouched(g, h) /\ ShipsKept(g, h) BY GameFacts, Sparked
<1>3. p \in on /\ on' = on /\ kills' = kills /\ cut' = cut /\ net' = net
  BY DEF EmitParticles
<1>4. mGame' = [mGame EXCEPT ![p] = h] BY <1>1 DEF Change
<1>5. Sent BY <1>3, SentNothing
<1> HIDE DEF h
<1>6. Good(p, h) BY <1>2, GameFacts, GoodKept
<1>7. QED BY <1>2, <1>3, <1>4, <1>5, <1>6, QuietChange

\* What a projectile or a particle is, in a slot
LEMMA ShotSlots ==
  ASSUME NEW g, NEW s \in Shots(g) \cup Sparks(g)
  PROVE  /\ s \in Slots /\ g.pool[s].type \in Weapons \cup Colours
         /\ s \in Shots(g) => g.pool[s].type \in Weapons
<1>1. CASE s \in Shots(g) BY <1>1 DEF Shots, Of, Weapons
<1>2. CASE s \in Sparks(g) /\ s \notin Shots(g) BY <1>2 DEF Sparks, Of
<1>3. QED BY <1>1, <1>2

LEMMA ExpireStep ==
  ASSUME IInv, NEW p \in Player, Expire(p), limits' = limits
  PROVE  IInv'
<1> DEFINE g == mGame[p]
<1>1. PICK s \in Shots(g) \cup Sparks(g) : Change(p, gameObjInstDestroy(g, {s}))
  BY DEF Expire
<1> DEFINE h == gameObjInstDestroy(g, {s})
<1>2. s \in Slots /\ g.pool[s].type \in Weapons \cup Colours BY ShotSlots
<1>3. h \in World /\ Untouched(g, h) /\ ShipsKept(g, h)
  BY <1>2, GameFacts, ShotDestroyed
<1>4. p \in on /\ on' = on /\ kills' = kills /\ cut' = cut /\ net' = net BY DEF Expire
<1>5. mGame' = [mGame EXCEPT ![p] = h] BY <1>1 DEF Change
<1>6. Sent BY <1>4, SentNothing
<1> HIDE DEF h
<1>7. Good(p, h) BY <1>3, GameFacts, GoodKept
<1>8. QED BY <1>3, <1>4, <1>5, <1>6, <1>7, QuietChange

LEMMA HitOnlyStep ==
  ASSUME IInv, NEW p \in Player, NEW s \in Shots(mGame[p]), NEW a, HitOnly(p, s, a),
         limits' = limits
  PROVE  IInv'
<1> DEFINE g == mGame[p]
<1>1. PICK colour \in Colours : Change(p, gameObjInstDestroy(sparkCreate(p, g, colour), {s}))
  BY DEF HitOnly
<1> DEFINE k == sparkCreate(p, g, colour)
           h == gameObjInstDestroy(k, {s})
<1>2. s \in Slots /\ g.pool[s].type \in Weapons BY ShotSlots
<1>3. k \in World /\ Untouched(g, k) /\ ShipsKept(g, k) /\ Occupied(g, k)
  BY GameFacts, Sparked
<1>4. p \in on /\ on' = on /\ kills' = kills /\ cut' = cut /\ net' = net BY DEF HitOnly
<1>5. mGame' = [mGame EXCEPT ![p] = h] BY <1>1 DEF Change
<1>6. Sent BY <1>4, SentNothing
<1> HIDE DEF k
<1>7. k.pool[s].type \in Weapons
  <2>1. g.pool[s] # Free BY <1>2, ConstantFacts, TypeFacts
  <2>2. QED BY <1>2, <1>3, <2>1 DEF Occupied
<1>8. h \in World /\ Untouched(k, h) /\ ShipsKept(k, h) BY <1>2, <1>3, <1>7, ShotDestroyed
<1> HIDE DEF h
<1>9. Untouched(g, h) /\ ShipsKept(g, h) BY <1>3, <1>8, UntouchedChain, ShipsKeptChain
<1>10. Good(p, h) BY <1>8, <1>9, GameFacts, GoodKept
<1>11. QED BY <1>4, <1>5, <1>6, <1>9, <1>10, QuietChange

LEMMA HitShipStep ==
  ASSUME IInv, NEW p \in Player, HitShip(p), limits' = limits
  PROVE  IInv'
<1> DEFINE g == mGame[p]
<1>1. PICK colour \in Colours :
        LET h    == [sparkCreate(p, g, colour) EXCEPT !.sShipCtr = @ - 1]
            lost == h.sShipCtr < 0
        IN  /\ Change(p, IF lost THEN [LoseShip(h, p) EXCEPT !.spShip = Null] ELSE h)
            /\ net' = net \cup (IF lost THEN Post(p, "PLAYER_DEATH") ELSE {})
  BY DEF HitShip
<1> DEFINE k == sparkCreate(p, g, colour)
           h == [k EXCEPT !.sShipCtr = k.sShipCtr - 1]
           lost == h.sShipCtr < 0
           f == [LoseShip(h, p) EXCEPT !.spShip = Null]
<1>2. k \in World /\ Untouched(g, k) /\ ShipsKept(g, k) BY GameFacts, Sparked
<1>3. p \in on /\ on' = on /\ kills' = kills /\ cut' = cut BY DEF HitShip
<1>4. /\ mGame' = [mGame EXCEPT ![p] = IF lost THEN f ELSE h]
      /\ net' = net \cup (IF lost THEN Post(p, "PLAYER_DEATH") ELSE {})
  BY <1>1 DEF Change
<1> HIDE DEF k
<1>5. h \in World /\ Untouched(g, h) /\ Good(p, h)
  <2>1. k.sShipCtr - 1 \in Int BY <1>2, WorldFields
  <2>2. h \in World BY <1>2, <2>1 DEF World
  <2>3. /\ h.pool = k.pool /\ h.mAsteroids = k.mAsteroids /\ h.sAstCtr = k.sAstCtr
        /\ h.asteroids_id = k.asteroids_id /\ h.mShips = k.mShips /\ h.spShip = k.spShip
        /\ h.sAstNum = k.sAstNum
    BY <1>2 DEF World
  <2> HIDE DEF h
  <2>4. Untouched(g, h) BY <1>2, <2>3 DEF Untouched
  <2>5. ShipsKept(g, h) BY <1>2, <2>3 DEF ShipsKept
  <2>6. QED BY <2>2, <2>4, <2>5, GameFacts, GoodKept
<1> HIDE DEF h, g
<1>6. CASE lost
  <2>1. Untouched(h, f) /\ Good(p, f) BY <1>5, ShipLost
  <2>2. mGame' = [mGame EXCEPT ![p] = f] BY <1>4, <1>6
  <2>3. Sent
    <3>1. net' = net \cup Posted(p, "PLAYER_DEATH", p, NoAsteroids)
      BY <1>4, <1>6 DEF Post
    <3>2. "PLAYER_DEATH" \in Kinds /\ "PLAYER_DEATH" \in ToServer BY DEF Kinds, ToServer
    <3>3. "PLAYER_DEATH" # "ASTEROID_UPDATE" /\ "PLAYER_DEATH" # "ASTEROID_DESTROY" OBVIOUS
    <3>4. QED BY <3>1, <3>2, <3>3, NoAsteroidsTable, SentPosted
  <2> HIDE DEF f
  <2>4. Untouched(mGame[p], f) BY <1>5, <2>1, UntouchedChain DEF g
  <2>5. QED BY <1>3, <2>1, <2>2, <2>3, <2>4, QuietChange
<1>7. CASE ~lost
  <2>1. mGame' = [mGame EXCEPT ![p] = h] /\ net' = net BY <1>4, <1>7
  <2>2. Sent BY <2>1, SentNothing
  <2>3. QED BY <1>3, <1>5, <2>1, <2>2, QuietChange DEF g
<1>8. QED BY <1>6, <1>7

LEMMA NullShipStep ==
  ASSUME IInv, NEW p \in Player, NullShip(p), limits' = limits
  PROVE  IInv'
BY SentNothing, Stops DEF NullShip

LEMMA PlayerStepInv ==
  ASSUME IInv, NEW p \in Player, PlayerStep(p), limits' = limits
  PROVE  IInv'
BY FireStep, EmitParticlesStep, ExpireStep, HitOnlyStep, HitShipStep, NullShipStep
DEF PlayerStep

-----------------------------------------------------------------------------
(* The steps of the server.                                                *)

LEMMA ServerFacts ==
  ASSUME IInv, Server \in on
  PROVE  /\ Server \in Player /\ mGame[Server] \in World /\ Listing(mGame[Server])
         /\ ShipsAt(Server, mGame[Server]) /\ Numbered(mGame[Server])
BY ConstantFacts, GameFacts DEF IInv, Ahead

\* The server's game alone changes
LEMMA ServerOnly ==
  ASSUME IInv, Server \in on, NEW h, NEW k \in Nat,
         Evolves(mGame[Server], h, k), ShipsAt(Server, h), Change(Server, h),
         on' = on, kills' = kills + k, cut' \in BOOLEAN, limits' = limits, Sent,
         ~cut' => Budget(h)
  PROVE  IInv'
<1>1. mGame \in [Player -> World] /\ on \subseteq Player /\ h \in World
  BY DEF IInv, Basics, Evolves
<1>2. /\ mGame' \in [Player -> World] /\ mGame'[Server] = h
      /\ \A c \in Clients : mGame'[c] = mGame[c]
  BY <1>1, ConstantFacts DEF Change
<1>3. Server \in on' /\ on' \subseteq Player BY <1>1
<1>4. QED BY <1>2, <1>3, ServerChange

LEMMA SendAsteroidsStep ==
  ASSUME IInv, SendAsteroids, limits' = limits
  PROVE  IInv'
<1> DEFINE g == mGame[Server]
           T == AllAsteroids(g)
<1>1. /\ Server \in on /\ mGame' = mGame /\ on' = on /\ kills' = kills /\ cut' = cut
      /\ net' = net \cup Posted(Server, "ASTEROID_UPDATE", Server, T)
  BY DEF SendAsteroids
<1>2. T \in Tables /\ Behind(g, T) BY <1>1, ServerFacts, TableFacts, BehindItself
<1>3. "ASTEROID_UPDATE" \in Kinds /\ "ASTEROID_UPDATE" # "ASTEROID_DESTROY" BY DEF Kinds
<1> HIDE DEF T
<1>4. \A m \in Posted(Server, "ASTEROID_UPDATE", Server, T) :
        PacketRight(m) /\ m.asteroids = T
  BY <1>2, <1>3, ConstantFacts, PostedRight DEF IInv, Basics
<1>5. PacketsRight' BY <1>1, <1>4 DEF IInv, PacketsRight, PacketRight
<1>6. \A m \in net' : m.type = "ASTEROID_UPDATE" => Behind(g, m.asteroids)
  BY <1>1, <1>2, <1>4 DEF IInv, Ahead
<1>7. Ahead' BY <1>1, <1>6 DEF IInv, Ahead
<1>8. Basics' /\ AllGood' /\ Stopped' /\ AsteroidBudget'
  BY <1>1 DEF IInv, Basics, AllGood, Stopped, AsteroidBudget
<1>9. QED BY <1>5, <1>7, <1>8 DEF IInv

LEMMA SpawnAsteroidStep ==
  ASSUME IInv, SpawnAsteroid, limits' = limits
  PROVE  IInv'
<1> DEFINE g == mGame[Server]
<1>1. PICK size \in 1 .. SizeMax : Change(Server, astCreate(Server, g, size))
  BY DEF SpawnAsteroid
<1> DEFINE h == astCreate(Server, g, size)
<1>2. /\ Server \in on /\ g.asteroids_id < MaxAsteroid
      /\ on' = on /\ kills' = kills /\ cut' = cut /\ net' = net
  BY DEF SpawnAsteroid
<1>3. size \in Sizes BY ObjectsAssumption DEF ObjectsAssumption, Sizes
<1>4. /\ Evolves(g, h, 0) /\ ShipsKept(g, h)
      /\ Pieces(h) <= Pieces(g) + Smallest[size] /\ h.sAstNum = g.sAstNum
  BY <1>2, <1>3, ServerFacts, AstCreated
<1> HIDE DEF h
<1>5. ShipsAt(Server, h) BY <1>2, <1>4, ServerFacts, ShipsStay DEF Evolves
<1>6. kills' = kills + 0 /\ 0 \in Nat /\ cut' \in BOOLEAN BY <1>2 DEF IInv, Basics
<1>7. Sent BY <1>2, SentNothing
<1>8. Change(Server, h) BY <1>1 DEF h
<1>9. Budget(h)
  <2>1. g \in World /\ Listing(g) /\ h \in World BY <1>2, <1>4, ServerFacts DEF Evolves
  <2>2. g.sAstCtr < g.sAstNum BY DEF SpawnAsteroid
  <2> HIDE DEF g
  <2>3. g.sAstCtr \in Nat /\ g.sAstNum \in Nat BY <2>1, WorldFields
  <2>4. g.sAstCtr + 1 <= g.sAstNum BY <2>2, <2>3
  <2>5. Pieces(g) + 1 * Top <= g.sAstNum * Top BY <2>1, <2>4, FewAsteroids
  <2>6. Smallest[size] \in Nat /\ Smallest[size] <= Top /\ Top \in Nat
    BY <1>3, SmallestFacts
  <2>7. Pieces(g) \in Nat /\ Pieces(h) \in Nat BY <2>1, PiecesNat
  <2> DEFINE z == g.sAstNum * Top
  <2>8. z \in Nat BY <2>3, <2>6
  <2>9. Pieces(g) + Top <= z BY <2>5, <2>6
  <2> HIDE DEF z
  <2>10. Pieces(h) <= z BY <1>4, <2>6, <2>7, <2>8, <2>9
  <2>11. QED BY <1>4, <2>10 DEF Budget, z
<1>10. QED BY <1>2, <1>4, <1>5, <1>6, <1>7, <1>8, <1>9, ServerOnly

LEMMA BurstEvolves ==
  ASSUME NEW g \in World, Listing(g), Numbered(g), NEW s, NEW a \in Asteroids(g),
         NEW colour \in Colours
  PROVE  LET h == Burst(g, s, a, colour)
         IN  /\ Evolves(g, h, 1) /\ ShipsKept(g, h) /\ Thrifty(g, h)
             /\ \A r \in Slots : r # a /\ g.pool[r] # Free => h.pool[r] = g.pool[r]
<1> DEFINE d == gameObjInstDestroy(g, {a})
           k == sparkCreate(Server, g, colour)
           hb == sparkCreate(Server, d, colour)
           ho == gameObjInstDestroy(k, {a})
<1>1. /\ d \in World /\ Listing(d) /\ ShipsKept(g, d) /\ Evolves(g, d, 1) /\ Thrifty(g, d)
      /\ \A r \in Slots : r # a => d.pool[r] = g.pool[r]
  BY AsteroidDestroyed, EvolvesDestroyed
<1>2. k \in World /\ Untouched(g, k) /\ ShipsKept(g, k) /\ Occupied(g, k)
  BY Sparked, ConstantFacts
<1>3. CASE g.pool[s].type = TYPE_BOMB
  <2>1. Burst(g, s, a, colour) = hb BY <1>3 DEF Burst
  <2> HIDE DEF d
  <2>2. hb \in World /\ Untouched(d, hb) /\ ShipsKept(d, hb) /\ Occupied(d, hb)
    BY <1>1, Sparked, ConstantFacts
  <2> HIDE DEF hb
  <2>3. Numbered(d) BY <1>1 DEF Evolves
  <2>4. Evolves(d, hb, 0) BY <1>1, <2>2, <2>3, EvolvesUntouched
  <2>5. Evolves(g, hb, 1 + 0) BY <1>1, <2>4, EvolvesChain
  <2>6. ShipsKept(g, hb) BY <1>1, <2>2, ShipsKeptChain
  <2>7. \A r \in Slots : r # a /\ g.pool[r] # Free => hb.pool[r] = g.pool[r]
    BY <1>1, <2>2 DEF Occupied
  <2>8. 1 + 0 = 1 OBVIOUS
  <2>9. Thrifty(g, hb) BY <1>1, <2>2, UntouchedThrifty, ThriftyChain
  <2>10. QED BY <2>1, <2>5, <2>6, <2>7, <2>8, <2>9
<1>4. CASE g.pool[s].type # TYPE_BOMB
  <2>1. Burst(g, s, a, colour) = ho BY <1>4 DEF Burst
  <2> HIDE DEF k
  <2>2. Listing(k) /\ Numbered(k) /\ Evolves(g, k, 0)
    BY <1>2, ListingKept, EvolvesUntouched DEF Evolves
  <2>3. a \in Asteroids(k) BY <1>2, SameAsteroids
  <2>4. /\ ShipsKept(k, ho) /\ Evolves(k, ho, 1) /\ Thrifty(k, ho) /\ ho \in World
        /\ \A r \in Slots : r # a => ho.pool[r] = k.pool[r]
    BY <1>2, <2>2, <2>3, AsteroidDestroyed, EvolvesDestroyed
  <2> HIDE DEF ho
  <2>5. Evolves(g, ho, 0 + 1) BY <2>2, <2>4, EvolvesChain
  <2>6. ShipsKept(g, ho) BY <1>2, <2>4, ShipsKeptChain
  <2>7. \A r \in Slots : r # a /\ g.pool[r] # Free => ho.pool[r] = g.pool[r]
    BY <1>2, <2>4 DEF Occupied
  <2>8. 0 + 1 = 1 OBVIOUS
  <2>9. Thrifty(g, ho) BY <1>2, <2>4, UntouchedThrifty, ThriftyChain
  <2>10. QED BY <2>1, <2>5, <2>6, <2>7, <2>8, <2>9
<1>5. QED BY <1>3, <1>4

LEMMA SpendEvolves ==
  ASSUME NEW g \in World, Listing(g), Numbered(g), NEW s \in Slots,
         g.pool[s].type \in Weapons
  PROVE  /\ Evolves(g, Spend(g, s), 0) /\ ShipsKept(g, Spend(g, s))
         /\ Thrifty(g, Spend(g, s))
<1>1. CASE g.pool[s].type = TYPE_BOMB
  <2>1. Spend(g, s) = g BY <1>1 DEF Spend
  <2>2. Untouched(g, g) /\ ShipsKept(g, g) BY DEF Untouched, ShipsKept
  <2>3. QED BY <2>1, <2>2, EvolvesUntouched, UntouchedThrifty
<1>2. CASE g.pool[s].type # TYPE_BOMB
  <2> DEFINE h == gameObjInstDestroy(g, {s})
  <2>1. Spend(g, s) = h BY <1>2 DEF Spend
  <2>2. h \in World /\ Untouched(g, h) /\ ShipsKept(g, h) BY ShotDestroyed
  <2> HIDE DEF h
  <2>3. QED BY <2>1, <2>2, EvolvesUntouched, UntouchedThrifty
<1>3. QED BY <1>1, <1>2

\* A projectile is not an asteroid, and its slot is in use
LEMMA ShotNotAsteroid ==
  ASSUME NEW g, NEW s \in Shots(g), NEW a \in Asteroids(g)
  PROVE  s # a /\ s \in Slots /\ g.pool[s].type \in Weapons /\ g.pool[s] # Free
<1>1. s \in Slots /\ g.pool[s].type \in Weapons BY ShotSlots
<1>2. g.pool[a].type = TYPE_ASTEROID BY DEF Asteroids, Of
<1>3. QED BY <1>1, <1>2, ConstantFacts, TypeFacts

LEMMA HitSmallStep ==
  ASSUME IInv, NEW s \in Shots(mGame[Server]), NEW a \in Asteroids(mGame[Server]),
         HitSmall(s, a), limits' = limits
  PROVE  IInv'
<1> DEFINE g == mGame[Server]
<1>1. PICK colour \in Colours :
        Change(Server, Spend(Score(Burst(g, s, a, colour), g.pool[s].m_id), s))
  BY DEF HitSmall
<1> DEFINE b == Burst(g, s, a, colour)
           k == Score(b, g.pool[s].m_id)
           h == Spend(k, s)
<1>2. /\ Server \in on /\ on' = on /\ cut' = cut /\ kills' = kills + 1
      /\ net' = net \cup Posted(Server, "ASTEROID_DESTROY", Server,
                                [NoAsteroids EXCEPT ![g.pool[a].m_id] = 0])
  BY DEF HitSmall
<1>3. /\ Server \in Player /\ g \in World /\ Listing(g) /\ ShipsAt(Server, g) /\ Numbered(g)
  BY <1>2, ServerFacts
<1>4. s # a /\ s \in Slots /\ g.pool[s].type \in Weapons /\ g.pool[s] # Free
  BY ShotNotAsteroid
<1>5. /\ Evolves(g, b, 1) /\ ShipsKept(g, b) /\ b.pool[s] = g.pool[s] /\ Thrifty(g, b)
  BY <1>3, <1>4, BurstEvolves
<1>6. Sent
  <2>1. g.pool[a].m_id \in AstIds BY <1>3 DEF Listing
  <2> DEFINE T == [NoAsteroids EXCEPT ![g.pool[a].m_id] = 0]
  <2>2. T \in Tables /\ \E i \in AstIds : T[i] # NoSize
    BY <2>1, NoAsteroidsTable, ConstantFacts
  <2>3. "ASTEROID_DESTROY" \in Kinds /\ "ASTEROID_DESTROY" # "ASTEROID_UPDATE" BY DEF Kinds
  <2>4. net' = net \cup Posted(Server, "ASTEROID_DESTROY", Server, T) BY <1>2
  <2> HIDE DEF T
  <2>5. QED BY <1>3, <2>2, <2>3, <2>4, SentPosted
<1>7. Change(Server, h) BY <1>1
<1> HIDE DEF g, b
<1>8. k \in World /\ k.pool = b.pool /\ Evolves(b, k, 0) /\ ShipsKept(b, k)
      /\ Listing(b) /\ Numbered(b) /\ b \in World /\ Thrifty(b, k)
  BY <1>5, Scored DEF Evolves
<1> HIDE DEF k
<1>10. Listing(k) /\ Numbered(k) /\ k.pool[s].type \in Weapons BY <1>4, <1>5, <1>8 DEF Evolves
<1>11. Evolves(k, h, 0) /\ ShipsKept(k, h) /\ Thrifty(k, h)
  BY <1>4, <1>8, <1>10, SpendEvolves
<1> HIDE DEF h
<1>12. Evolves(b, h, 0 + 0) BY <1>8, <1>11, EvolvesChain
<1>13. Evolves(g, h, 1 + (0 + 0)) BY <1>3, <1>5, <1>12, EvolvesChain
<1>14. 1 + (0 + 0) = 1 /\ 1 \in Nat OBVIOUS
<1>15. ShipsKept(g, h) BY <1>5, <1>8, <1>11, ShipsKeptChain
<1>16. ShipsAt(Server, h) BY <1>3, <1>13, <1>15, ShipsStay DEF Evolves
<1>17. cut' \in BOOLEAN BY <1>2 DEF IInv, Basics
<1>18. Evolves(mGame[Server], h, 1) BY <1>13, <1>14 DEF g
<1>19. ~cut' => Budget(h)
  <2>1. h \in World BY <1>13 DEF Evolves
  <2>2. Thrifty(g, h) BY <1>3, <1>5, <1>8, <1>11, <2>1, ThriftyChain
  <2>3. QED BY <1>2, <2>1, <2>2, BudgetOf DEF g
<1>20. QED BY <1>2, <1>6, <1>7, <1>14, <1>16, <1>17, <1>18, <1>19, ServerOnly

LEMMA HitSplitStep ==
  ASSUME IInv, NEW s \in Shots(mGame[Server]), NEW a \in Asteroids(mGame[Server]),
         HitSplit(s, a), limits' = limits
  PROVE  IInv'
<1> DEFINE g == mGame[Server]
<1>1. PICK colour \in Colours :
        LET h == IF g.pool[s].type = TYPE_BOMB THEN g ELSE sparkCreate(Server, g, colour)
        IN  /\ Change(Server, Spend(Split(h, a, colour), s))
            /\ cut' = (cut \/ Cramped(h, colour))
  BY DEF HitSplit
<1> DEFINE k == IF g.pool[s].type = TYPE_BOMB THEN g ELSE sparkCreate(Server, g, colour)
           b == Split(k, a, colour)
           h == Spend(b, s)
<1>2. /\ Server \in on /\ g.pool[a].scale > 0 /\ g.asteroids_id + 3 <= MaxAsteroid
      /\ on' = on /\ kills' = kills /\ net' = net
  BY DEF HitSplit
<1>3. Server \in Player /\ g \in World /\ Listing(g) /\ ShipsAt(Server, g) /\ Numbered(g)
  BY <1>2, ServerFacts
<1>4. s # a /\ s \in Slots /\ g.pool[s].type \in Weapons /\ g.pool[s] # Free
  BY ShotNotAsteroid
<1>5. Change(Server, h) /\ cut' \in BOOLEAN /\ (~cut' => ~cut /\ ~Cramped(k, colour))
  BY <1>1 DEF IInv, Basics, Cramped
<1> HIDE DEF g
<1>6. k \in World /\ Untouched(g, k) /\ ShipsKept(g, k) /\ Occupied(g, k)
  <2>1. CASE g.pool[s].type = TYPE_BOMB
    <3>1. k = g BY <2>1
    <3>2. Untouched(g, g) /\ ShipsKept(g, g) /\ Occupied(g, g)
      BY DEF Untouched, ShipsKept, Occupied
    <3>3. QED BY <1>3, <3>1, <3>2
  <2>2. CASE g.pool[s].type # TYPE_BOMB
    <3>1. k = sparkCreate(Server, g, colour) BY <2>2
    <3>2. QED BY <1>3, <3>1, Sparked
  <2>3. QED BY <2>1, <2>2
<1> HIDE DEF k
<1>7. /\ Evolves(g, k, 0) /\ Listing(k) /\ Numbered(k) /\ a \in Asteroids(k)
      /\ k.pool[a] = g.pool[a] /\ k.asteroids_id = g.asteroids_id /\ k.pool[s] = g.pool[s]
  <2>1. a \in Asteroids(g) BY DEF g
  <2>2. a \in Asteroids(k) /\ k.pool[a] = g.pool[a] BY <1>3, <1>6, <2>1, SameAsteroids
  <2>3. Evolves(g, k, 0) BY <1>3, <1>6, EvolvesUntouched
  <2>4. k.asteroids_id = g.asteroids_id BY <1>6 DEF Untouched
  <2>5. k.pool[s] = g.pool[s] BY <1>4, <1>6 DEF Occupied
  <2>6. QED BY <2>2, <2>3, <2>4, <2>5 DEF Evolves
<1>8. /\ Evolves(k, b, 0) /\ ShipsKept(k, b) /\ b.pool[s] = k.pool[s]
      /\ ~Cramped(k, colour) => Thrifty(k, b)
  <2>1. k.pool[a].scale > 0 /\ k.asteroids_id + 3 <= MaxAsteroid BY <1>2, <1>7
  <2>2. k.pool[s] # Free BY <1>4, <1>7
  <2>3. QED BY <1>4, <1>6, <1>7, <2>1, <2>2, AsteroidSplit
<1> HIDE DEF b
<1>9. b \in World /\ Listing(b) /\ Numbered(b) /\ b.pool[s].type \in Weapons
  BY <1>4, <1>7, <1>8 DEF Evolves
<1>10. Evolves(b, h, 0) /\ ShipsKept(b, h) /\ Thrifty(b, h)
  BY <1>4, <1>9, SpendEvolves
<1> HIDE DEF h
<1>11. Evolves(k, h, 0 + 0) BY <1>6, <1>7, <1>8, <1>10, EvolvesChain
<1>12. Evolves(g, h, 0 + (0 + 0)) BY <1>3, <1>7, <1>11, EvolvesChain
<1>13. 0 + (0 + 0) = 0 /\ 0 \in Nat OBVIOUS
<1>14. ShipsKept(g, h) BY <1>6, <1>8, <1>10, ShipsKeptChain
<1>15. ShipsAt(Server, h) BY <1>3, <1>12, <1>14, ShipsStay DEF Evolves
<1>16. kills' = kills + 0 BY <1>2 DEF IInv, Basics
<1>17. Sent BY <1>2, SentNothing
<1>18. Evolves(mGame[Server], h, 0) BY <1>12, <1>13 DEF g
<1>19. ~cut' => Budget(h)
  <2>1. h \in World BY <1>12 DEF Evolves
  <2>2. Thrifty(g, k) BY <1>3, <1>6, UntouchedThrifty
  <2>3. ~cut' => Thrifty(g, h)
    BY <1>3, <1>5, <1>6, <1>8, <1>9, <1>10, <2>1, <2>2, ThriftyChain
  <2>4. QED BY <1>5, <2>1, <2>3, BudgetOf DEF g
<1>20. QED BY <1>2, <1>5, <1>13, <1>15, <1>16, <1>17, <1>18, <1>19, ServerOnly

LEMMA EndGameStep ==
  ASSUME IInv, EndGame, limits' = limits
  PROVE  IInv'
<1> DEFINE g == mGame[Server]
           over == \A i \in Player : g.mShips[i] = Absent
           h == [g EXCEPT !.game_ended = over]
           f == ClearShips(h)
<1>1. /\ Server \in on /\ on' = on /\ kills' = kills /\ cut' = cut
      /\ Change(Server, IF Won(g) THEN f ELSE h)
      /\ net' = net \cup (IF Won(g) THEN Post(Server, "GAME_WON") ELSE {})
  BY DEF EndGame
<1>2. Server \in Player /\ g \in World /\ Listing(g) /\ ShipsAt(Server, g)
  BY <1>1, ServerFacts
<1> HIDE DEF g
<1>3. over \in BOOLEAN OBVIOUS
<1> HIDE DEF over
<1>4. h \in World BY <1>2, <1>3 DEF World
<1>5. /\ h.pool = g.pool /\ h.mAsteroids = g.mAsteroids /\ h.sAstCtr = g.sAstCtr
      /\ h.asteroids_id = g.asteroids_id /\ h.mShips = g.mShips /\ h.spShip = g.spShip
      /\ h.sAstNum = g.sAstNum
  BY <1>2 DEF World
<1> HIDE DEF h
<1>6. Untouched(g, h) /\ ShipsKept(g, h) BY <1>5 DEF Untouched, ShipsKept
<1>7. Good(Server, g) BY <1>2 DEF Good
<1>8. Good(Server, h) BY <1>4, <1>6, <1>7, GoodKept
<1>9. CASE Won(g)
  <2>1. Good(Server, f) /\ Untouched(h, f) BY <1>2, <1>8, ShipsCleared
  <2> HIDE DEF f
  <2>2. Untouched(g, f) BY <1>6, <2>1, UntouchedChain
  <2>3. mGame' = [mGame EXCEPT ![Server] = f] BY <1>1, <1>9 DEF Change
  <2>4. Sent
    <3>1. net' = net \cup Posted(Server, "GAME_WON", Server, NoAsteroids)
      BY <1>1, <1>9 DEF Post
    <3>2. "GAME_WON" \in Kinds BY DEF Kinds
    <3>3. "GAME_WON" # "ASTEROID_UPDATE" /\ "GAME_WON" # "ASTEROID_DESTROY" OBVIOUS
    <3>4. QED BY <1>2, <3>1, <3>2, <3>3, NoAsteroidsTable, SentPosted
  <2>5. QED BY <1>1, <1>2, <2>1, <2>2, <2>3, <2>4, QuietChange DEF g
<1>10. CASE ~Won(g)
  <2>1. mGame' = [mGame EXCEPT ![Server] = h] /\ net' = net BY <1>1, <1>10 DEF Change
  <2>2. Sent BY <2>1, SentNothing
  <2>3. QED BY <1>1, <1>2, <1>6, <1>8, <2>1, <2>2, QuietChange DEF g
<1>11. QED BY <1>9, <1>10

LEMMA PlayerLeavesStep ==
  ASSUME IInv, NEW c \in Clients, PlayerLeaves(c), limits' = limits
  PROVE  IInv'
<1> DEFINE g == mGame[Server]
           h == RemovePlayer(g, c)
<1>1. /\ Server \in on /\ on' = on \ {c} /\ kills' = kills /\ cut' = cut
      /\ mGame' = [mGame EXCEPT ![c] = EmptyGame, ![Server] = h]
      /\ net' = net \cup Posted(Server, "PLAYER_DISCONECTS", c, NoAsteroids)
  BY DEF PlayerLeaves
<1>2. c \in Player /\ c # Server /\ Server \in Player BY ConstantFacts
<1>3. Good(Server, h) /\ Untouched(g, h) BY <1>2, GameFacts, PlayerRemoved
<1>4. Sent
  <2>1. "PLAYER_DISCONECTS" \in Kinds BY DEF Kinds
  <2>2. "PLAYER_DISCONECTS" # "ASTEROID_UPDATE" /\ "PLAYER_DISCONECTS" # "ASTEROID_DESTROY"
    OBVIOUS
  <2>3. QED BY <1>1, <1>2, <2>1, <2>2, NoAsteroidsTable, SentPosted
<1> HIDE DEF h
<1>5. Evolves(mGame[Server], h, 0) BY <1>1, <1>3, UntouchedEvolves
<1>6. ShipsAt(Server, h) /\ h \in World BY <1>3 DEF Good
<1>7. mGame \in [Player -> World] /\ EmptyGame \in World /\ on \subseteq Player
      /\ kills \in Nat /\ cut \in BOOLEAN
  BY <1>2, EmptyGood DEF IInv, Basics, Good
<1>8. /\ mGame' \in [Player -> World] /\ mGame'[Server] = h
      /\ \A d \in Clients : mGame'[d] = mGame[d] \/ mGame'[d] = EmptyGame
  BY <1>1, <1>2, <1>6, <1>7, ConstantFacts
<1>9. Server \in on' /\ on' \subseteq Player BY <1>1, <1>2, <1>7
<1>10. kills' = kills + 0 /\ 0 \in Nat /\ cut' \in BOOLEAN BY <1>1, <1>7
<1>11. ~cut' => Budget(h)
  <2>1. g \in World BY <1>2, <1>7
  <2>2. Thrifty(g, h) BY <1>3, <1>6, <2>1, UntouchedThrifty
  <2>3. QED BY <1>1, <1>6, <2>2, BudgetOf
<1>12. QED BY <1>1, <1>4, <1>5, <1>6, <1>8, <1>9, <1>10, <1>11, ServerChange

LEMMA LeaveCrashStep ==
  ASSUME IInv, NEW c \in Clients, LeaveCrash(c), limits' = limits
  PROVE  IInv'
BY ConstantFacts, SentNothing, Stops DEF LeaveCrash

LEMMA ServerStepInv ==
  ASSUME IInv, ServerStep, limits' = limits
  PROVE  IInv'
BY SendAsteroidsStep, SpawnAsteroidStep, HitSmallStep, HitSplitStep, EndGameStep,
   PlayerLeavesStep, LeaveCrashStep
DEF ServerStep

-----------------------------------------------------------------------------
(* Packets.                                                                *)

(* A packet that is not about asteroids. *)
LEMMA Processed ==
  ASSUME NEW p \in Player, NEW g, Good(p, g), NEW m, PacketRight(m), m.dst = p,
         NEW colour \in Colours,
         m.type \notin {"ASTEROID_UPDATE", "ASTEROID_DESTROY"}
  PROVE  LET h == ProcessPacket(p, g, m, colour) IN Good(p, h) /\ Untouched(g, h)
<1> DEFINE h == ProcessPacket(p, g, m, colour)
<1>1. m.id \in Player /\ m.id # p /\ m.type \in Kinds BY DEF PacketRight, Packet
<1>2. g \in World BY DEF Good
<1>3. CASE m.type = "PLAYER_NEW"
  <2>1. h = CreateShip(g, m.id) BY <1>3 DEF ProcessPacket
  <2>2. QED BY <1>1, <2>1, ShipCreated
<1>4. CASE m.type = "PLAYER_DEATH"
  <2>1. h = LoseShip(g, m.id) BY <1>4 DEF ProcessPacket
  <2>2. QED BY <1>1, <2>1, ShipLost
<1>5. CASE m.type = "PLAYER_DISCONECTS"
  <2>1. h = RemovePlayer(g, m.id) BY <1>5 DEF ProcessPacket
  <2>2. QED BY <1>1, <2>1, PlayerRemoved
<1>6. CASE m.type = "GAME_WON"
  <2>1. h = ClearShips(g) BY <1>6 DEF ProcessPacket
  <2>2. QED BY <2>1, ShipsCleared
<1>7. CASE m.type \notin {"PLAYER_NEW", "PLAYER_DEATH", "PLAYER_DISCONECTS", "GAME_WON"}
  <2> DEFINE w == CHOOSE w \in Weapons : m.type = ShotPacket(w)
             f == gameObjInstCreate(g, w, m.id, 0, TRUE)
  <2>1. h = f BY <1>7 DEF ProcessPacket
  <2>2. IsShot(m) BY <1>1, <1>7, OtherKinds
  <2>3. w \in Weapons BY <2>2, ShotPackets
  <2> HIDE DEF w
  <2>4. f \in World /\ Untouched(g, f) /\ ShipsKept(g, f) BY <1>1, <1>2, <2>3, Created
  <2> HIDE DEF f
  <2>5. Good(p, f) BY <2>4, GoodKept
  <2>6. QED BY <2>1, <2>4, <2>5
<1>8. QED BY <1>3, <1>4, <1>5, <1>6, <1>7

LEMMA SentRelayed ==
  ASSUME IInv, NEW p \in Player, NEW m \in net, m.dst = p,
         net' = net \cup Relayed(p, m)
  PROVE  Sent
<1>1. PacketRight(m) BY DEF IInv, PacketsRight
<1>2. m.id \in Player /\ m.type \in Kinds /\ m.asteroids \in Tables
  BY <1>1 DEF PacketRight, Packet
<1>3. CASE p = Server
  <2>1. m.type \in ToServer BY <1>1, <1>3 DEF PacketRight
  <2>2. m.type # "ASTEROID_UPDATE" /\ m.type # "ASTEROID_DESTROY" BY <2>1 DEF ToServer
  <2>3. net' = net \cup Posted(Server, m.type, m.id, m.asteroids) BY <1>3 DEF Relayed
  <2>4. QED BY <1>2, <1>3, <2>2, <2>3, SentPosted
<1>4. CASE p # Server
  <2>1. net' = net BY <1>4 DEF Relayed
  <2>2. QED BY <2>1, SentNothing
<1>5. QED BY <1>3, <1>4

LEMMA ReceiveInv ==
  ASSUME IInv, NEW p \in Player, NEW m \in net, NEW colour \in Colours,
         Receive(p, m, colour), limits' = limits
  PROVE  IInv'
<1> DEFINE g == mGame[p]
           h == ProcessPacket(p, g, m, colour)
<1>1. /\ p \in on /\ m.dst = p /\ on' = on /\ kills' = kills /\ cut' = cut
      /\ net' = net \cup Relayed(p, m)
      /\ mGame' = [mGame EXCEPT ![p] = h]
  BY DEF Receive, Arrives, Change
<1>2. PacketRight(m) BY DEF IInv, PacketsRight
<1>3. m \in Packet /\ m.type \in Kinds /\ m.asteroids \in Tables
  BY <1>2 DEF PacketRight, Packet
<1>4. Sent BY <1>1, SentRelayed
<1>5. Good(p, g) BY GameFacts
<1> HIDE DEF g
<1>6. CASE m.type \notin {"ASTEROID_UPDATE", "ASTEROID_DESTROY"}
  <2>1. Good(p, h) /\ Untouched(g, h) BY <1>1, <1>2, <1>5, <1>6, Processed
  <2> HIDE DEF h
  <2>2. QED BY <1>1, <1>4, <2>1, QuietChange DEF g
<1>7. CASE m.type \in {"ASTEROID_UPDATE", "ASTEROID_DESTROY"}
  <2>1. p # Server BY <1>1, <1>2, <1>7 DEF PacketRight, ToServer
  <2>2. p \in Clients BY <2>1, ConstantFacts
  <2>3. Good(p, h) /\ Follows(g, h)
    <3>1. CASE m.type = "ASTEROID_UPDATE"
      <4> DEFINE f == UpdateAsteroids(p, g, m.asteroids)
      <4>1. h = f BY <3>1 DEF ProcessPacket
      <4>2. /\ Good(p, f)
            /\ \A j \in AstIds : \/ AllAsteroids(f)[j] = AllAsteroids(g)[j]
                                 \/ AllAsteroids(f)[j] = m.asteroids[j]
        BY <1>3, <1>5, <2>2, AsteroidsUpdated
      <4> HIDE DEF f
      <4>3. Follows(g, f) BY <3>1, <4>2 DEF Follows
      <4>4. QED BY <4>1, <4>2, <4>3
    <3>2. CASE m.type = "ASTEROID_DESTROY"
      <4> DEFINE i == CHOOSE i \in AstIds : m.asteroids[i] # NoSize
                 f == DestroyAsteroid(p, g, i, colour)
      <4>1. h = f BY <3>2 DEF ProcessPacket
      <4>2. i \in AstIds BY <1>2, <3>2 DEF PacketRight
      <4> HIDE DEF i
      <4>3. /\ Good(p, f)
            /\ \A j \in AstIds : \/ AllAsteroids(f)[j] = AllAsteroids(g)[j]
                                 \/ AllAsteroids(f)[j] = NoSize
        BY <1>5, <4>2, AsteroidGone
      <4> HIDE DEF f
      <4>4. Follows(g, f) BY <4>3 DEF Follows
      <4>5. QED BY <4>1, <4>3, <4>4
    <3>3. QED BY <1>7, <3>1, <3>2
  <2> HIDE DEF h
  <2>4. on' \subseteq Player /\ (Server \in on' <=> Server \in on)
    BY <1>1 DEF IInv, Basics
  <2>5. QED BY <1>1, <1>4, <2>2, <2>3, <2>4, ClientChange DEF g
<1>8. QED BY <1>6, <1>7

LEMMA ReceiveStepInv ==
  ASSUME IInv, NEW p \in Player, ReceiveStep(p), limits' = limits
  PROVE  IInv'
<1>1. ASSUME NEW m \in net, ReceiveCrash(p, m) PROVE IInv'
  <2>1. /\ Stop(p) /\ m.dst = p /\ kills' = kills /\ cut' = cut
        /\ net' = net \cup Relayed(p, m)
    BY <1>1 DEF ReceiveCrash, Arrives
  <2>2. Sent BY <2>1, SentRelayed
  <2>3. QED BY <2>1, <2>2, Stops
<1>2. QED BY <1>1, ReceiveInv DEF ReceiveStep

-----------------------------------------------------------------------------
(* The theorems.                                                           *)

LEMMA InitInv == Init => IInv
<1> SUFFICES ASSUME Init PROVE IInv OBVIOUS
<1>1. \A p \in Player :
        /\ mGame[p] = InitialGame(p)
        /\ Good(p, mGame[p]) /\ Numbered(mGame[p])
        /\ mGame[p].asteroids_id = mGame[p].sAstCtr
        /\ p = Server => mGame[p].sAstCtr <= mGame[p].sAstNum
        /\ p \in Clients => \A i \in AstIds : mGame[p].mAsteroids[i] = Null
  BY InitialGames DEF Init
<1>2. mGame = [p \in Player |-> InitialGame(p)] /\ on = Player /\ kills = 0 /\ cut = FALSE
      /\ limits \in Limits
  BY DEF Init
<1>3. Basics
  <2>1. \A p \in Player : InitialGame(p) \in World BY <1>1 DEF Good
  <2>2. mGame \in [Player -> World] BY <1>2, <2>1
  <2>3. QED BY <1>2, <2>2 DEF Basics
<1>4. AllGood BY <1>1 DEF AllGood
<1>5. ASSUME NEW m \in net PROVE PacketRight(m) /\ m.type = "PLAYER_NEW"
  <2>1. PICK c \in Clients : m = [dst |-> Server, type |-> "PLAYER_NEW", id |-> c,
                                  asteroids |-> NoAsteroids]
    BY DEF Init
  <2>2. "PLAYER_NEW" \in Kinds /\ "PLAYER_NEW" \in ToServer BY DEF Kinds, ToServer
  <2>3. m \in Packet BY <2>1, <2>2, ConstantFacts, NoAsteroidsTable DEF Packet
  <2>4. m.dst = Server /\ m.id = c /\ m.type = "PLAYER_NEW" BY <2>1
  <2>5. QED BY <2>2, <2>3, <2>4, ConstantFacts DEF PacketRight
<1>6. PacketsRight BY <1>5 DEF PacketsRight
<1>7. Stopped BY <1>2, ConstantFacts DEF Stopped
<1>8. Ahead
  <2>1. Numbered(mGame[Server]) BY <1>1, ConstantFacts
  <2>2. mGame[Server].asteroids_id = mGame[Server].sAstCtr + kills
    <3>1. mGame[Server].sAstCtr \in Nat BY <1>1, ConstantFacts, WorldFields DEF Good
    <3>2. mGame[Server].asteroids_id = mGame[Server].sAstCtr BY <1>1, ConstantFacts
    <3>3. QED BY <1>2, <3>1, <3>2
  <2>3. ASSUME NEW c \in Clients PROVE Behind(mGame[Server], AllAsteroids(mGame[c]))
    <3>1. \A i \in AstIds : mGame[c].mAsteroids[i] = Null BY <1>1, ConstantFacts
    <3>2. QED BY <3>1, BehindNothing
  <2>4. \A m \in net : m.type # "ASTEROID_UPDATE" BY <1>5
  <2>5. QED BY <2>1, <2>2, <2>3, <2>4 DEF Ahead
<1>9. AsteroidBudget
  <2> DEFINE g == mGame[Server]
  <2>1. g \in World /\ Listing(g) /\ g.sAstCtr <= g.sAstNum
    BY <1>1, ConstantFacts DEF Good
  <2> HIDE DEF g
  <2>2. /\ g.sAstCtr \in Nat /\ g.sAstNum \in Nat /\ Pieces(g) \in Nat
    BY <2>1, WorldFields, PiecesNat
  <2>3. g.sAstCtr + 0 <= g.sAstNum BY <2>1, <2>2
  <2>4. Pieces(g) + 0 * Top <= g.sAstNum * Top BY <2>1, <2>3, FewAsteroids
  <2>5. Pieces(g) <= g.sAstNum * Top BY <2>2, <2>4, SmallestFacts
  <2>6. QED BY <2>5 DEF AsteroidBudget, Top, g
<1>10. QED BY <1>3, <1>4, <1>6, <1>7, <1>8, <1>9 DEF IInv

LEMMA NextInv == IInv /\ [Next]_vars => IInv'
<1> SUFFICES ASSUME IInv, [Next]_vars PROVE IInv' OBVIOUS
<1>1. CASE UNCHANGED vars
  BY <1>1 DEF vars, IInv, Basics, AllGood, PacketsRight, Stopped, Ahead, AsteroidBudget
<1>2. CASE Next
  BY <1>2, ServerStepInv, PlayerStepInv, ReceiveStepInv DEF Next
<1>3. QED BY <1>1, <1>2

LEMMA Invariant == Spec => []IInv
BY InitInv, NextInv, PTL DEF Spec

(* The type invariant, for pools of every size and any number of players.  *)
THEOREM ObjectsTypeCorrect == Spec => []TypeOK
<1>1. IInv => TypeOK
  BY DEF IInv, Basics, PacketsRight, PacketRight, TypeOK
<1>2. QED BY <1>1, Invariant, PTL

(* PoolListed: mAsteroids, sAstCtr, mShips and spShip agree with the pool  *)
(* on every process, whatever is created in the slots that are freed.      *)
THEOREM PoolsStayListed == Spec => []PoolListed
<1>1. IInv => PoolListed
  BY DEF IInv, AllGood, Good, Listing, ShipsAt, Ship, PoolListed, AsteroidsListed, ShipsListed
<1>2. QED BY <1>1, Invariant, PTL

(* AsteroidsAccounted: every id the server gave out is that of an asteroid *)
(* alive or of one that was destroyed, also when a split finds no slot.    *)
THEOREM AsteroidsAreAccounted == Spec => []AsteroidsAccounted
<1>1. IInv => AsteroidsAccounted BY DEF IInv, Ahead, AsteroidsAccounted
<1>2. QED BY <1>1, Invariant, PTL

(* AsteroidBudget: whatever is shot, with whatever weapon, in whatever     *)
(* order, and however the number of asteroids rises with the scores, those *)
(* in the pool can be split into no more than sAstNum of the largest can,  *)
(* as long as no split has found the pool full.                            *)
THEOREM AsteroidsInBudget == Spec => []AsteroidBudget
<1>1. IInv => AsteroidBudget BY DEF IInv
<1>2. QED BY <1>1, Invariant, PTL

(* ReplicaLags: however late and in whatever order the sizes arrive, a     *)
(* client has no asteroid smaller than the server's.                       *)
THEOREM ReplicasLag == Spec => []ReplicaLags
<1>1. ASSUME IInv PROVE ReplicaLags
  <2> SUFFICES ASSUME NEW c \in Clients, NEW i \in AstIds,
                      mGame[c].mAsteroids[i] # Null, mGame[Server].mAsteroids[i] # Null
               PROVE  mGame[c].pool[mGame[c].mAsteroids[i]].scale
                        >= mGame[Server].pool[mGame[Server].mAsteroids[i]].scale
    BY DEF ReplicaLags
  <2>1. Server \in on
    <3>1. EmptyGame.mAsteroids[i] = Null BY EmptyGood, ConstantFacts
    <3>2. QED BY <1>1, <3>1 DEF IInv, Stopped
  <2>2. Behind(mGame[Server], AllAsteroids(mGame[c])) BY <1>1, <2>1 DEF IInv, Ahead
  <2>3. AllAsteroids(mGame[c])[i] # NoSize
    BY <1>1, ConstantFacts, GameFacts, TableFacts
  <2>4. AllAsteroids(mGame[c])[i] >= AllAsteroids(mGame[Server])[i]
    BY <2>2, <2>3 DEF Behind
  <2>5. QED BY <2>4 DEF AllAsteroids
<1>2. IInv => ReplicaLags BY <1>1
<1>3. QED BY <1>2, Invariant, PTL

=============================================================================
