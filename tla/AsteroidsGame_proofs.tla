------------------------ MODULE AsteroidsGame_proofs ------------------------
(* The game state of an Asteroids client, for any pool, any number of      *)
(* players and any number of shots: the own ship stays in the pool and     *)
(* every point was earned with a bullet, although the main thread and the  *)
(* thread of AsteroidsDataTransfer create instances at the same time.      *)
(* What the proofs add to the properties is what a thread holds between    *)
(* the two steps of gameObjInstCreate.                                     *)
EXTENDS MCAsteroidsGame, FiniteSetTheorems, TLAPS

(* Where each thread is when it holds a slot, and where its counters are.  *)
MainPlaces ==
  /\ ~av_start => player_list = <<>>
  /\ main \in {"players", "fire", "append", "collide", "bounds", "create"} => av_start
  /\ main \notin {"players", "create", "fire", "append"} => found["main"] = Idle
  /\ main = "append" => found["main"] # Idle
  /\ main = "players" /\ found["main"] # Idle => player_list # <<>>
  /\ main = "players" /\ player_list # <<>> => at \in 2 .. NumPlayers
  /\ main = "collide" => at \in Slot
  /\ main = "create" => todo # <<>>

DataPlaces ==
  /\ data \notin {"shots", "append"} => found["data"] = Idle
  /\ data = "append" => found["data"] # Idle
  /\ data \in {"shots", "append"} => row \in 1 .. Len(player_list)
  /\ found["data"] # Idle => player \in 1 .. Len(player_list)

(* What a thread has written into pObject is on its way into a slot.       *)
Written ==
  /\ \A t \in Thread : pObject[t] # Unwritten => found[t] \in Slot
  /\ main = "append" => pObject["main"] = Unwritten
  /\ data = "append" => pObject["data"] = Unwritten

(* 1 while the thread has fired a bullet that bullet_list does not have,   *)
(* and while the data thread has fired one whose flag it has not set.      *)
Unappended(t) ==
  IF t = "main" THEN IF main \in {"fire", "append"} /\ found["main"] # Idle THEN 1 ELSE 0
                ELSE IF found["data"] # Idle THEN 1 ELSE 0
Unfilled == IF data = "shots" /\ found["data"] # Idle THEN 1 ELSE 0

(* The bullets of the pool and the one the main thread puts into it, which *)
(* may be there already, since the data thread found the same slot; and    *)
(* the shots, those counted twice that got an object of either thread.     *)
Coming == {s \in Slot : found["main"] = s /\ (main = "fire" \/ pObject["main"] = "bullet")}
Bullets == Active("bullet") \cup Coming
Shots == fired + Len(mixed)

(* TypeOK, with the room that bullet_list needs.                           *)
Listed == Len(bullet_list) + Unappended("main") + Unappended("data") <= fired

(* Before Start there is nothing in the pool and the data thread spins.    *)
Early ==
  main \in {"manager", "start"} =>
    /\ inst = [s \in Slot |-> "free"]
    /\ data = "spin" /\ ~av_start
    /\ sScore = 0 /\ fired = 0
    /\ onValueChange /\ shown = Unprinted

(* No thread is about to fill the slot of the own ship.                    *)
ShipInv ==
  main \notin {"manager", "start"} =>
    /\ spShip \in Slot /\ inst[spShip] = "ship"
    /\ \A t \in Thread : found[t] # spShip

EarnedInv == sScore + Cardinality(Bullets) + Unfilled <= Shots

ShownInv ==
  /\ ~onValueChange => shown # Unprinted /\ shown.score = sScore
  /\ main = "frame" /\ onValueChange => shown = Unprinted

IInv ==
  /\ TypeOK /\ MainPlaces /\ DataPlaces /\ Written /\ Listed /\ Early
  /\ ShipInv /\ EarnedInv /\ ShownInv

-----------------------------------------------------------------------------
(* Every set of numbers that is not empty has a least one. *)
LEMMA Least ==
  ASSUME NEW T, T \subseteq Nat, T # {}
  PROVE  \E x \in T : \A y \in T : x <= y
<1> DEFINE R == OpToRel(<, Nat)
<1>1. IsWellFoundedOn(R, Nat)
  BY NatLessThanWellFounded
<1>2. \A x, y \in Nat : y < x => <<y, x>> \in R
  BY DEF OpToRel
<1> HIDE DEF R
<1>3. PICK x \in T : \A y \in T : ~ (<<y, x>> \in R)
  BY <1>1, WFMin
<1>4. ASSUME NEW y \in T PROVE x <= y
  <2>1. x \in Nat /\ y \in Nat /\ ~(<<y, x>> \in R)
    BY <1>3
  <2>2. ~(y < x)
    BY <2>1, <1>2
  <2>3. QED  BY <2>1, <2>2
<1>5. QED
  BY <1>4

(* Induction over the numbers up to N, for a set of numbers.               *)
LEMMA InductionUpTo ==
  ASSUME NEW N \in Nat, NEW S, 0 \in S,
         \A n \in 1 .. N : n - 1 \in S => n \in S
  PROVE  \A n \in 0 .. N : n \in S
<1> DEFINE Bad == {n \in 0 .. N : n \notin S}
<1>1. SUFFICES ASSUME Bad # {} PROVE FALSE
  OBVIOUS
<1>2. PICK m \in Bad : \A n \in Bad : m <= n
  <2>1. Bad \subseteq Nat
    OBVIOUS
  <2> HIDE DEF Bad
  <2>2. QED  BY <1>1, <2>1, Least
<1>3. m \in 1 .. N /\ m \notin S
  OBVIOUS
<1>4. m - 1 \in 0 .. N /\ ~(m <= m - 1)
  BY <1>3
<1>5. m - 1 \in S
  BY <1>2, <1>4
<1>6. QED
  BY <1>3, <1>5

(* f is the function that starts with b and goes on as G says.             *)
Recursion(f, N, b, G) == f[0] = b /\ \A n \in 1 .. N : f[n] = G[<<n, f[n - 1]>>]

(* A recursion over the numbers up to N defines a function. *)
LEMMA RecursionUpTo ==
  ASSUME NEW N \in Nat, NEW T, NEW b \in T, NEW G \in [(1 .. N) \X T -> T]
  PROVE  \E f \in [0 .. N -> T] : Recursion(f, N, b, G)
<1> USE DEF Recursion
<1> DEFINE Good(m) == \E f \in [0 .. m -> T] : Recursion(f, m, b, G)
           Bad == {m \in 0 .. N : ~Good(m)}
<1>1. SUFFICES Bad = {}
  <2>1. N \in 0 .. N
    OBVIOUS
  <2>2. Good(N)
    BY <2>1, Bad = {}
  <2>3. QED  BY <2>2
<1>2. SUFFICES ASSUME Bad # {} PROVE FALSE
  OBVIOUS
<1>3. PICK m \in Bad : \A k \in Bad : m <= k
  <2>1. Bad \subseteq Nat
    OBVIOUS
  <2> HIDE DEF Bad
  <2>2. QED  BY <1>2, <2>1, Least
<1>4. m \in 0 .. N /\ ~Good(m)
  OBVIOUS
<1>5. CASE m = 0
  <2> DEFINE f == [n \in 0 .. 0 |-> b]
  <2>1. f \in [0 .. m -> T] /\ f[0] = b /\ 1 .. m = {}
    BY <1>5
  <2>2. Good(m)
    BY <2>1
  <2>3. QED  BY <2>2, <1>4
<1>6. CASE m # 0
  <2>1. m - 1 \in 0 .. N /\ m - 1 \notin Bad
    BY <1>3, <1>4, <1>6
  <2>2. Good(m - 1)
    BY <2>1
  <2>3. PICK f \in [0 .. m - 1 -> T] :
               f[0] = b /\ \A n \in 1 .. m - 1 : f[n] = G[<<n, f[n - 1]>>]
    BY <2>2
  <2> DEFINE h == [n \in 0 .. m |-> IF n = m THEN G[<<m, f[m - 1]>>] ELSE f[n]]
  <2>4. G[<<m, f[m - 1]>>] \in T
    BY <1>4, <1>6
  <2>5. h \in [0 .. m -> T]
    BY <2>4, <1>4, <1>6
  <2>6. h[0] = b
    BY <2>3, <1>4, <1>6
  <2>7. ASSUME NEW n \in 1 .. m PROVE h[n] = G[<<n, h[n - 1]>>]
    <3>1. n - 1 \in 0 .. m /\ n - 1 # m /\ h[n - 1] = f[n - 1]
      BY <1>4
    <3>2. CASE n = m
      BY <3>1, <3>2
    <3>3. CASE n # m
      <4>1. n \in 1 .. m - 1 /\ n \in 0 .. m
        BY <3>3, <1>4
      <4>2. QED  BY <4>1, <3>3, <3>1, <2>3
    <3>4. QED  BY <3>2, <3>3
  <2>8. Good(m)
    BY <2>5, <2>6, <2>7
  <2>9. QED  BY <2>8, <1>4
<1>7. QED
  BY <1>5, <1>6

(* What erase leaves of bullet_list has no new pointers. *)
LEMMA UnlistedShorter ==
  ASSUME NEW X, bullet_list \in Seq(X), NEW S
  PROVE  Unlisted(S) \in Seq(X) /\ Len(Unlisted(S)) <= Len(bullet_list)
<1> DEFINE N == Len(bullet_list)
           Kept(f) == [n \in 0 .. N |->
                         IF n = 0 THEN <<>>
                         ELSE IF bullet_list[n] \in S THEN f[n - 1]
                              ELSE Append(f[n - 1], bullet_list[n])]
           G == [p \in (1 .. N) \X Seq(X) |->
                   IF bullet_list[p[1]] \in S THEN p[2]
                   ELSE Append(p[2], bullet_list[p[1]])]
           k == CHOOSE f : f = Kept(f)
<1>1. N \in Nat /\ \A n \in 1 .. N : bullet_list[n] \in X
  OBVIOUS
<1>2. Unlisted(S) = k[N]
  BY DEF Unlisted
<1>3. G \in [(1 .. N) \X Seq(X) -> Seq(X)]
  <2>1. ASSUME NEW p \in (1 .. N) \X Seq(X)
        PROVE  (IF bullet_list[p[1]] \in S THEN p[2]
                ELSE Append(p[2], bullet_list[p[1]])) \in Seq(X)
    BY <1>1
  <2>2. QED  BY <2>1
<1>4. \E f \in [0 .. N -> Seq(X)] :
         f[0] = <<>> /\ \A n \in 1 .. N : f[n] = G[<<n, f[n - 1]>>]
  <2> DEFINE T == Seq(X)
             empty == <<>>
  <2>1. empty \in T
    OBVIOUS
  <2> HIDE DEF G, N, Kept, k, T, empty
  <2>2. G \in [(1 .. N) \X T -> T]
    BY <1>3 DEF T
  <2>3. \E f \in [0 .. N -> T] : Recursion(f, N, empty, G)
    BY <1>1, <2>1, <2>2, RecursionUpTo
  <2>4. QED  BY <2>3 DEF T, empty, Recursion
<1>5. PICK f \in [0 .. N -> Seq(X)] :
         f[0] = <<>> /\ \A n \in 1 .. N : f[n] = G[<<n, f[n - 1]>>]
  BY <1>4
<1>6. ASSUME NEW n \in 0 .. N PROVE f[n] = Kept(f)[n]
  <2>1. CASE n = 0
    BY <2>1, <1>5
  <2>2. CASE n # 0
    <3>1. n \in 1 .. N /\ n - 1 \in 0 .. N
      BY <2>2, <1>1
    <3>2. f[n - 1] \in Seq(X) /\ f[n] = G[<<n, f[n - 1]>>]
      BY <3>1, <1>5
    <3>3. <<n, f[n - 1]>> \in (1 .. N) \X Seq(X)
      BY <3>1, <3>2
    <3>4. QED  BY <3>1, <3>2, <3>3, <2>2
  <2>3. QED  BY <2>1, <2>2
<1>7. f = Kept(f)
  <2>1. f = [n \in 0 .. N |-> f[n]]
    BY <1>5
  <2>2. f = [n \in 0 .. N |-> Kept(f)[n]]
    BY <2>1, <1>6
  <2>3. QED  BY <2>2
<1>8. k = Kept(k)
  <2> HIDE DEF Kept
  <2>1. QED  BY <1>7
<1> HIDE DEF k
<1>9. ASSUME NEW n \in 0 .. N
      PROVE  k[n] = IF n = 0 THEN <<>>
                    ELSE IF bullet_list[n] \in S THEN k[n - 1]
                         ELSE Append(k[n - 1], bullet_list[n])
  <2>1. k[n] = Kept(k)[n]
    <3> HIDE DEF Kept
    <3>1. QED  BY <1>8
  <2>2. QED  BY <2>1
<1> DEFINE Good == {n \in 0 .. N : k[n] \in Seq(X) /\ Len(k[n]) <= n}
<1>10. 0 \in Good
  <2>1. 0 \in 0 .. N
    BY <1>1
  <2>2. k[0] = <<>>
    BY <2>1, <1>9
  <2>3. <<>> \in Seq(X) /\ Len(<<>>) <= 0
    OBVIOUS
  <2>4. QED  BY <2>1, <2>2, <2>3
<1>11. ASSUME NEW n \in 1 .. N, n - 1 \in Good
       PROVE  n \in Good
  <2> DEFINE before == k[n - 1]
             longer == Append(before, bullet_list[n])
  <2>1. before \in Seq(X) /\ Len(before) <= n - 1 /\ Len(before) \in Nat
    BY <1>11
  <2>2. longer \in Seq(X) /\ Len(longer) = Len(before) + 1
    BY <2>1, <1>1
  <2>3. k[n] = before \/ k[n] = longer
    <3>1. n \in 0 .. N /\ n # 0
      BY <1>1
    <3>2. QED  BY <3>1, <1>9
  <2> HIDE DEF before, longer
  <2>4. k[n] \in Seq(X) /\ Len(k[n]) <= n
    BY <1>1, <2>1, <2>2, <2>3
  <2>5. QED  BY <1>1, <2>4
<1>12. N \in Good
  <2> HIDE DEF Good
  <2>1. \A n \in 0 .. N : n \in Good
    BY <1>1, <1>10, <1>11, InductionUpTo
  <2>2. QED  BY <1>1, <2>1
<1>13. QED
  BY <1>2, <1>12

(* The slot gameObjInstCreate finds is one of the pool, or there is none. *)
LEMMA FirstFreeSlot ==
  /\ FirstFree \in Slot \cup {NULL}
  /\ FirstFree # NULL => inst[FirstFree] = "free"
  /\ (\E s \in Slot : inst[s] = "free") => FirstFree \in Slot
<1>1. /\ Active("free") \subseteq Nat
      /\ \A s \in Active("free") : s \in Slot /\ inst[s] = "free"
  BY SizesAssumption DEF SizesAssumption, Active, Slot
<1>2. ASSUME Active("free") # {}
      PROVE  FirstFree \in Active("free")
  <2>1. \E x \in Active("free") : \A y \in Active("free") : x <= y
    BY <1>1, <1>2, Least
  <2>2. FirstFree = Min(Active("free"))
    BY <1>2 DEF FirstFree
  <2>3. Min(Active("free")) = CHOOSE x \in Active("free") : \A y \in Active("free") : x <= y
    BY DEF Min
  <2>4. QED  BY <2>1, <2>2, <2>3
<1>3. NULL \notin Slot
  BY SizesAssumption DEF SizesAssumption, Slot, NULL
<1>4. CASE Active("free") = {}
  BY <1>4, <1>3 DEF FirstFree, Active
<1>5. CASE Active("free") # {}
  BY <1>5, <1>1, <1>2
<1>6. QED
  BY <1>4, <1>5

(* Every set of slots is finite.                                           *)
LEMMA SlotsFinite ==
  ASSUME NEW S \in SUBSET Slot
  PROVE  IsFiniteSet(S) /\ Cardinality(S) \in Nat
<1>1. IsFiniteSet(Slot)
  BY SizesAssumption, FS_Interval DEF SizesAssumption, Slot
<1>2. IsFiniteSet(S)
  BY <1>1, FS_Subset
<1>3. QED
  BY <1>2, FS_CardinalityType

(* What a round of the collision loop leaves has the types of the          *)
(* variables.                                                              *)
LEMMA CollideTypes ==
  ASSUME TypeOK, Collide
  PROVE  /\ bullet_list' \in Seq(Slot \cup {NULL})
         /\ Len(bullet_list') <= Len(bullet_list)
         /\ app' \in {"runs", "quit", "crashed"}
         /\ inst' \in [Slot -> Type \cup {"free"}]
         /\ sShipLives' \in Int /\ sScore' \in Nat /\ onValueChange' \in BOOLEAN
<1>1. ASSUME NEW ships \in SUBSET Active("ship"), NEW bullets \in SUBSET Active("bullet"),
             CollideAsteroid(ships, bullets)
      PROVE  /\ bullet_list' \in Seq(Slot \cup {NULL})
             /\ Len(bullet_list') <= Len(bullet_list)
             /\ app' \in {"runs", "quit", "crashed"}
             /\ inst' \in [Slot -> Type \cup {"free"}]
             /\ sShipLives' \in Int /\ sScore' \in Nat /\ onValueChange' \in BOOLEAN
  <2>1. Cardinality(ships) \in Nat /\ Cardinality(bullets) \in Nat
    BY SlotsFinite DEF Active
  <2>2. bullet_list \in Seq(Slot \cup {NULL}) /\ app \in {"runs", "quit", "crashed"}
        /\ inst \in [Slot -> Type \cup {"free"}] /\ sShipLives \in Int /\ sScore \in Nat
    BY DEF TypeOK
  <2>3. bullet_list' \in Seq(Slot \cup {NULL}) /\ Len(bullet_list') <= Len(bullet_list)
    BY <1>1, <2>2, UnlistedShorter
    DEF CollideAsteroid, HitAsteroid, UpdateBullets
  <2>4. app' \in {"runs", "quit", "crashed"}
    BY <1>1, <2>2 DEF CollideAsteroid, HitAsteroid, UpdateBullets
  <2>5. inst' \in [Slot -> Type \cup {"free"}]
    BY <1>1, <2>2 DEF CollideAsteroid, HitAsteroid, Destroyed
  <2>6. sShipLives' \in Int /\ sScore' \in Nat /\ onValueChange' \in BOOLEAN
    BY <1>1, <2>1, <2>2 DEF CollideAsteroid, HitAsteroid
  <2>7. QED  BY <2>3, <2>4, <2>5, <2>6
<1>2. ASSUME NEW ships \in SUBSET Active("ship"), CollideLives(ships)
      PROVE  /\ UNCHANGED <<bullet_list, app, sScore, onValueChange>>
             /\ inst' \in [Slot -> Type \cup {"free"}] /\ sShipLives' \in Int
  <2>1. Cardinality(ships) \in Nat
    BY SlotsFinite DEF Active
  <2>2. QED  BY <1>2, <2>1 DEF CollideLives, Destroyed, TypeOK
<1>3. /\ bullet_list \in Seq(Slot \cup {NULL}) /\ Len(bullet_list) <= Len(bullet_list)
      /\ app \in {"runs", "quit", "crashed"}
      /\ inst \in [Slot -> Type \cup {"free"}]
      /\ sShipLives \in Int /\ sScore \in Nat /\ onValueChange \in BOOLEAN
  BY DEF TypeOK
<1>4. QED
  BY <1>1, <1>2, <1>3 DEF Collide, counters

(* No step leaves the types. *)
LEMMA TypeStep ==
  ASSUME TypeOK, MainPlaces, DataPlaces, Listed, Early, Next
  PROVE  TypeOK'
<1> USE SizesAssumption, ScoreAssumption, BoundsAssumption, FirstFreeSlot
    DEF SizesAssumption, ScoreAssumption, BoundsAssumption
<1>1. CASE GameStateMgrInit
  BY <1>1
  DEF GameStateMgrInit, TypeOK, pointers, counters, history, atomics, mainVars,
      dataVars, Thread, Type, NULL, Idle, Slot
<1>2. CASE Start
  <2>1. FirstFree \in Slot
    BY <1>2 DEF Start, Early, Slot
  <2>2. QED  BY <1>2, <2>1
  DEF Start, TypeOK, pointers, counters, history, atomics, mainVars, dataVars, Thread,
      Type, NULL, Idle, Slot
<1>3. CASE Update
  <2>1. <<"asteroid", "asteroid", "lives">> \in Seq({"asteroid", "lives"})
    BY DEF Type
  <2>2. todo' \in Seq({"asteroid", "lives"})
    BY <1>3, <2>1 DEF Update, TypeOK
  <2>3. main' \in {"draw", "fire", "create"} /\ spawns' \in 0 .. MaxSpawns
    BY <1>3 DEF Update, TypeOK
  <2>4. QED  BY <1>3, <2>2, <2>3
  DEF Update, TypeOK, pointers, counters, history, atomics, dataVars
<1>4. CASE Offline
  BY <1>4
  DEF Offline, TypeOK, pointers, counters, history, atomics, mainVars, dataVars, Thread,
      Type, NULL, Idle, Slot
<1>5. CASE Disconnect
  BY <1>5
  DEF Disconnect, TypeOK, pointers, counters, history, atomics, mainVars, dataVars,
      Thread, Type, NULL, Idle, Slot
<1>6. CASE Wait
  <2>1. 1 \in 1 .. Slots + NumPlayers
    OBVIOUS
  <2>2. /\ at' \in 1 .. Slots + NumPlayers
        /\ main' \in {"players", "draw"}
        /\ av_start' \in BOOLEAN
    BY <1>6, <2>1 DEF Wait, TypeOK
  <2>3. QED  BY <1>6, <2>2
  DEF Wait, TypeOK, pointers, counters, history, atomics, mainVars, dataVars
<1>7. CASE Resize
  BY <1>7
  DEF Resize, TypeOK, pointers, counters, history, atomics, mainVars, dataVars,
      ResizeTo, Thread, Type, NULL, Idle, Slot
<1>8. CASE FindPlayer
  BY <1>8
  DEF FindPlayer, TypeOK, pointers, counters, history, atomics, mainVars, dataVars,
      FindInstance, Thread, Type, NULL, Idle, Slot
<1>9. CASE AddPlayer
  BY <1>9
  DEF AddPlayer, TypeOK, MainPlaces, pointers, counters, history, atomics, mainVars,
      dataVars, SetFlag, Thread, Type, NULL, Idle, Slot
<1>10. CASE FindSpawned
  BY <1>10
  DEF FindSpawned, TypeOK, pointers, counters, history, atomics, mainVars, dataVars,
      FindInstance, Thread, Type, NULL, Idle, Slot
<1>11. CASE Spawn
  <2>1. todo \in Seq({"asteroid", "lives"}) /\ todo # <<>>
    BY <1>11 DEF Spawn, TypeOK, MainPlaces
  <2>2. Head(todo) \in {"asteroid", "lives"} /\ Tail(todo) \in Seq({"asteroid", "lives"})
    BY <2>1
  <2>3. inst' \in [Slot -> Type \cup {"free"}]
    BY <1>11 DEF Spawn, SetFlag, TypeOK, Thread
  <2>4. pObject' \in [Thread -> Type \cup {Unwritten}]
    BY <1>11 DEF Spawn, SetFlag, TypeOK
  <2>5. found' \in [Thread -> Slot \cup {NULL, Idle}]
    BY <1>11 DEF Spawn, TypeOK
  <2>6. main' \in {"fire", "create"}
    BY <1>11 DEF Spawn
  <2>7. QED  BY <1>11, <2>2, <2>3, <2>4, <2>5, <2>6
  DEF Spawn, TypeOK, pointers, counters, history, atomics, dataVars
<1>12. CASE Fire
  <2>1. /\ at' \in 1 .. Slots + NumPlayers
        /\ main' \in {"fire", "collide"}
        /\ fired' \in 0 .. MaxShots
    BY <1>12 DEF Fire, TypeOK
  <2>2. found' \in [Thread -> Slot \cup {NULL, Idle}]
    BY <1>12 DEF Fire, TypeOK, FindInstance, Thread
  <2>3. QED  BY <1>12, <2>1, <2>2
  DEF Fire, TypeOK, pointers, counters, history, atomics, mainVars, dataVars, Thread,
      Type, NULL, Idle, Slot
<1>13. CASE FillBullet
  BY <1>13
  DEF FillBullet, TypeOK, pointers, counters, history, atomics, mainVars, dataVars,
      SetFlag, Thread, Type, NULL, Idle, Slot
<1>14. CASE AppendBullet
  <2>1. found["main"] \in Slot \cup {NULL}
    BY <1>14 DEF AppendBullet, TypeOK, MainPlaces, Thread
  <2>2. Len(bullet_list) + 1 <= MaxShots
    BY <1>14 DEF AppendBullet, TypeOK, MainPlaces, Listed, Unappended
  <2>3. /\ bullet_list \in Seq(Slot \cup {NULL})
        /\ Len(bullet_list) <= MaxShots
        /\ app \in {"runs", "quit", "crashed"}
    BY DEF TypeOK
  <2>4. bullet_list' \in Seq(Slot \cup {NULL}) /\ Len(bullet_list') <= MaxShots
    BY <1>14, <2>1, <2>2, <2>3 DEF AppendBullet, UpdateBullets
  <2>5. app' \in {"runs", "quit", "crashed"}
    BY <1>14, <2>3 DEF AppendBullet, UpdateBullets
  <2>6. at' \in 1 .. Slots + NumPlayers
    BY <1>14 DEF AppendBullet
  <2>7. QED  BY <1>14, <2>4, <2>5, <2>6
  DEF AppendBullet, Thread, Idle, TypeOK, pointers, counters, history, atomics,
      mainVars, dataVars
<1>15. CASE Collide
  <2>1. bullet_list' \in Seq(Slot \cup {NULL}) /\ Len(bullet_list') <= Len(bullet_list)
         /\ app' \in {"runs", "quit", "crashed"}
         /\ inst' \in [Slot -> Type \cup {"free"}]
         /\ sShipLives' \in Int /\ sScore' \in Nat /\ onValueChange' \in BOOLEAN
    BY <1>15, CollideTypes DEF Collide
  <2>2. at' \in 1 .. Slots + NumPlayers /\ main' \in {"collide", "bounds"}
    BY <1>15 DEF Collide, MainPlaces, Slot
  <2>3. QED  BY <1>15, <2>1, <2>2
  DEF Collide, TypeOK, pointers, counters, history, atomics, mainVars, dataVars, Thread,
      Type, NULL, Idle, Slot
<1>16. ASSUME NEW bullets \in SUBSET Active("bullet"), Bounds(bullets) PROVE TypeOK'
  <2>1. bullet_list' \in Seq(Slot \cup {NULL}) /\ Len(bullet_list') <= Len(bullet_list)
    BY <1>16, UnlistedShorter DEF Bounds, LeaveBounds, UpdateBullets, TypeOK
  <2>2. app' \in {"runs", "quit", "crashed"}
    BY <1>16 DEF Bounds, LeaveBounds, UpdateBullets, TypeOK
  <2>3. inst' \in [Slot -> Type \cup {"free"}]
    BY <1>16 DEF Bounds, LeaveBounds, Destroyed, TypeOK
  <2>4. QED  BY <1>16, <2>1, <2>2, <2>3
  DEF Bounds, LeaveBounds, TypeOK, pointers, counters, history, atomics, mainVars,
      dataVars, Thread, Type, NULL, Idle, Slot
<1>17. CASE Draw
  BY <1>17
  DEF Draw, TypeOK, pointers, counters, history, atomics, mainVars, dataVars, Thread,
      Type, NULL, Idle, Slot
<1>18. CASE Quit
  <2>1. inst' \in [Slot -> Type \cup {"free"}]
    BY <1>18 DEF Quit, Freed, Destroyed, TypeOK
  <2>2. QED  BY <1>18, <2>1
  DEF Quit, TypeOK, pointers, counters, history, atomics, mainVars, dataVars, Thread,
      Type, NULL, Idle, Slot
<1>19. CASE Connect
  BY <1>19
  DEF Connect, TypeOK, pointers, counters, history, atomics, mainVars, dataVars, Thread,
      Type, NULL, Idle, Slot
<1>20. CASE SendPlayers
  BY <1>20
  DEF SendPlayers, TypeOK, pointers, counters, history, atomics, mainVars, dataVars,
      Thread, Type, NULL, Idle, Slot
<1>21. CASE Timeout
  BY <1>21
  DEF Timeout, TypeOK, pointers, counters, history, atomics, mainVars, dataVars, Thread,
      Type, NULL, Idle, Slot
<1>22. CASE ReceivePlayers
  BY <1>22
  DEF ReceivePlayers, TypeOK, pointers, counters, history, atomics, mainVars, dataVars,
      Thread, Type, NULL, Idle, Slot
<1>23. CASE ReceiveRow
  <2>1. row' \in 1 .. NumPlayers + 1 /\ player' \in 1 .. NumPlayers + 1
         /\ data' \in {"spin", "rows", "shots"}
    BY <1>23 DEF ReceiveRow, TypeOK
  <2>2. QED  BY <1>23, <2>1
  DEF ReceiveRow, TypeOK, pointers, counters, history, atomics, mainVars, dataVars
<1>24. CASE FindShot
  <2>1. row' \in 1 .. NumPlayers + 1 /\ player' \in 1 .. NumPlayers + 1
         /\ data' \in {"rows", "shots"} /\ fired' \in 0 .. MaxShots
    BY <1>24 DEF FindShot, TypeOK, DataPlaces
  <2>2. found' \in [Thread -> Slot \cup {NULL, Idle}]
    BY <1>24 DEF FindShot, TypeOK, FindInstance, Thread
  <2>3. QED  BY <1>24, <2>1, <2>2
  DEF FindShot, TypeOK, pointers, counters, history, atomics, mainVars, dataVars
<1>25. CASE FillShot
  BY <1>25
  DEF FillShot, TypeOK, pointers, counters, history, atomics, mainVars, dataVars,
      SetFlag, Thread, Type, NULL, Idle, Slot
<1>26. CASE AppendShot
  <2>1. found["data"] \in Slot \cup {NULL}
    BY <1>26 DEF AppendShot, TypeOK, DataPlaces, Thread
  <2>2. Len(bullet_list) + 1 <= MaxShots
    BY <1>26 DEF AppendShot, TypeOK, DataPlaces, Listed, Unappended
  <2>3. /\ bullet_list \in Seq(Slot \cup {NULL})
        /\ Len(bullet_list) <= MaxShots
        /\ app \in {"runs", "quit", "crashed"}
    BY DEF TypeOK
  <2>4. bullet_list' \in Seq(Slot \cup {NULL}) /\ Len(bullet_list') <= MaxShots
    BY <1>26, <2>1, <2>2, <2>3 DEF AppendShot, UpdateBullets
  <2>5. app' \in {"runs", "quit", "crashed"}
    BY <1>26, <2>3 DEF AppendShot, UpdateBullets
  <2>6. player' \in 1 .. NumPlayers + 1
    BY <1>26 DEF AppendShot, TypeOK, DataPlaces
  <2>7. QED  BY <1>26, <2>4, <2>5, <2>6
  DEF AppendShot, Thread, Idle, TypeOK, pointers, counters, history, atomics, mainVars,
      dataVars
<1>27. ASSUME NEW t \in Thread, SetObject(t) PROVE TypeOK'
  <2>1. Asked(t) \in Type
    <3>1. main = "create" => Head(todo) \in {"asteroid", "lives"}
      BY DEF MainPlaces, TypeOK
    <3>2. QED  BY <3>1 DEF Asked, Type
  <2>2. inst' \in [Slot -> Type \cup {"free"}]
    BY <1>27, <2>1 DEF SetObject, TypeOK
  <2>3. pObject' \in [Thread -> Type \cup {Unwritten}]
    BY <1>27, <2>1 DEF SetObject, TypeOK
  <2>4. mixed' \in Seq(Slot)
    BY <1>27 DEF SetObject, TypeOK
  <2>5. QED  BY <1>27, <2>2, <2>3, <2>4
  DEF SetObject, TypeOK, pointers, counters, history, atomics, mainVars, dataVars
<1>28. QED
  BY <1>1, <1>2, <1>3, <1>4, <1>5, <1>6, <1>7, <1>8, <1>9, <1>10, <1>11,
     <1>12, <1>13, <1>14, <1>15, <1>16, <1>17, <1>18, <1>19, <1>20, <1>21,
     <1>22, <1>23, <1>24, <1>25, <1>26, <1>27
  DEF Next, MainThread, DataThread, InitMultiPlayer, FireBullet,
      Thread

(* What the main thread holds fits its place after every step. *)
LEMMA MainPlacesStep ==
  ASSUME TypeOK, MainPlaces, Early, Next
  PROVE  MainPlaces'
<1> USE SizesAssumption, FirstFreeSlot
    DEF SizesAssumption, TypeOK, MainPlaces, Slot, Thread, NULL, Idle
<1>1. CASE GameStateMgrInit
  BY <1>1 DEF GameStateMgrInit, pointers, counters, history, atomics, mainVars, dataVars
<1>2. CASE Start
  BY <1>2 DEF Start, pointers, counters, history, atomics, mainVars, dataVars
<1>3. CASE Update
  <2>1. <<"asteroid", "asteroid", "lives">> # <<>>
    OBVIOUS
  <2>2. main' = "create" => todo' # <<>>
    BY <1>3, <2>1 DEF Update
  <2>3. QED  BY <1>3, <2>2
  DEF Update, pointers, counters, history, atomics, mainVars, dataVars
<1>4. CASE Offline
  BY <1>4 DEF Offline, pointers, counters, history, atomics, mainVars, dataVars
<1>5. CASE Disconnect
  BY <1>5 DEF Disconnect, pointers, counters, history, atomics, mainVars, dataVars
<1>6. CASE Wait
  BY <1>6 DEF Wait, pointers, counters, history, atomics, mainVars, dataVars
<1>7. CASE Resize
  BY <1>7 DEF Resize, ResizeTo, pointers, counters, history, atomics, mainVars, dataVars
<1>8. CASE FindPlayer
  BY <1>8
  DEF FindPlayer, FindInstance, pointers, counters, history, atomics, mainVars, dataVars
<1>9. CASE AddPlayer
  BY <1>9
  DEF AddPlayer, SetFlag, pointers, counters, history, atomics, mainVars, dataVars
<1>10. CASE FindSpawned
  BY <1>10
  DEF FindSpawned, FindInstance, pointers, counters, history, atomics, mainVars,
      dataVars
<1>11. CASE Spawn
  <2>1. todo \in Seq({"asteroid", "lives"}) /\ todo # <<>>
    BY <1>11 DEF Spawn
  <2>2. Len(todo) \in Nat \ {0} /\ Len(Tail(todo)) = Len(todo) - 1 /\ Len(<<>>) = 0
    BY <2>1
  <2>3. main' = "create" => Len(todo) # 1 /\ todo' = Tail(todo)
    BY <1>11 DEF Spawn
  <2>4. main' = "create" => Len(todo') # 0
    BY <2>2, <2>3
  <2>5. main' = "create" => todo' # <<>>
    BY <2>2, <2>4
  <2>6. QED  BY <1>11, <2>5
  DEF Spawn, SetFlag, pointers, counters, history, atomics, mainVars, dataVars
<1>12. CASE Fire
  BY <1>12
  DEF Fire, FindInstance, pointers, counters, history, atomics, mainVars, dataVars
<1>13. CASE FillBullet
  BY <1>13
  DEF FillBullet, SetFlag, pointers, counters, history, atomics, mainVars, dataVars
<1>14. CASE AppendBullet
  BY <1>14 DEF AppendBullet, pointers, counters, history, atomics, mainVars, dataVars
<1>15. CASE Collide
  BY <1>15
  DEF Collide, CollideAsteroid, HitAsteroid, CollideLives, pointers, counters,
      atomics, mainVars, dataVars
<1>16. ASSUME NEW bullets \in SUBSET Active("bullet"), Bounds(bullets) PROVE MainPlaces'
  BY <1>16
  DEF Bounds, LeaveBounds, pointers, counters, history, atomics, mainVars, dataVars
<1>17. CASE Draw
  BY <1>17 DEF Draw, pointers, counters, history, atomics, mainVars, dataVars
<1>18. CASE Quit
  BY <1>18 DEF Quit, Freed, pointers, counters, history, atomics, mainVars, dataVars
<1>19. CASE Connect
  BY <1>19 DEF Connect, pointers, counters, history, atomics, mainVars, dataVars
<1>20. CASE SendPlayers
  BY <1>20 DEF SendPlayers, pointers, counters, history, atomics, mainVars, dataVars
<1>21. CASE Timeout
  BY <1>21 DEF Timeout, pointers, counters, history, atomics, mainVars, dataVars
<1>22. CASE ReceivePlayers
  BY <1>22 DEF ReceivePlayers, pointers, counters, history, atomics, mainVars, dataVars
<1>23. CASE ReceiveRow
  BY <1>23 DEF ReceiveRow, pointers, counters, history, atomics, mainVars, dataVars
<1>24. CASE FindShot
  BY <1>24
  DEF FindShot, FindInstance, pointers, counters, history, atomics, mainVars, dataVars
<1>25. CASE FillShot
  BY <1>25
  DEF FillShot, SetFlag, pointers, counters, history, atomics, mainVars, dataVars
<1>26. CASE AppendShot
  BY <1>26 DEF AppendShot, pointers, counters, history, atomics, mainVars, dataVars
<1>27. ASSUME NEW t \in Thread, SetObject(t) PROVE MainPlaces'
  BY <1>27
  DEF SetObject, pointers, counters, history, atomics, mainVars, dataVars
<1>28. QED
  BY <1>1, <1>2, <1>3, <1>4, <1>5, <1>6, <1>7, <1>8, <1>9, <1>10, <1>11,
     <1>12, <1>13, <1>14, <1>15, <1>16, <1>17, <1>18, <1>19, <1>20, <1>21,
     <1>22, <1>23, <1>24, <1>25, <1>26, <1>27
  DEF Next, MainThread, DataThread, InitMultiPlayer, FireBullet,
      Thread

(* What the data thread holds fits its place after every step. *)
LEMMA DataPlacesStep ==
  ASSUME TypeOK, MainPlaces, DataPlaces, Next
  PROVE  DataPlaces'
<1> USE SizesAssumption, FirstFreeSlot
   
    DEF SizesAssumption, TypeOK, MainPlaces, DataPlaces, Slot, Thread, NULL,
        Idle
<1>1. CASE GameStateMgrInit
  BY <1>1 DEF GameStateMgrInit, pointers, counters, history, atomics, mainVars, dataVars
<1>2. CASE Start
  BY <1>2 DEF Start, pointers, counters, history, atomics, mainVars, dataVars
<1>3. CASE Update
  BY <1>3 DEF Update, pointers, counters, history, atomics, mainVars, dataVars
<1>4. CASE Offline
  BY <1>4 DEF Offline, pointers, counters, history, atomics, mainVars, dataVars
<1>5. CASE Disconnect
  BY <1>5 DEF Disconnect, pointers, counters, history, atomics, mainVars, dataVars
<1>6. CASE Wait
  BY <1>6 DEF Wait, pointers, counters, history, atomics, mainVars, dataVars
<1>7. CASE Resize
  BY <1>7 DEF Resize, ResizeTo, pointers, counters, history, atomics, mainVars, dataVars
<1>8. CASE FindPlayer
  BY <1>8
  DEF FindPlayer, FindInstance, pointers, counters, history, atomics, mainVars, dataVars
<1>9. CASE AddPlayer
  BY <1>9
  DEF AddPlayer, SetFlag, pointers, counters, history, atomics, mainVars, dataVars
<1>10. CASE FindSpawned
  BY <1>10
  DEF FindSpawned, FindInstance, pointers, counters, history, atomics, mainVars,
      dataVars
<1>11. CASE Spawn
  BY <1>11
  DEF Spawn, SetFlag, pointers, counters, history, atomics, mainVars, dataVars
<1>12. CASE Fire
  BY <1>12
  DEF Fire, FindInstance, pointers, counters, history, atomics, mainVars, dataVars
<1>13. CASE FillBullet
  BY <1>13
  DEF FillBullet, SetFlag, pointers, counters, history, atomics, mainVars, dataVars
<1>14. CASE AppendBullet
  BY <1>14 DEF AppendBullet, pointers, counters, history, atomics, mainVars, dataVars
<1>15. CASE Collide
  BY <1>15
  DEF Collide, CollideAsteroid, HitAsteroid, CollideLives, pointers, counters,
      atomics, mainVars, dataVars
<1>16. ASSUME NEW bullets \in SUBSET Active("bullet"), Bounds(bullets) PROVE DataPlaces'
  BY <1>16
  DEF Bounds, LeaveBounds, pointers, counters, history, atomics, mainVars, dataVars
<1>17. CASE Draw
  BY <1>17 DEF Draw, pointers, counters, history, atomics, mainVars, dataVars
<1>18. CASE Quit
  BY <1>18 DEF Quit, Freed, pointers, counters, history, atomics, mainVars, dataVars
<1>19. CASE Connect
  BY <1>19 DEF Connect, pointers, counters, history, atomics, mainVars, dataVars
<1>20. CASE SendPlayers
  BY <1>20 DEF SendPlayers, pointers, counters, history, atomics, mainVars, dataVars
<1>21. CASE Timeout
  BY <1>21 DEF Timeout, pointers, counters, history, atomics, mainVars, dataVars
<1>22. CASE ReceivePlayers
  BY <1>22 DEF ReceivePlayers, pointers, counters, history, atomics, mainVars, dataVars
<1>23. CASE ReceiveRow
  BY <1>23 DEF ReceiveRow, pointers, counters, history, atomics, mainVars, dataVars
<1>24. CASE FindShot
  BY <1>24
  DEF FindShot, FindInstance, pointers, counters, history, atomics, mainVars, dataVars
<1>25. CASE FillShot
  BY <1>25
  DEF FillShot, SetFlag, pointers, counters, history, atomics, mainVars, dataVars
<1>26. CASE AppendShot
  BY <1>26 DEF AppendShot, pointers, counters, history, atomics, mainVars, dataVars
<1>27. ASSUME NEW t \in Thread, SetObject(t) PROVE DataPlaces'
  BY <1>27
  DEF SetObject, pointers, counters, history, atomics, mainVars, dataVars
<1>28. QED
  BY <1>1, <1>2, <1>3, <1>4, <1>5, <1>6, <1>7, <1>8, <1>9, <1>10, <1>11,
     <1>12, <1>13, <1>14, <1>15, <1>16, <1>17, <1>18, <1>19, <1>20, <1>21,
     <1>22, <1>23, <1>24, <1>25, <1>26, <1>27
  DEF Next, MainThread, DataThread, InitMultiPlayer, FireBullet,
      Thread

(* Until Start nothing is created and nothing is fired. *)
LEMMA EarlyStep ==
  ASSUME TypeOK, Early, MainPlaces, DataPlaces, Next
  PROVE  Early'
<1> USE SizesAssumption
    DEF TypeOK, Early, MainPlaces, DataPlaces
<1>1. CASE GameStateMgrInit
  BY <1>1 DEF GameStateMgrInit, pointers, counters, history, atomics, mainVars, dataVars
<1>2. CASE Start
  BY <1>2 DEF Start, pointers, counters, history, atomics, mainVars, dataVars
<1>3. CASE Update
  BY <1>3 DEF Update, pointers, counters, history, atomics, mainVars, dataVars
<1>4. CASE Offline
  BY <1>4 DEF Offline, pointers, counters, history, atomics, mainVars, dataVars
<1>5. CASE Disconnect
  BY <1>5 DEF Disconnect, pointers, counters, history, atomics, mainVars, dataVars
<1>6. CASE Wait
  BY <1>6 DEF Wait, pointers, counters, history, atomics, mainVars, dataVars
<1>7. CASE Resize
  BY <1>7 DEF Resize, ResizeTo, pointers, counters, history, atomics, mainVars, dataVars
<1>8. CASE FindPlayer
  BY <1>8
  DEF FindPlayer, FindInstance, pointers, counters, history, atomics, mainVars, dataVars
<1>9. CASE AddPlayer
  BY <1>9
  DEF AddPlayer, SetFlag, pointers, counters, history, atomics, mainVars, dataVars
<1>10. CASE FindSpawned
  BY <1>10
  DEF FindSpawned, FindInstance, pointers, counters, history, atomics, mainVars,
      dataVars
<1>11. CASE Spawn
  BY <1>11
  DEF Spawn, SetFlag, pointers, counters, history, atomics, mainVars, dataVars
<1>12. CASE Fire
  BY <1>12
  DEF Fire, FindInstance, pointers, counters, history, atomics, mainVars, dataVars
<1>13. CASE FillBullet
  BY <1>13
  DEF FillBullet, SetFlag, pointers, counters, history, atomics, mainVars, dataVars
<1>14. CASE AppendBullet
  BY <1>14 DEF AppendBullet, pointers, counters, history, atomics, mainVars, dataVars
<1>15. CASE Collide
  BY <1>15
  DEF Collide, CollideAsteroid, HitAsteroid, CollideLives, pointers, counters,
      atomics, mainVars, dataVars
<1>16. ASSUME NEW bullets \in SUBSET Active("bullet"), Bounds(bullets) PROVE Early'
  BY <1>16
  DEF Bounds, LeaveBounds, pointers, counters, history, atomics, mainVars, dataVars
<1>17. CASE Draw
  BY <1>17 DEF Draw, pointers, counters, history, atomics, mainVars, dataVars
<1>18. CASE Quit
  BY <1>18 DEF Quit, Freed, pointers, counters, history, atomics, mainVars, dataVars
<1>19. CASE Connect
  BY <1>19 DEF Connect, pointers, counters, history, atomics, mainVars, dataVars
<1>20. CASE SendPlayers
  BY <1>20 DEF SendPlayers, pointers, counters, history, atomics, mainVars, dataVars
<1>21. CASE Timeout
  BY <1>21 DEF Timeout, pointers, counters, history, atomics, mainVars, dataVars
<1>22. CASE ReceivePlayers
  BY <1>22 DEF ReceivePlayers, pointers, counters, history, atomics, mainVars, dataVars
<1>23. CASE ReceiveRow
  BY <1>23 DEF ReceiveRow, pointers, counters, history, atomics, mainVars, dataVars
<1>24. CASE FindShot
  BY <1>24
  DEF FindShot, FindInstance, pointers, counters, history, atomics, mainVars, dataVars
<1>25. CASE FillShot
  BY <1>25
  DEF FillShot, SetFlag, pointers, counters, history, atomics, mainVars, dataVars
<1>26. CASE AppendShot
  BY <1>26 DEF AppendShot, pointers, counters, history, atomics, mainVars, dataVars
<1>27. ASSUME NEW t \in Thread, SetObject(t) PROVE Early'
  BY <1>27
  DEF SetObject, pointers, counters, history, atomics, mainVars, dataVars
<1>28. QED
  BY <1>1, <1>2, <1>3, <1>4, <1>5, <1>6, <1>7, <1>8, <1>9, <1>10, <1>11,
     <1>12, <1>13, <1>14, <1>15, <1>16, <1>17, <1>18, <1>19, <1>20, <1>21,
     <1>22, <1>23, <1>24, <1>25, <1>26, <1>27
  DEF Next, MainThread, DataThread, InitMultiPlayer, FireBullet,
      Thread

(* onValueChange says whether the values on the screen are the current     *)
(* ones.                                                                   *)
LEMMA ShownStep ==
  ASSUME TypeOK, ShownInv, Early, Next
  PROVE  ShownInv'
<1> USE SizesAssumption
    DEF TypeOK, ShownInv, Early, Unprinted
<1>1. CASE GameStateMgrInit
  BY <1>1 DEF GameStateMgrInit, pointers, counters, history, atomics, mainVars, dataVars
<1>2. CASE Start
  BY <1>2 DEF Start, pointers, counters, history, atomics, mainVars, dataVars
<1>3. CASE Update
  BY <1>3 DEF Update, pointers, counters, history, atomics, mainVars, dataVars
<1>4. CASE Offline
  BY <1>4 DEF Offline, pointers, counters, history, atomics, mainVars, dataVars
<1>5. CASE Disconnect
  BY <1>5 DEF Disconnect, pointers, counters, history, atomics, mainVars, dataVars
<1>6. CASE Wait
  BY <1>6 DEF Wait, pointers, counters, history, atomics, mainVars, dataVars
<1>7. CASE Resize
  BY <1>7 DEF Resize, ResizeTo, pointers, counters, history, atomics, mainVars, dataVars
<1>8. CASE FindPlayer
  BY <1>8
  DEF FindPlayer, FindInstance, pointers, counters, history, atomics, mainVars, dataVars
<1>9. CASE AddPlayer
  BY <1>9
  DEF AddPlayer, SetFlag, pointers, counters, history, atomics, mainVars, dataVars
<1>10. CASE FindSpawned
  BY <1>10
  DEF FindSpawned, FindInstance, pointers, counters, history, atomics, mainVars,
      dataVars
<1>11. CASE Spawn
  BY <1>11
  DEF Spawn, SetFlag, pointers, counters, history, atomics, mainVars, dataVars
<1>12. CASE Fire
  BY <1>12
  DEF Fire, FindInstance, pointers, counters, history, atomics, mainVars, dataVars
<1>13. CASE FillBullet
  BY <1>13
  DEF FillBullet, SetFlag, pointers, counters, history, atomics, mainVars, dataVars
<1>14. CASE AppendBullet
  BY <1>14 DEF AppendBullet, pointers, counters, history, atomics, mainVars, dataVars
<1>15. CASE Collide
  BY <1>15
  DEF Collide, CollideAsteroid, HitAsteroid, CollideLives, pointers, counters,
      atomics, mainVars, dataVars
<1>16. ASSUME NEW bullets \in SUBSET Active("bullet"), Bounds(bullets) PROVE ShownInv'
  BY <1>16
  DEF Bounds, LeaveBounds, pointers, counters, history, atomics, mainVars, dataVars
<1>17. CASE Draw
  BY <1>17 DEF Draw, pointers, counters, history, atomics, mainVars, dataVars
<1>18. CASE Quit
  BY <1>18 DEF Quit, Freed, pointers, counters, history, atomics, mainVars, dataVars
<1>19. CASE Connect
  BY <1>19 DEF Connect, pointers, counters, history, atomics, mainVars, dataVars
<1>20. CASE SendPlayers
  BY <1>20 DEF SendPlayers, pointers, counters, history, atomics, mainVars, dataVars
<1>21. CASE Timeout
  BY <1>21 DEF Timeout, pointers, counters, history, atomics, mainVars, dataVars
<1>22. CASE ReceivePlayers
  BY <1>22 DEF ReceivePlayers, pointers, counters, history, atomics, mainVars, dataVars
<1>23. CASE ReceiveRow
  BY <1>23 DEF ReceiveRow, pointers, counters, history, atomics, mainVars, dataVars
<1>24. CASE FindShot
  BY <1>24
  DEF FindShot, FindInstance, pointers, counters, history, atomics, mainVars, dataVars
<1>25. CASE FillShot
  BY <1>25
  DEF FillShot, SetFlag, pointers, counters, history, atomics, mainVars, dataVars
<1>26. CASE AppendShot
  BY <1>26 DEF AppendShot, pointers, counters, history, atomics, mainVars, dataVars
<1>27. ASSUME NEW t \in Thread, SetObject(t) PROVE ShownInv'
  BY <1>27
  DEF SetObject, pointers, counters, history, atomics, mainVars, dataVars
<1>28. QED
  BY <1>1, <1>2, <1>3, <1>4, <1>5, <1>6, <1>7, <1>8, <1>9, <1>10, <1>11,
     <1>12, <1>13, <1>14, <1>15, <1>16, <1>17, <1>18, <1>19, <1>20, <1>21,
     <1>22, <1>23, <1>24, <1>25, <1>26, <1>27
  DEF Next, MainThread, DataThread, InitMultiPlayer, FireBullet,
      Thread

(* No step takes the own ship, nor hands its slot to a thread. *)
LEMMA ShipStep ==
  ASSUME TypeOK, Early, MainPlaces, DataPlaces, ShipInv, Next
  PROVE  ShipInv'
<1> USE SizesAssumption, FirstFreeSlot
   
    DEF SizesAssumption, TypeOK, MainPlaces, DataPlaces, Early, ShipInv,
        Destroyed, Slot, Active, Thread, Type, NULL, Idle
<1>1. CASE GameStateMgrInit
  BY <1>1 DEF GameStateMgrInit, pointers, counters, history, atomics, mainVars, dataVars
<1>2. CASE Start
  <2>1. 1 \in Slot /\ inst[1] = "free" /\ found["main"] = Idle /\ found["data"] = Idle
    BY <1>2 DEF Start
  <2>2. FirstFree \in Slot
    BY <2>1
  <2>3. inst'[FirstFree] = "ship" /\ spShip' = FirstFree /\ found' = found
    BY <1>2, <2>2 DEF Start
  <2>4. \A t \in Thread : found[t] # FirstFree
    BY <2>1, <2>2
  <2>5. QED  BY <2>2, <2>3, <2>4
<1>3. CASE Update
  BY <1>3 DEF Update, pointers, counters, history, atomics, mainVars, dataVars
<1>4. CASE Offline
  BY <1>4 DEF Offline, pointers, counters, history, atomics, mainVars, dataVars
<1>5. CASE Disconnect
  BY <1>5 DEF Disconnect, pointers, counters, history, atomics, mainVars, dataVars
<1>6. CASE Wait
  BY <1>6 DEF Wait, pointers, counters, history, atomics, mainVars, dataVars
<1>7. CASE Resize
  BY <1>7 DEF Resize, ResizeTo, pointers, counters, history, atomics, mainVars, dataVars
<1>8. CASE FindPlayer
  BY <1>8
  DEF FindPlayer, FindInstance, pointers, counters, history, atomics, mainVars, dataVars
<1>9. CASE AddPlayer
  BY <1>9
  DEF AddPlayer, SetFlag, pointers, counters, history, atomics, mainVars, dataVars
<1>10. CASE FindSpawned
  BY <1>10
  DEF FindSpawned, FindInstance, pointers, counters, history, atomics, mainVars,
      dataVars
<1>11. CASE Spawn
  BY <1>11
  DEF Spawn, SetFlag, pointers, counters, history, atomics, mainVars, dataVars
<1>12. CASE Fire
  BY <1>12
  DEF Fire, FindInstance, pointers, counters, history, atomics, mainVars, dataVars
<1>13. CASE FillBullet
  BY <1>13
  DEF FillBullet, SetFlag, pointers, counters, history, atomics, mainVars, dataVars
<1>14. CASE AppendBullet
  BY <1>14 DEF AppendBullet, pointers, counters, history, atomics, mainVars, dataVars
<1>15. CASE Collide
  <2>1. inst'[spShip] = "ship"
    <3>1. spShip \in Slot /\ inst[spShip] = "ship"
      BY <1>15 DEF Collide
    <3>2. ASSUME NEW ships, NEW bullets \in SUBSET Active("bullet"),
                 inst[at] = "asteroid", CollideAsteroid(ships, bullets)
          PROVE  inst'[spShip] = "ship"
      BY <3>1, <3>2 DEF CollideAsteroid, HitAsteroid
    <3>3. ASSUME NEW ships, inst[at] = "lives", CollideLives(ships)
          PROVE  inst'[spShip] = "ship"
      BY <3>1, <3>3 DEF CollideLives
    <3>4. QED  BY <1>15, <3>1, <3>2, <3>3 DEF Collide
  <2>2. UNCHANGED <<spShip, found>> /\ main \notin {"manager", "start"}
    BY <1>15 DEF Collide
  <2>3. QED  BY <2>1, <2>2
<1>16. ASSUME NEW bullets \in SUBSET Active("bullet"), Bounds(bullets) PROVE ShipInv'
  BY <1>16
  DEF Bounds, LeaveBounds, pointers, counters, history, atomics, mainVars, dataVars
<1>17. CASE Draw
  BY <1>17 DEF Draw, pointers, counters, history, atomics, mainVars, dataVars
<1>18. CASE Quit
  BY <1>18 DEF Quit, Freed, pointers, counters, history, atomics, mainVars, dataVars
<1>19. CASE Connect
  BY <1>19 DEF Connect, pointers, counters, history, atomics, mainVars, dataVars
<1>20. CASE SendPlayers
  BY <1>20 DEF SendPlayers, pointers, counters, history, atomics, mainVars, dataVars
<1>21. CASE Timeout
  BY <1>21 DEF Timeout, pointers, counters, history, atomics, mainVars, dataVars
<1>22. CASE ReceivePlayers
  BY <1>22 DEF ReceivePlayers, pointers, counters, history, atomics, mainVars, dataVars
<1>23. CASE ReceiveRow
  BY <1>23 DEF ReceiveRow, pointers, counters, history, atomics, mainVars, dataVars
<1>24. CASE FindShot
  BY <1>24
  DEF FindShot, FindInstance, pointers, counters, history, atomics, mainVars, dataVars
<1>25. CASE FillShot
  BY <1>25
  DEF FillShot, SetFlag, pointers, counters, history, atomics, mainVars, dataVars
<1>26. CASE AppendShot
  BY <1>26 DEF AppendShot, pointers, counters, history, atomics, mainVars, dataVars
<1>27. ASSUME NEW t \in Thread, SetObject(t) PROVE ShipInv'
  BY <1>27
  DEF SetObject, pointers, counters, history, atomics, mainVars, dataVars
<1>28. QED
  BY <1>1, <1>2, <1>3, <1>4, <1>5, <1>6, <1>7, <1>8, <1>9, <1>10, <1>11,
     <1>12, <1>13, <1>14, <1>15, <1>16, <1>17, <1>18, <1>19, <1>20, <1>21,
     <1>22, <1>23, <1>24, <1>25, <1>26, <1>27
  DEF Next, MainThread, DataThread, InitMultiPlayer, FireBullet,
      Thread

(* The arithmetic of one step.                                             *)
LEMMA ListedSum ==
  ASSUME NEW l \in Nat, NEW m \in Nat, NEW d \in Nat, NEW f \in Nat, l + m + d <= f,
         NEW l1 \in Nat, NEW m1 \in Nat, NEW d1 \in Nat, NEW f1 \in Nat
  PROVE  /\ l1 <= l + 1 /\ m = m1 + 1 /\ d1 = d /\ f1 = f => l1 + m1 + d1 <= f1
         /\ l1 <= l + 1 /\ d = d1 + 1 /\ m1 = m /\ f1 = f => l1 + m1 + d1 <= f1
         /\ l1 <= l /\ m1 <= m + 1 /\ d1 = d /\ f1 = f + 1 => l1 + m1 + d1 <= f1
         /\ l1 <= l /\ d1 <= d + 1 /\ m1 = m /\ f1 = f + 1 => l1 + m1 + d1 <= f1
         /\ l1 <= l /\ m1 = m /\ d1 = d /\ f1 = f => l1 + m1 + d1 <= f1
  OBVIOUS

(* Every pointer in bullet_list stands for a shot that was fired. *)
LEMMA ListedStep ==
  ASSUME TypeOK, Early, MainPlaces, DataPlaces, Listed, Next
  PROVE  Listed'
<1> DEFINE l == Len(bullet_list)
           m == Unappended("main")
           d == Unappended("data")
<1>0. /\ l \in Nat
      /\ m \in Nat
      /\ d \in Nat
      /\ fired \in Nat
      /\ l + m + d <= fired
      /\ m' \in Nat
      /\ d' \in Nat
  <2>1. m \in {0, 1} /\ d \in {0, 1} /\ m' \in {0, 1} /\ d' \in {0, 1}
    BY DEF Unappended
  <2>2. l \in Nat /\ fired \in Nat /\ l + m + d <= fired
    BY DEF TypeOK, Listed
  <2> HIDE DEF m, d
  <2>3. QED  BY <2>1, <2>2
<1>1. CASE GameStateMgrInit
  BY <1>1
  DEF GameStateMgrInit, pointers, counters, history, atomics, mainVars, dataVars,
      TypeOK, MainPlaces, DataPlaces, Listed, Unappended, Thread, Idle
<1>2. CASE Start
  BY <1>2
  DEF Start, pointers, counters, history, atomics, mainVars, dataVars, TypeOK,
      MainPlaces, DataPlaces, Listed, Unappended, Thread, Idle
<1>3. CASE Update
  BY <1>3
  DEF Update, pointers, counters, history, atomics, mainVars, dataVars, TypeOK,
      MainPlaces, DataPlaces, Listed, Unappended, Thread, Idle
<1>4. CASE Offline
  BY <1>4
  DEF Offline, pointers, counters, history, atomics, mainVars, dataVars, TypeOK,
      MainPlaces, DataPlaces, Listed, Unappended, Thread, Idle
<1>5. CASE Disconnect
  BY <1>5
  DEF Disconnect, pointers, counters, history, atomics, mainVars, dataVars, TypeOK,
      MainPlaces, DataPlaces, Listed, Unappended, Thread, Idle
<1>6. CASE Wait
  BY <1>6
  DEF Wait, pointers, counters, history, atomics, mainVars, dataVars, TypeOK,
      MainPlaces, DataPlaces, Listed, Unappended, Thread, Idle
<1>7. CASE Resize
  BY <1>7
  DEF Resize, ResizeTo, pointers, counters, history, atomics, mainVars, dataVars,
      TypeOK, MainPlaces, DataPlaces, Listed, Unappended, Thread, Idle
<1>8. CASE FindPlayer
  BY <1>8
  DEF FindPlayer, FindInstance, pointers, counters, history, atomics, mainVars,
      dataVars, TypeOK, MainPlaces, DataPlaces, Listed, Unappended, Thread,
      Idle
<1>9. CASE AddPlayer
  BY <1>9
  DEF AddPlayer, SetFlag, pointers, counters, history, atomics, mainVars, dataVars,
      TypeOK, MainPlaces, DataPlaces, Listed, Unappended, Thread, Idle
<1>10. CASE FindSpawned
  BY <1>10
  DEF FindSpawned, FindInstance, pointers, counters, history, atomics, mainVars,
      dataVars, TypeOK, MainPlaces, DataPlaces, Listed, Unappended, Thread,
      Idle
<1>11. CASE Spawn
  BY <1>11
  DEF Spawn, SetFlag, pointers, counters, history, atomics, mainVars, dataVars,
      TypeOK, MainPlaces, DataPlaces, Listed, Unappended, Thread, Idle
<1>12. CASE Fire
  <2>1. d' = d /\ l' = l
    <3>1. bullet_list' = bullet_list
      BY <1>12 DEF Fire, pointers
    <3>2. data' = data /\ found'["data"] = found["data"]
      BY <1>12 DEF Fire, dataVars, FindInstance, TypeOK, Thread
    <3>3. QED  BY <3>1, <3>2 DEF Unappended
  <2>2. m = 0
    BY <1>12
    DEF Fire, TypeOK, MainPlaces, DataPlaces, Listed, Unappended, Thread, Idle
  <2>3. (m' = m /\ fired' = fired) \/ (m' <= m + 1 /\ fired' = fired + 1)
    BY <1>12
    DEF Fire, pointers, counters, history, atomics, mainVars, dataVars, TypeOK,
        MainPlaces, DataPlaces, Listed, Unappended, Thread, Idle
  <2>4. l' \in Nat /\ fired' \in Nat /\ (l' = l => l' <= l)
    BY <1>0, <2>1, <2>2, <2>3
  <2>5. l' + m' + d' <= fired'
    <3> HIDE DEF l, m, d
    <3>1. QED  BY <1>0, <2>1, <2>2, <2>3, <2>4, ListedSum
  <2>6. QED  BY <2>5 DEF Listed
<1>13. CASE FillBullet
  BY <1>13
  DEF FillBullet, SetFlag, pointers, counters, history, atomics, mainVars,
      dataVars, TypeOK, MainPlaces, DataPlaces, Listed, Unappended, Thread,
      Idle
<1>14. CASE AppendBullet
  <2>1. d' = d /\ fired' = fired
    BY <1>14
    DEF AppendBullet, pointers, counters, history, atomics, mainVars, dataVars, TypeOK,
        MainPlaces, DataPlaces, Listed, Unappended, Thread, Idle
  <2>2. m = m' + 1
    BY <1>14
    DEF AppendBullet, pointers, counters, history, atomics, mainVars, dataVars, TypeOK,
        MainPlaces, DataPlaces, Listed, Unappended, Thread, Idle
  <2>3. l' <= l + 1 /\ l' \in Nat
    BY <1>14
    DEF AppendBullet, UpdateBullets, TypeOK, MainPlaces, DataPlaces, Listed,
        Unappended, Thread, Idle
  <2>4. l' \in Nat /\ fired' \in Nat /\ (l' = l => l' <= l)
    BY <1>0, <2>1, <2>2, <2>3
  <2>5. l' + m' + d' <= fired'
    <3> HIDE DEF l, m, d
    <3>1. QED  BY <1>0, <2>1, <2>2, <2>3, <2>4, ListedSum
  <2>6. QED  BY <2>5 DEF Listed
<1>15. CASE Collide
  <2>1. d' = d /\ fired' = fired
    BY <1>15
    DEF Collide, pointers, counters, history, atomics, mainVars, dataVars, TypeOK,
        MainPlaces, DataPlaces, Listed, Unappended, Thread, Idle
  <2>2. m' = m
    BY <1>15
    DEF Collide, pointers, counters, history, atomics, mainVars, dataVars, TypeOK,
        MainPlaces, DataPlaces, Listed, Unappended, Thread, Idle
  <2>3. l' <= l /\ l' \in Nat
    BY <1>15, CollideTypes
  <2>4. l' \in Nat /\ fired' \in Nat /\ (l' = l => l' <= l)
    BY <1>0, <2>1, <2>2, <2>3
  <2>5. l' + m' + d' <= fired'
    <3> HIDE DEF l, m, d
    <3>1. QED  BY <1>0, <2>1, <2>2, <2>3, <2>4, ListedSum
  <2>6. QED  BY <2>5 DEF Listed
<1>16. ASSUME NEW bullets \in SUBSET Active("bullet"), Bounds(bullets) PROVE Listed'
  <2>1. d' = d /\ fired' = fired
    BY <1>16
    DEF Bounds, LeaveBounds, pointers, counters, history, atomics, mainVars, dataVars,
        TypeOK, MainPlaces, DataPlaces, Listed, Unappended, Thread, Idle
  <2>2. m' = m
    BY <1>16
    DEF Bounds, LeaveBounds, pointers, counters, history, atomics, mainVars, dataVars,
        TypeOK, MainPlaces, DataPlaces, Listed, Unappended, Thread, Idle
  <2>3. l' <= l /\ l' \in Nat
    BY <1>16, UnlistedShorter
    DEF Bounds, LeaveBounds, UpdateBullets, TypeOK, MainPlaces, DataPlaces,
        Listed, Unappended, Thread, Idle
  <2>4. l' \in Nat /\ fired' \in Nat /\ (l' = l => l' <= l)
    BY <1>0, <2>1, <2>2, <2>3
  <2>5. l' + m' + d' <= fired'
    <3> HIDE DEF l, m, d
    <3>1. QED  BY <1>0, <2>1, <2>2, <2>3, <2>4, ListedSum
  <2>6. QED  BY <2>5 DEF Listed
<1>17. CASE Draw
  BY <1>17
  DEF Draw, pointers, counters, history, atomics, mainVars, dataVars, TypeOK,
      MainPlaces, DataPlaces, Listed, Unappended, Thread, Idle
<1>18. CASE Quit
  BY <1>18
  DEF Quit, Freed, pointers, counters, history, atomics, mainVars, dataVars, TypeOK,
      MainPlaces, DataPlaces, Listed, Unappended, Thread, Idle
<1>19. CASE Connect
  BY <1>19
  DEF Connect, pointers, counters, history, atomics, mainVars, dataVars, TypeOK,
      MainPlaces, DataPlaces, Listed, Unappended, Thread, Idle
<1>20. CASE SendPlayers
  BY <1>20
  DEF SendPlayers, pointers, counters, history, atomics, mainVars, dataVars, TypeOK,
      MainPlaces, DataPlaces, Listed, Unappended, Thread, Idle
<1>21. CASE Timeout
  BY <1>21
  DEF Timeout, pointers, counters, history, atomics, mainVars, dataVars, TypeOK,
      MainPlaces, DataPlaces, Listed, Unappended, Thread, Idle
<1>22. CASE ReceivePlayers
  BY <1>22
  DEF ReceivePlayers, pointers, counters, history, atomics, mainVars, dataVars, TypeOK,
      MainPlaces, DataPlaces, Listed, Unappended, Thread, Idle
<1>23. CASE ReceiveRow
  BY <1>23
  DEF ReceiveRow, pointers, counters, history, atomics, mainVars, dataVars, TypeOK,
      MainPlaces, DataPlaces, Listed, Unappended, Thread, Idle
<1>24. CASE FindShot
  <2>1. m' = m /\ l' = l
    <3>1. bullet_list' = bullet_list
      BY <1>24 DEF FindShot, pointers
    <3>2. main = main' /\ found'["main"] = found["main"]
      BY <1>24 DEF FindShot, mainVars, FindInstance, TypeOK, Thread
    <3>3. QED  BY <3>1, <3>2 DEF Unappended
  <2>2. d = 0
    BY <1>24
    DEF FindShot, TypeOK, MainPlaces, DataPlaces, Listed, Unappended, Thread,
        Idle
  <2>3. (d' = d /\ fired' = fired) \/ (d' <= d + 1 /\ fired' = fired + 1)
    BY <1>24
    DEF FindShot, pointers, counters, history, atomics, mainVars, dataVars, TypeOK,
        MainPlaces, DataPlaces, Listed, Unappended, Thread, Idle
  <2>4. l' \in Nat /\ fired' \in Nat /\ (l' = l => l' <= l)
    BY <1>0, <2>1, <2>2, <2>3
  <2>5. l' + m' + d' <= fired'
    <3> HIDE DEF l, m, d
    <3>1. QED  BY <1>0, <2>1, <2>2, <2>3, <2>4, ListedSum
  <2>6. QED  BY <2>5 DEF Listed
<1>25. CASE FillShot
  BY <1>25
  DEF FillShot, SetFlag, pointers, counters, history, atomics, mainVars, dataVars,
      TypeOK, MainPlaces, DataPlaces, Listed, Unappended, Thread, Idle
<1>26. CASE AppendShot
  <2>1. m' = m /\ fired' = fired
    BY <1>26
    DEF AppendShot, pointers, counters, history, atomics, mainVars, dataVars, TypeOK,
        MainPlaces, DataPlaces, Listed, Unappended, Thread, Idle
  <2>2. d = d' + 1
    BY <1>26
    DEF AppendShot, pointers, counters, history, atomics, mainVars, dataVars, TypeOK,
        MainPlaces, DataPlaces, Listed, Unappended, Thread, Idle
  <2>3. l' <= l + 1 /\ l' \in Nat
    BY <1>26
    DEF AppendShot, UpdateBullets, TypeOK, MainPlaces, DataPlaces, Listed,
        Unappended, Thread, Idle
  <2>4. l' \in Nat /\ fired' \in Nat /\ (l' = l => l' <= l)
    BY <1>0, <2>1, <2>2, <2>3
  <2>5. l' + m' + d' <= fired'
    <3> HIDE DEF l, m, d
    <3>1. QED  BY <1>0, <2>1, <2>2, <2>3, <2>4, ListedSum
  <2>6. QED  BY <2>5 DEF Listed
<1>27. ASSUME NEW t \in Thread, SetObject(t) PROVE Listed'
  BY <1>27
  DEF SetObject, pointers, counters, history, atomics, mainVars, dataVars,
      Listed, Unappended
<1>28. QED
  BY <1>1, <1>2, <1>3, <1>4, <1>5, <1>6, <1>7, <1>8, <1>9, <1>10, <1>11,
     <1>12, <1>13, <1>14, <1>15, <1>16, <1>17, <1>18, <1>19, <1>20, <1>21,
     <1>22, <1>23, <1>24, <1>25, <1>26, <1>27
  DEF Next, MainThread, DataThread, InitMultiPlayer, FireBullet,
      Thread

(* What a thread has written stays on its way until the flag is set.       *)
LEMMA WrittenStep ==
  ASSUME TypeOK, MainPlaces, DataPlaces, Written, Next
  PROVE  Written'
<1> USE SizesAssumption
    DEF SizesAssumption, TypeOK, Written, Slot, Thread, NULL, Idle
<1>1. ASSUME UNCHANGED <<found, pObject>>, main' # "append" \/ main' = main,
             data' # "append" \/ data' = data
      PROVE  Written'
  BY <1>1
<1>2. CASE \/ GameStateMgrInit \/ Start \/ Update \/ Offline \/ Disconnect \/ Wait
           \/ Resize \/ Collide \/ Draw \/ Quit \/ Connect \/ SendPlayers
           \/ Timeout \/ ReceivePlayers \/ ReceiveRow
  <2>1. UNCHANGED <<found, pObject>> /\ (main' # "append" \/ main' = main)
        /\ (data' # "append" \/ data' = data)
    BY <1>2
    DEF GameStateMgrInit, Start, Update, Offline, Disconnect, Wait, Resize,
        ResizeTo, Collide, Draw, Quit, Connect, SendPlayers, Timeout,
        ReceivePlayers, ReceiveRow, mainVars, dataVars
  <2>2. QED  BY <1>1, <2>1
<1>3. ASSUME NEW bullets \in SUBSET Active("bullet"), Bounds(bullets) PROVE Written'
  BY <1>3, <1>1 DEF Bounds, LeaveBounds, dataVars
<1>4. CASE FindPlayer \/ FindSpawned \/ Fire
  <2>1. /\ found["main"] = Idle /\ UNCHANGED <<pObject, data>> /\ main' # "append"
        /\ found'["data"] = found["data"]
    BY <1>4 DEF FindPlayer, FindSpawned, Fire, FindInstance, mainVars, dataVars
  <2>2. QED  BY <2>1
<1>5. CASE AddPlayer \/ Spawn \/ FillBullet
  <2>1. /\ UNCHANGED data /\ found'["data"] = found["data"]
        /\ pObject' = [pObject EXCEPT !["main"] = Unwritten]
    BY <1>5 DEF AddPlayer, Spawn, FillBullet, SetFlag, dataVars
  <2>2. QED  BY <2>1
<1>6. CASE AppendBullet
  <2>1. /\ UNCHANGED <<pObject, data>> /\ found'["data"] = found["data"]
        /\ pObject["main"] = Unwritten
    BY <1>6 DEF AppendBullet, dataVars
  <2>2. QED  BY <2>1
<1>7. CASE FindShot
  <2>1. /\ found["data"] = Idle /\ UNCHANGED <<pObject, main>> /\ data' # "append"
        /\ found'["main"] = found["main"]
    BY <1>7 DEF FindShot, FindInstance, mainVars
  <2>2. QED  BY <2>1
<1>8. CASE FillShot
  <2>1. UNCHANGED <<main, found>> /\ pObject' = [pObject EXCEPT !["data"] = Unwritten]
    BY <1>8 DEF FillShot, SetFlag, mainVars
  <2>2. QED  BY <2>1
<1>9. CASE AppendShot
  <2>1. /\ UNCHANGED <<pObject, main>> /\ found'["main"] = found["main"]
        /\ pObject["data"] = Unwritten /\ data' # "append"
    BY <1>9 DEF AppendShot, mainVars
  <2>2. QED  BY <2>1
<1>10. ASSUME NEW t \in Thread, SetObject(t) PROVE Written'
  <2>1. UNCHANGED <<main, data, found>> /\ found[t] \in Slot
    BY <1>10 DEF SetObject, mainVars, dataVars
  <2>2. \A u \in Thread : u # t /\ pObject[u] = Unwritten => pObject'[u] = Unwritten
    BY <1>10 DEF SetObject
  <2>3. (t = "main" /\ main # "append") \/ (t = "data" /\ data # "append")
    <3>1. t = "main" \/ t = "data"
      OBVIOUS
    <3>2. (IF t = "main" THEN main ELSE data) # "append"
      BY <1>10 DEF SetObject
    <3>3. QED  BY <3>1, <3>2
  <2>4. \A u \in Thread : pObject'[u] # Unwritten => u = t \/ pObject[u] # Unwritten
    BY <2>2
  <2>5. QED  BY <2>1, <2>2, <2>3, <2>4
<1>11. QED
  BY <1>2, <1>3, <1>4, <1>5, <1>6, <1>7, <1>8, <1>9, <1>10
  DEF Next, MainThread, DataThread, InitMultiPlayer, FireBullet

(* Bullets that one step takes out of the pool. *)
LEMMA BulletsLess ==
  ASSUME NEW S, S \subseteq Bullets
  PROVE  /\ Cardinality(S) \in Nat
         /\ Cardinality(S) <= Cardinality(Bullets)
<1>1. Bullets \in SUBSET Slot
  BY DEF Bullets, Active, Coming
<1>2. IsFiniteSet(Bullets)
  BY <1>1, SlotsFinite
<1>3. QED
  BY <1>2, FS_Subset, FS_CardinalityType

(* A bullet that one step puts into it. *)
LEMMA BulletsMore ==
  ASSUME NEW S, NEW x, S \subseteq Bullets \cup {x}
  PROVE  /\ Cardinality(S) \in Nat
         /\ Cardinality(S) <= Cardinality(Bullets) + 1
<1>1. Bullets \in SUBSET Slot
  BY DEF Bullets, Active, Coming
<1> DEFINE A == Bullets
<1>2. IsFiniteSet(A) /\ Cardinality(A) \in Nat
  BY <1>1, SlotsFinite
<1>3. /\ IsFiniteSet(A \cup {x})
      /\ Cardinality(A \cup {x}) \in Nat
      /\ Cardinality(A \cup {x}) <= Cardinality(A) + 1
  <2> HIDE DEF A
  <2>1. IsFiniteSet(A \cup {x})
        /\ Cardinality(A \cup {x}) = IF x \in A THEN Cardinality(A) ELSE Cardinality(A) + 1
    BY <1>2, FS_AddElement
  <2>2. QED  BY <1>2, <2>1
<1>4. IsFiniteSet(S) /\ Cardinality(S) <= Cardinality(Bullets \cup {x})
  BY <1>3, FS_Subset
<1>5. Cardinality(S) \in Nat
  BY <1>4, FS_CardinalityType
<1>6. QED
  BY <1>2, <1>3, <1>4, <1>5

(* Bullets that the collisions of one step use up. *)
LEMMA BulletsHit ==
  ASSUME NEW bullets \in SUBSET Bullets, NEW S, S = Bullets \ bullets
  PROVE  /\ Cardinality(S) \in Nat /\ Cardinality(bullets) \in Nat
         /\ Cardinality(Bullets) = Cardinality(S) + Cardinality(bullets)
<1>1. /\ Bullets \in SUBSET Slot
      /\ bullets \in SUBSET Slot
      /\ S \in SUBSET Slot
  BY DEF Bullets, Active, Coming
<1>2. /\ IsFiniteSet(Bullets) /\ Cardinality(Bullets) \in Nat
      /\ IsFiniteSet(bullets) /\ Cardinality(bullets) \in Nat
      /\ IsFiniteSet(S) /\ Cardinality(S) \in Nat
  BY <1>1, SlotsFinite
<1>3. Bullets \cap bullets = bullets
  OBVIOUS
<1>4. Cardinality(S) = Cardinality(Bullets) - Cardinality(bullets)
  BY <1>2, <1>3, FS_Difference
<1>5. QED
  BY <1>2, <1>4

(* The sum of EarnedInv is one of natural numbers. *)
LEMMA SumTypes ==
  ASSUME TypeOK
  PROVE  /\ sScore \in Nat /\ Cardinality(Bullets) \in Nat
         /\ Unfilled \in Nat /\ Shots \in Nat
<1>1. sScore \in Nat /\ fired \in Nat /\ Len(mixed) \in Nat
  BY DEF TypeOK
<1>2. Cardinality(Bullets) \in Nat
  BY BulletsLess
<1>3. Shots \in Nat
  <2> DEFINE n == Len(mixed)
  <2>1. n \in Nat
    BY <1>1
  <2> HIDE DEF n
  <2>2. fired + n \in Nat
    BY <1>1, <2>1
  <2>3. QED  BY <2>2 DEF Shots, n
<1>4. QED
  BY <1>1, <1>2, <1>3 DEF Unfilled

(* The sum, as the steps change it: the bullets b that are new in the pool *)
(* are paid for by a shot, or by the one that data fills in.               *)
LEMMA SumStep ==
  ASSUME TypeOK, TypeOK', EarnedInv, sScore' = sScore,
         \/ Bullets' \subseteq Bullets /\ Unfilled' = Unfilled /\ Shots' = Shots
         \/ Bullets' \subseteq Bullets /\ Unfilled' <= Unfilled + 1 /\ Shots' = Shots + 1
         \/ \E x : /\ Bullets' \subseteq Bullets \cup {x}
                   /\ \/ Unfilled' = Unfilled /\ Shots' = Shots + 1
                      \/ Unfilled = Unfilled' + 1 /\ Shots' = Shots
  PROVE  EarnedInv'
<1> DEFINE s == sScore
           c == Cardinality(Bullets)
           u == Unfilled
           f == Shots
           c1 == Cardinality(Bullets')
           u1 == Unfilled'
           f1 == Shots'
<1>1. s \in Nat /\ c \in Nat /\ u \in Nat /\ f \in Nat
  BY SumTypes
<1>2. s + c + u <= f
  BY DEF EarnedInv
<1>3. u1 \in Nat
  BY DEF Unfilled
<1>4. SUFFICES s + c1 + u1 <= f1
  BY DEF EarnedInv
<1>5. CASE Bullets' \subseteq Bullets /\ Unfilled' <= Unfilled + 1 /\ Shots' = Shots + 1
  <2>1. c1 \in Nat /\ c1 <= c /\ u1 <= u + 1 /\ f1 = f + 1
    BY <1>5, BulletsLess
  <2> HIDE DEF s, c, u, f, c1, u1, f1
  <2>2. QED  BY <1>1, <1>2, <1>3, <2>1
<1>6. CASE Bullets' \subseteq Bullets /\ Unfilled' = Unfilled /\ Shots' = Shots
  <2>1. c1 \in Nat /\ c1 <= c /\ u1 = u /\ f1 = f
    BY <1>6, BulletsLess
  <2> HIDE DEF s, c, u, f, c1, u1, f1
  <2>2. QED  BY <1>1, <1>2, <1>3, <2>1
<1>7. ASSUME NEW x, Bullets' \subseteq Bullets \cup {x},
             \/ Unfilled' = Unfilled /\ Shots' = Shots + 1
             \/ Unfilled = Unfilled' + 1 /\ Shots' = Shots
      PROVE  s + c1 + u1 <= f1
  <2>1. c1 \in Nat /\ c1 <= c + 1
    BY <1>7, BulletsMore
  <2>2. (u1 = u /\ f1 = f + 1) \/ (u = u1 + 1 /\ f1 = f)
    BY <1>7
  <2> HIDE DEF s, c, u, f, c1, u1, f1
  <2>3. QED  BY <1>1, <1>2, <1>3, <2>1, <2>2
<1>8. QED
  BY <1>5, <1>6, <1>7

(* Every point stands for a shot that is gone from the pool. *)
LEMMA EarnedStep ==
  ASSUME TypeOK, Early, MainPlaces, DataPlaces, Written, Listed, EarnedInv, Next
  PROVE  EarnedInv'
<1> DEFINE Same == UNCHANGED <<sScore, Bullets, Unfilled, Shots>>
           Fewer == /\ UNCHANGED <<sScore, Unfilled, Shots>>
                    /\ Bullets' \subseteq Bullets
<1>1. TypeOK'
  BY TypeStep
<1>2. ASSUME Same PROVE EarnedInv'
  BY <1>2 DEF EarnedInv
<1>3. ASSUME Fewer PROVE EarnedInv'
  BY <1>1, <1>3, SumStep
<1> HIDE DEF Same, Fewer
<1>4. CASE GameStateMgrInit \/ Update \/ Offline \/ Disconnect \/ Wait \/ Resize \/ Draw
  <2>1. UNCHANGED <<sScore, inst, pObject, found, data, fired, mixed>>
    BY <1>4
    DEF GameStateMgrInit, Update, Offline, Disconnect, Wait, Resize, ResizeTo,
        Draw, counters, history, dataVars
  <2>2. found["main"] = Idle
    BY <1>4
    DEF GameStateMgrInit, Update, Offline, Disconnect, Wait, Resize, ResizeTo,
        Draw, MainPlaces
  <2>3. Coming' = {} /\ Active("bullet")' = Active("bullet")
    BY <2>1, <2>2, SizesAssumption DEF Coming, Active, SizesAssumption, Slot, Idle
  <2>4. Fewer
    BY <2>1, <2>3 DEF Fewer, Bullets, Unfilled, Shots
  <2>5. QED  BY <2>4, <1>3
<1>5. CASE AppendBullet
  <2>1. UNCHANGED <<sScore, inst, pObject, data, fired, mixed>>
        /\ found'["data"] = found["data"] /\ found'["main"] = Idle
    BY <1>5
    DEF AppendBullet, counters, history, dataVars, TypeOK, Thread
  <2>2. Coming' = {} /\ Active("bullet")' = Active("bullet")
    BY <2>1, SizesAssumption DEF Coming, Active, SizesAssumption, Slot, Idle
  <2>3. Fewer
    BY <2>1, <2>2 DEF Fewer, Bullets, Unfilled, Shots
  <2>4. QED  BY <2>3, <1>3
<1>6. CASE Connect \/ SendPlayers \/ Timeout \/ ReceivePlayers \/ ReceiveRow
  <2>1. UNCHANGED <<sScore, inst, pObject, found, main, fired, mixed>>
    BY <1>6
    DEF Connect, SendPlayers, Timeout, ReceivePlayers, ReceiveRow, counters,
        history, mainVars
  <2>2. found["data"] = Idle \/ data' = data
    BY <1>6
    DEF Connect, SendPlayers, Timeout, ReceivePlayers, ReceiveRow, DataPlaces,
        dataVars
  <2>3. Unfilled' = Unfilled
    BY <2>1, <2>2 DEF Unfilled
  <2>4. Same
    BY <2>1, <2>3 DEF Same, Bullets, Active, Coming, Shots
  <2>5. QED  BY <2>4, <1>2
<1>7. CASE AppendShot
  <2>1. UNCHANGED <<sScore, inst, pObject, main, fired, mixed>>
        /\ found'["main"] = found["main"] /\ found'["data"] = Idle
    BY <1>7
    DEF AppendShot, counters, history, mainVars, TypeOK, Thread
  <2>2. Unfilled' = Unfilled
    BY <1>7, <2>1 DEF AppendShot, Unfilled
  <2>3. Same
    BY <2>1, <2>2 DEF Same, Bullets, Active, Coming, Shots
  <2>4. QED  BY <2>3, <1>2
<1>8. CASE FindPlayer \/ FindSpawned
  <2>1. UNCHANGED <<sScore, inst, pObject, main, data, fired, mixed>>
        /\ found'["data"] = found["data"]
    BY <1>8
    DEF FindPlayer, FindSpawned, FindInstance, counters, history, mainVars,
        dataVars, TypeOK, Thread
  <2>2. pObject["main"] = Unwritten /\ main # "fire"
    BY <1>8, SizesAssumption
    DEF FindPlayer, FindSpawned, Written, Thread, SizesAssumption, Slot, Idle
  <2>3. Coming' = {} /\ Active("bullet")' = Active("bullet")
    BY <2>1, <2>2 DEF Coming, Active, Unwritten
  <2>4. Fewer
    BY <2>1, <2>3 DEF Fewer, Bullets, Unfilled, Shots
  <2>5. QED  BY <2>4, <1>3
<1>9. CASE AddPlayer \/ Spawn \/ FillBullet
  <2>1. UNCHANGED <<sScore, data, fired, mixed>> /\ found'["data"] = found["data"]
    BY <1>9
    DEF AddPlayer, Spawn, FillBullet, counters, history, dataVars, TypeOK,
        Thread
  <2>2. SetFlag("main")
    BY <1>9 DEF AddPlayer, Spawn, FillBullet
  <2>3. Coming' = {}
    <3>1. pObject'["main"] = Unwritten
      BY <2>2 DEF SetFlag, TypeOK, Thread
    <3>2. main' # "fire" \/ found'["main"] = Idle
      BY <1>9 DEF AddPlayer, Spawn, FillBullet, TypeOK, Thread
    <3>3. QED
      BY <3>1, <3>2, SizesAssumption
      DEF Coming, Unwritten, SizesAssumption, Slot, Idle
  <2>4. Active("bullet")' \subseteq Bullets
    <3>1. ASSUME NEW b \in Active("bullet")', b \notin Active("bullet")
          PROVE  b = found["main"] /\ pObject["main"] = "bullet"
      BY <2>2, <3>1 DEF SetFlag, Active, TypeOK
    <3>2. QED  BY <3>1 DEF Bullets, Coming, Active
  <2>5. Fewer
    BY <2>1, <2>3, <2>4 DEF Fewer, Bullets, Unfilled, Shots
  <2>6. QED  BY <2>5, <1>3
<1>10. CASE Fire
  <2>1. UNCHANGED <<sScore, inst, pObject, data, mixed>> /\ found'["data"] = found["data"]
    BY <1>10
    DEF Fire, FindInstance, counters, history, dataVars, TypeOK, Thread
  <2>2. CASE found'["main"] = Idle
    <3>1. UNCHANGED fired
      BY <1>10, <2>2, FirstFreeSlot, SizesAssumption
      DEF Fire, FindInstance, TypeOK, Thread, SizesAssumption, Slot, Idle, NULL
    <3>2. Coming' = {} /\ Active("bullet")' = Active("bullet")
      BY <2>1, <2>2, SizesAssumption
      DEF Coming, Active, SizesAssumption, Slot, Idle
    <3>3. Fewer
      BY <2>1, <3>1, <3>2 DEF Fewer, Bullets, Unfilled, Shots
    <3>4. QED  BY <3>3, <1>3
  <2>3. CASE found'["main"] # Idle
    <3>1. fired' = fired + 1
      BY <1>10, <2>3 DEF Fire, TypeOK, Thread
    <3>2. Shots' = Shots + 1
      <4> DEFINE n == Len(mixed)
      <4>1. n \in Nat /\ n' = n /\ fired \in Nat
        BY <2>1 DEF TypeOK
      <4> HIDE DEF n
      <4>2. fired' + n' = fired + n + 1
        BY <4>1, <3>1
      <4>3. QED  BY <4>2 DEF Shots, n
    <3>3. Bullets' \subseteq Bullets \cup {found'["main"]}
      BY <2>1 DEF Bullets, Coming, Active
    <3>4. Unfilled' = Unfilled
      BY <2>1 DEF Unfilled
    <3>5. QED  BY <1>1, <2>1, <3>2, <3>3, <3>4, SumStep
  <2>4. QED  BY <2>2, <2>3
<1>11. CASE SetObject("main")
  <2> DEFINE o == found["main"]
  <2>1. UNCHANGED <<sScore, main, found, data, fired, mixed>> /\ o \in Slot
    BY <1>11 DEF SetObject, counters, mainVars, dataVars
  <2>2. main \in {"players", "create", "fire"}
    BY <2>1, <1>11, SizesAssumption
    DEF SetObject, MainPlaces, SizesAssumption, Slot, Idle
  <2>3. Asked("main") = "bullet" <=> main = "fire"
    <3>1. main = "create" => Head(todo) \in {"asteroid", "lives"}
      BY DEF MainPlaces, TypeOK
    <3>2. QED  BY <2>2, <3>1 DEF Asked
  <2>4. pObject'["main"] = Asked("main")
    BY <1>11 DEF SetObject, Thread
  <2>5. \A b \in Slot : inst'[b] = "bullet" =>
           inst[b] = "bullet" \/ (b = o /\ Asked("main") = "bullet")
    BY <1>11 DEF SetObject, TypeOK
  <2>6. Bullets' \subseteq Bullets
    BY <2>1, <2>3, <2>4, <2>5 DEF Bullets, Active, Coming
  <2>7. Fewer
    BY <2>1, <2>6 DEF Fewer, Unfilled, Shots
  <2>8. QED  BY <2>7, <1>3
<1>12. CASE SetObject("data")
  <2> DEFINE o == found["data"]
  <2>1. UNCHANGED <<sScore, main, found, data, fired>> /\ o \in Slot
    BY <1>12 DEF SetObject, counters, mainVars, dataVars
  <2>2. Asked("data") = "bullet"
    BY DEF Asked
  <2>3. Unfilled' = Unfilled
    BY <2>1 DEF Unfilled
  <2>4. CASE Mixes(o)
    <3>1. mixed' = Append(mixed, o)
      BY <1>12, <2>4 DEF SetObject
    <3>2. Shots' = Shots + 1
      <4> DEFINE n == Len(mixed)
      <4>1. n \in Nat /\ n' = n + 1 /\ fired \in Nat
        BY <2>1, <3>1 DEF TypeOK
      <4> HIDE DEF n
      <4>2. fired + n' = fired + n + 1
        BY <4>1
      <4>3. QED  BY <4>2, <2>1 DEF Shots, n
    <3>3. \A b \in Slot : b # o /\ inst'[b] = "bullet" => inst[b] = "bullet"
      BY <1>12 DEF SetObject, TypeOK
    <3>4. found["main"] = o \/ pObject'["main"] = pObject["main"]
      BY <1>12 DEF SetObject, Thread
    <3>5. Bullets' \subseteq Bullets \cup {o}
      BY <2>1, <3>3, <3>4 DEF Bullets, Active, Coming
    <3>6. QED  BY <1>1, <2>1, <2>3, <3>2, <3>5, SumStep
  <2>5. CASE ~Mixes(o)
    <3>1. mixed' = mixed
      BY <1>12, <2>5 DEF SetObject
    <3>2. inst' = inst
      <4>1. inst[o] = "free" \/ inst[o] = "bullet"
        BY <2>5 DEF Mixes
      <4>2. QED  BY <1>12, <2>2, <4>1 DEF SetObject, TypeOK
    <3>3. pObject'["main"] = pObject["main"]
      BY <1>12, <2>2, <2>5 DEF SetObject, Mixes, Thread
    <3>4. Fewer
      BY <2>1, <2>3, <3>1, <3>2, <3>3 DEF Fewer, Bullets, Active, Coming, Shots
    <3>5. QED  BY <3>4, <1>3
  <2>6. QED  BY <2>4, <2>5
<1>13. CASE Collide
  <2>1. UNCHANGED <<Unfilled, Shots>>
    BY <1>13 DEF Collide, dataVars, history, Unfilled, Shots
  <2>2. found["main"] = Idle /\ found' = found
    BY <1>13 DEF Collide, MainPlaces
  <2>3. Coming = {} /\ Coming' = {}
    BY <2>2, SizesAssumption DEF Coming, SizesAssumption, Slot, Idle
  <2>4. ASSUME NEW ships \in SUBSET Active("ship"), NEW bullets \in SUBSET Active("bullet"),
               inst[at] = "asteroid", CollideAsteroid(ships, bullets)
        PROVE  EarnedInv'
    <3> DEFINE s == sScore
               c == Cardinality(Bullets)
               u == Unfilled
               f == Shots
               k == Cardinality(bullets)
               s1 == sScore'
               c1 == Cardinality(Bullets')
    <3>1. Bullets' = Bullets \ bullets /\ bullets \in SUBSET Bullets
      BY <2>3, <2>4
      DEF Bullets, CollideAsteroid, HitAsteroid, Destroyed, Active
    <3>2. c1 \in Nat /\ k \in Nat /\ c = c1 + k
      BY <3>1, BulletsHit
    <3>3. s1 = s + k /\ Unfilled' = u /\ Shots' = f
      BY <2>1, <2>4 DEF CollideAsteroid, HitAsteroid
    <3>4. s \in Nat /\ u \in Nat /\ f \in Nat /\ s + c + u <= f
      BY SumTypes DEF EarnedInv
    <3> HIDE DEF s, c, u, f, k, s1, c1
    <3>5. s1 + c1 + u <= f
      BY <3>2, <3>3, <3>4
    <3>6. QED  BY <3>3, <3>5 DEF EarnedInv, s1, c1
  <2>5. ASSUME sScore' = sScore, Active("bullet")' \subseteq Active("bullet")
        PROVE  EarnedInv'
    <3>1. Fewer
      BY <2>1, <2>3, <2>5 DEF Fewer, Bullets
    <3>2. QED  BY <3>1, <1>3
  <2>6. ASSUME NEW ships, CollideLives(ships)
        PROVE  sScore' = sScore /\ Active("bullet")' \subseteq Active("bullet")
    BY <2>6 DEF CollideLives, Destroyed, Active
  <2>7. ASSUME UNCHANGED <<inst, counters, bullet_list, app>>
        PROVE  sScore' = sScore /\ Active("bullet")' \subseteq Active("bullet")
    BY <2>7 DEF counters, Active
  <2>8. QED  BY <1>13, <2>4, <2>5, <2>6, <2>7 DEF Collide
<1>14. ASSUME NEW bullets \in SUBSET Active("bullet"), Bounds(bullets) PROVE EarnedInv'
  <2>1. UNCHANGED <<sScore, Unfilled, Shots>> /\ found["main"] = Idle /\ found' = found
    BY <1>14
    DEF Bounds, LeaveBounds, counters, history, dataVars, MainPlaces,
        Unfilled, Shots
  <2>2. Coming' = {}
    BY <2>1, SizesAssumption DEF Coming, SizesAssumption, Slot, Idle
  <2>3. Active("bullet")' \subseteq Active("bullet")
    BY <1>14 DEF Bounds, LeaveBounds, Destroyed, Active, TypeOK
  <2>4. Fewer
    BY <2>1, <2>2, <2>3 DEF Fewer, Bullets
  <2>5. QED  BY <2>4, <1>3
<1>15. CASE Start \/ Quit
  <2>1. UNCHANGED <<Unfilled, Shots>> /\ found["main"] = Idle /\ found' = found
    BY <1>15 DEF Start, Quit, history, dataVars, MainPlaces, Unfilled, Shots
  <2>2. sScore' = sScore
    BY <1>15 DEF Start, Quit, counters, Early
  <2>3. Coming' = {}
    BY <2>1, SizesAssumption DEF Coming, SizesAssumption, Slot, Idle
  <2>4. Active("bullet")' \subseteq Active("bullet")
    BY <1>15, FirstFreeSlot
    DEF Start, Quit, Freed, Destroyed, NULL, Active, TypeOK, Early
  <2>5. Fewer
    BY <2>1, <2>2, <2>3, <2>4 DEF Fewer, Bullets
  <2>6. QED  BY <2>5, <1>3
<1>16. CASE FindShot
  <2>1. UNCHANGED <<sScore, inst, pObject, main, mixed>> /\ found'["main"] = found["main"]
    BY <1>16
    DEF FindShot, FindInstance, counters, history, mainVars, TypeOK, Thread
  <2>2. Bullets' = Bullets
    BY <2>1 DEF Bullets, Active, Coming
  <2>3. CASE found' = found /\ fired' = fired
    <3>1. Unfilled' = Unfilled
      BY <1>16, <2>3 DEF FindShot, Unfilled
    <3>2. Fewer
      BY <2>1, <2>2, <2>3, <3>1 DEF Fewer, Shots
    <3>3. QED  BY <3>2, <1>3
  <2>4. CASE fired' = fired + 1
    <3>1. Shots' = Shots + 1
      <4> DEFINE n == Len(mixed)
      <4>1. n \in Nat /\ n' = n /\ fired \in Nat
        BY <2>1 DEF TypeOK
      <4> HIDE DEF n
      <4>2. fired' + n' = fired + n + 1
        BY <4>1, <2>4
      <4>3. QED  BY <4>2 DEF Shots, n
    <3>2. Unfilled' <= Unfilled + 1
      BY DEF Unfilled
    <3>3. QED  BY <1>1, <2>1, <2>2, <3>1, <3>2, SumStep
  <2>5. QED  BY <1>16, <2>3, <2>4 DEF FindShot
<1>17. CASE FillShot
  <2>1. UNCHANGED <<sScore, main, found, fired, mixed>>
    BY <1>17 DEF FillShot, counters, history, mainVars
  <2>2. SetFlag("data")
    BY <1>17 DEF FillShot
  <2>3. Unfilled = Unfilled' + 1
    BY <1>17 DEF FillShot, Unfilled
  <2>4. pObject'["main"] = pObject["main"]
    BY <2>2 DEF SetFlag, TypeOK, Thread
  <2>5. \A b \in Slot : b # found["data"] /\ inst'[b] = "bullet" => inst[b] = "bullet"
    BY <2>2 DEF SetFlag, TypeOK
  <2>6. Bullets' \subseteq Bullets \cup {found["data"]}
    BY <2>1, <2>4, <2>5 DEF Bullets, Active, Coming
  <2>7. Shots' = Shots
    BY <2>1 DEF Shots
  <2>8. QED  BY <1>1, <2>1, <2>3, <2>6, <2>7, SumStep
<1>18. QED
  BY <1>4, <1>5, <1>6, <1>7, <1>8, <1>9, <1>10, <1>11, <1>12,
     <1>13, <1>14, <1>15, <1>16, <1>17
  DEF Next, MainThread, DataThread, InitMultiPlayer, FireBullet

-----------------------------------------------------------------------------
(* The initial states. *)
LEMMA InitHolds ==
  Init => IInv
<1> SUFFICES ASSUME Init PROVE IInv
  OBVIOUS
<1>1. TypeOK
  <2>1. /\ <<>> \in Seq(Slot \cup {NULL})
        /\ <<>> \in Seq({"asteroid", "lives"})
        /\ Len(<<>>) = 0
    OBVIOUS
  <2>2. 1 \in 1 .. Slots + NumPlayers /\ 1 \in 1 .. NumPlayers + 1
        /\ 0 \in 0 .. MaxSpawns /\ 0 \in 0 .. MaxShots /\ 0 <= MaxShots
    BY SizesAssumption, BoundsAssumption DEF SizesAssumption, BoundsAssumption
  <2>3. inst = [s \in Slot |-> "free"]
        /\ found = [t \in Thread |-> Idle] /\ pObject = [t \in Thread |-> Unwritten]
        /\ mixed = <<>>
    BY DEF Init
  <2>4. inst \in [Slot -> Type \cup {"free"}]
    BY <2>3
  <2>5. found \in [Thread -> Slot \cup {NULL, Idle}]
    <3> DEFINE S == Slot \cup {NULL, Idle}
    <3>1. Idle \in S
      OBVIOUS
    <3> HIDE DEF S
    <3>2. found \in [Thread -> S]
      BY <2>3, <3>1
    <3>3. QED  BY <3>2 DEF S
  <2>6. spShip \in Slot \cup {NULL} /\ player_list \in Seq(Slot \cup {NULL})
        /\ bullet_list \in Seq(Slot \cup {NULL}) /\ todo \in Seq({"asteroid", "lives"})
        /\ Len(player_list) \in {0, NumPlayers} /\ Len(bullet_list) <= MaxShots
    BY <2>1, <2>2 DEF Init
  <2>7. /\ sShipLives \in Int
        /\ sScore \in Nat
        /\ shown \in {Unprinted} \cup [score : Nat, lives : Int]
        /\ at \in 1 .. Slots + NumPlayers /\ row \in 1 .. NumPlayers + 1
        /\ player \in 1 .. NumPlayers + 1
        /\ spawns \in 0 .. MaxSpawns
        /\ fired \in 0 .. MaxShots
    BY <2>2 DEF Init
  <2>8. onValueChange \in BOOLEAN /\ av_connected \in BOOLEAN /\ av_start \in BOOLEAN
        /\ app = "runs" /\ main = "manager" /\ data = "spin"
    BY DEF Init
  <2>9. pObject \in [Thread -> Type \cup {Unwritten}] /\ mixed \in Seq(Slot)
    BY <2>3
  <2>10. QED  BY <2>4, <2>5, <2>6, <2>7, <2>8, <2>9 DEF TypeOK
<1> USE DEF Init
<1>2. MainPlaces /\ DataPlaces /\ Written /\ Early /\ ShipInv /\ ShownInv
  BY DEF MainPlaces, DataPlaces, Written, Early, ShipInv, ShownInv, Thread
<1>3. Bullets = {}
  BY SizesAssumption
  DEF Bullets, Active, Coming, Thread, SizesAssumption, Slot, Idle
<1>4. Cardinality(Bullets) = 0 /\ Len(mixed) = 0
  BY <1>3, FS_EmptySet
<1>5. EarnedInv /\ Listed
  BY <1>4 DEF EarnedInv, Listed, Unfilled, Shots, Unappended, Thread
<1>6. QED
  BY <1>1, <1>2, <1>5 DEF IInv

(* Every step. *)
LEMMA StepHolds ==
  IInv /\ [Next]_vars => IInv'
<1> SUFFICES ASSUME IInv, [Next]_vars PROVE IInv'
  OBVIOUS
<1>1. CASE Next
  BY <1>1, TypeStep, MainPlacesStep, DataPlacesStep, ListedStep, EarlyStep,
     ShipStep, WrittenStep, EarnedStep, ShownStep DEF IInv
<1>2. CASE UNCHANGED vars
  <2> USE DEF vars, pointers, counters, history, atomics, mainVars, dataVars
  <2>1. TypeOK' /\ MainPlaces' /\ DataPlaces' /\ Written'
    BY <1>2 DEF IInv, TypeOK, MainPlaces, DataPlaces, Written
  <2>2. Listed' /\ Early' /\ ShownInv'
    BY <1>2 DEF IInv, Listed, Unappended, Early, ShownInv
  <2>3. ShipInv' /\ EarnedInv'
    BY <1>2 DEF IInv, ShipInv, EarnedInv, Unfilled, Shots, Bullets, Coming, Active
  <2>4. QED  BY <2>1, <2>2, <2>3 DEF IInv
<1>3. QED
  BY <1>1, <1>2

(* GameStateAsteroids keeps its types: bullet_list has room for what is    *)
(* fired, and no loop counter leaves its range.                            *)
THEOREM TypeCorrect == Spec => []TypeOK
<1>1. IInv => TypeOK
  BY DEF IInv
<1>2. QED
  BY <1>1, InitHolds, StepHolds, PTL DEF Spec

(* The own ship stays an instance of the pool and a ship, whatever the two *)
(* threads create at once and whatever collides.                           *)
THEOREM ShipSafe == Spec => []ShipKept
<1>1. IInv => ShipKept
  BY DEF IInv, ShipInv, ShipKept
<1>2. QED
  BY <1>1, InitHolds, StepHolds, PTL DEF Spec

(* Every point was earned with a bullet of its own, but for the shots      *)
(* whose slot got an object of the main thread as well; and after each     *)
(* frame the score that is printed is the score.                           *)
THEOREM ScoreHonest == Spec => []ScoreTrue
<1>1. IInv => ScoreTrue
  <2>1. ASSUME IInv PROVE ScoreEarned
    <3> DEFINE s == sScore
               c == Cardinality(Bullets)
               a == Cardinality(Active("bullet"))
               u == Unfilled
               f == Shots
    <3>1. s \in Nat /\ c \in Nat /\ u \in Nat /\ f \in Nat /\ s + c + u <= f
      BY <2>1, SumTypes DEF IInv, EarnedInv
    <3>2. a \in Nat /\ a <= c
      BY BulletsLess DEF Bullets
    <3> HIDE DEF s, c, a, u, f
    <3>3. s + a <= f
      BY <3>1, <3>2
    <3>4. QED  BY <3>3 DEF ScoreEarned, Shots, s, a, f
  <2>2. ASSUME IInv PROVE ScoreShown
    BY <2>2 DEF IInv, ShownInv, ScoreShown
  <2>3. QED  BY <2>1, <2>2 DEF ScoreTrue
<1>2. QED
  BY <1>1, InitHolds, StepHolds, PTL DEF Spec

-----------------------------------------------------------------------------
(* The functions of the Asteroids client that compute where things are,    *)
(* for every instance: the ship stays in the window, pickups appear in it  *)
(* and asteroids outside it, and the collision test, which the instance    *)
(* tries on a grid, is exact for rectangles and speeds of any size.        *)

(* A dampened speed keeps its sign and loses at least a hundredth.         *)
LEMMA DampenedBound ==
  ASSUME NEW v \in Int
  PROVE  /\ Dampened(v) \in Int
         /\ v >= 0 => 0 <= Dampened(v) /\ 100 * Dampened(v) <= 99 * v
         /\ v < 0 => Dampened(v) <= 0 /\ 99 * v <= 100 * Dampened(v)
  BY SMT DEF Dampened

(* One key: a velocity that is limited, changed by at most Forward and     *)
(* dampened is limited again.                                              *)
LEMMA DampenedLimited ==
  ASSUME NEW v \in Velocities, NEW a \in -Forward .. Forward
  PROVE  Dampened(v + a) \in Velocities
<1>1. Forward \in Nat \ {0} /\ v \in Int /\ a \in Int
  BY ForwardAssumption DEF ForwardAssumption, Velocities
<1>2. -100 * Forward <= v + a /\ v + a <= 100 * Forward
  BY <1>1 DEF Velocities
<1>3. v + a \in Int
  BY <1>1
<1>4. Dampened(v + a) \in Int
      /\ (v + a >= 0 => 0 <= Dampened(v + a) /\ 100 * Dampened(v + a) <= 99 * (v + a))
      /\ (v + a < 0 => Dampened(v + a) <= 0 /\ 99 * (v + a) <= 100 * Dampened(v + a))
  BY <1>3, DampenedBound
<1>5. QED
  BY <1>1, <1>2, <1>3, <1>4 DEF Velocities

(* AEWrap adds the range once, which is enough at a limited speed.         *)
LEMMA WrapKeeps ==
  ASSUME NEW v \in Velocities, NEW x \in Positions
  PROVE  WrapShip(Move(x, v)) \in Positions
  BY ForwardAssumption, WindowAssumption
  DEF ForwardAssumption, WindowAssumption, Velocities, Positions, WrapShip, AEWrap, Move

(* GameStateAsteroidsUpdate keeps the ship in the window, whatever keys    *)
(* are held and wherever in the window the ship is.                        *)
THEOREM ShipStays == ShipStaysInWindow
<1>1. SUFFICES ASSUME NEW v \in Velocities, NEW heading \in Heading,
                      NEW up \in BOOLEAN, NEW down \in BOOLEAN
               PROVE  LET vel == Steer(v, heading, up, down) IN
                      /\ vel \in Velocities
                      /\ \A x \in Positions : WrapShip(Move(x, vel)) \in Positions
  BY DEF ShipStaysInWindow
<1> DEFINE w == Accelerate(v, heading, up)
<1>2. Forward \in Nat \ {0} /\ Backward \in 0 .. Forward
  BY ForwardAssumption DEF ForwardAssumption
<1>3. /\ heading * Forward \in -Forward .. Forward
      /\ -(heading * Backward) \in -Forward .. Forward
  BY <1>2 DEF Heading
<1>4. w \in Velocities
  BY <1>3, DampenedLimited DEF Accelerate
<1>5. Dampened(w + -(heading * Backward)) \in Velocities
  BY <1>3, <1>4, DampenedLimited
<1>6. w - heading * Backward = w + -(heading * Backward)
  <2>1. w \in Int /\ heading * Backward \in Int
    BY <1>2, <1>4 DEF Velocities, Heading
  <2>2. QED  BY <2>1
<1>7. Steer(v, heading, up, down) \in Velocities
  BY <1>4, <1>5, <1>6 DEF Steer, Reverse
<1>8. QED
  BY <1>7, WrapKeeps

-----------------------------------------------------------------------------
(* r of the n parts of a draw lie between 0 and n wholes.                  *)
LEMMA PartOf ==
  ASSUME NEW r \in Draws, NEW n \in Nat
  PROVE  r * n \in 0 .. Whole(n)
<1>1. RAND_MAX \in Nat
  BY SpawnAssumption DEF SpawnAssumption
<1>2. r \in Nat /\ r <= RAND_MAX
  BY <1>1 DEF Draws
<1>3. r * n >= 0 /\ r * n \in Nat
  BY <1>2
<1>4. (RAND_MAX - r) * n >= 0
  BY <1>1, <1>2
<1>5. (RAND_MAX - r) * n = RAND_MAX * n - r * n
  BY <1>1, <1>2
<1>6. RAND_MAX * n = n * RAND_MAX
  BY <1>1
<1>7. QED  BY <1>1, <1>2, <1>3, <1>4, <1>5, <1>6 DEF Whole

(* The sides that a draw names: the sixth only for the largest.            *)
LEMMA Sides ==
  ASSUME NEW r \in Draws
  PROVE  side(r) \in 0 .. 5
<1>1. RAND_MAX \in Nat \ {0}
  BY SpawnAssumption DEF SpawnAssumption
<1>2. r \in Nat /\ 0 <= 5 * r /\ 5 * r <= 5 * RAND_MAX
  BY <1>1 DEF Draws
<1>3. (5 * r) \div RAND_MAX \in 0 .. 5
  BY <1>1, <1>2
<1>4. QED  BY <1>3 DEF side

(* spawnLives: whatever is drawn, the pickup lies in the window.           *)
THEOREM PickedUp == PickedUpInside
<1>1. SUFFICES ASSUME NEW draws \in [1 .. 3 -> Draws]
               PROVE  LET pos == spawnLives(draws)
                      IN  /\ pos.set
                          /\ pos.x \in -Whole(HALF_WIDTH) .. Whole(HALF_WIDTH)
                          /\ pos.y \in -Whole(HALF_HEIGHT) .. Whole(HALF_HEIGHT)
  BY DEF PickedUpInside
<1> DEFINE x == draws[2] * HALF_WIDTH
           y == draws[3] * HALF_HEIGHT
<1>2. HALF_WIDTH \in Nat /\ HALF_HEIGHT \in Nat
  BY SpawnAssumption DEF SpawnAssumption
<1>3. x \in 0 .. Whole(HALF_WIDTH) /\ y \in 0 .. Whole(HALF_HEIGHT)
  BY <1>2, PartOf
<1>4. Whole(HALF_WIDTH) \in Nat /\ Whole(HALF_HEIGHT) \in Nat
  BY <1>2, SpawnAssumption DEF SpawnAssumption, Whole
<1>5. side(draws[1]) \in 0 .. 5
  BY Sides
<1> HIDE DEF x, y
<1>6. LivesPosition(side(draws[1]), draws[2], draws[3])
        \in {At(x, y), At(-x, y), At(x, -y), At(-x, -y)}
  BY <1>5 DEF LivesPosition, x, y
<1>7. QED
  BY <1>3, <1>4, <1>6 DEF At, spawnLives

(* Between one and two wholes, as all sizes and speeds are.                *)
LEMMA WholeAndPart ==
  ASSUME NEW r \in Draws, NEW n \in Nat
  PROVE  Whole(n) + r * n \in Whole(n) .. 2 * Whole(n)
<1>1. RAND_MAX \in Nat /\ Whole(n) \in Nat
  BY SpawnAssumption DEF SpawnAssumption, Whole
<1>2. r * n \in 0 .. Whole(n)
  BY PartOf
<1> DEFINE w == Whole(n)
           x == r * n
<1>3. w \in Nat /\ x \in 0 .. w
  BY <1>1, <1>2
<1> HIDE DEF w, x
<1>4. w + x \in w .. 2 * w
  BY <1>3
<1>5. QED
  BY <1>4 DEF w, x

(* spawnAsteroid of the Server and of the client: whatever is drawn, the   *)
(* asteroid has a place above or below the window, and a size and a speed  *)
(* within their limits.                                                    *)
THEOREM Outside == SpawnedOutside
<1>1. SUFFICES ASSUME NEW draws \in [1 .. 5 -> Draws]
               PROVE  LET a == spawnAsteroid(draws)
                      IN  /\ a.pos.set
                          /\ \/ 2 * a.pos.y - a.size > 2 * Whole(HALF_HEIGHT)
                             \/ 2 * a.pos.y + a.size < -2 * Whole(HALF_HEIGHT)
                          /\ a.size \in Whole(ASTEROID_SIZE) .. 2 * Whole(ASTEROID_SIZE)
                          /\ a.speed \in Whole(ASTEROID_SPEED) .. 2 * Whole(ASTEROID_SPEED)
  BY DEF SpawnedOutside
<1>2. /\ RAND_MAX \in Nat \ {0} /\ ASTEROID_SIZE \in Nat \ {0}
      /\ ASTEROID_SPEED \in Nat /\ HALF_HEIGHT \in Nat
  BY SpawnAssumption DEF SpawnAssumption
<1>3. /\ draws[1] \in Draws /\ draws[2] \in Draws /\ draws[3] \in Draws
      /\ draws[4] \in Draws /\ draws[5] \in Draws
  OBVIOUS
<1>4. size(draws[1]) \in Whole(ASTEROID_SIZE) .. 2 * Whole(ASTEROID_SIZE)
  <2>1. Whole(ASTEROID_SIZE) + draws[1] * ASTEROID_SIZE
          \in Whole(ASTEROID_SIZE) .. 2 * Whole(ASTEROID_SIZE)
    BY <1>2, <1>3, WholeAndPart
  <2>2. draws[1] * ASTEROID_SIZE \in Int /\ Whole(ASTEROID_SIZE) \in Int
    BY <1>2, <1>3 DEF Draws, Whole
  <2>3. size(draws[1]) = Whole(ASTEROID_SIZE) + draws[1] * ASTEROID_SIZE
    BY <2>2 DEF size
  <2>4. QED  BY <2>1, <2>3
<1>5. speed(draws[2], draws[3]) \in Whole(ASTEROID_SPEED) .. 2 * Whole(ASTEROID_SPEED)
  <2>1. Whole(ASTEROID_SPEED) + draws[3] * ASTEROID_SPEED
          \in Whole(ASTEROID_SPEED) .. 2 * Whole(ASTEROID_SPEED)
    BY <1>2, <1>3, WholeAndPart
  <2>2. (2 * draws[2]) \div RAND_MAX \in {0, 1, 2}
    <3>1. draws[2] \in Nat /\ 0 <= 2 * draws[2] /\ 2 * draws[2] <= 2 * RAND_MAX
      BY <1>2, <1>3 DEF Draws
    <3>2. (2 * draws[2]) \div RAND_MAX \in 0 .. 2
      BY <1>2, <3>1
    <3>3. QED  BY <3>2
  <2>3. Whole(ASTEROID_SPEED) - draws[3] * (-ASTEROID_SPEED)
          = Whole(ASTEROID_SPEED) + draws[3] * ASTEROID_SPEED
    <3>1. draws[3] \in Int /\ Whole(ASTEROID_SPEED) \in Int
      BY <1>2, <1>3 DEF Draws, Whole
    <3>2. draws[3] * (-ASTEROID_SPEED) = -(draws[3] * ASTEROID_SPEED)
      BY <1>2, <3>1
    <3>3. draws[3] * ASTEROID_SPEED \in Int
      BY <1>2, <3>1
    <3>4. QED  BY <3>1, <3>2, <3>3
  <2>4. QED  BY <2>1, <2>2, <2>3 DEF speed
<1> DEFINE s == size(draws[1])
           h == Whole(HALF_HEIGHT)
           x == draws[5] * HALF_WIDTH + s
<1>6. s \in Nat \ {0} /\ h \in Nat
  <2>1. Whole(ASTEROID_SIZE) > 0 /\ Whole(ASTEROID_SIZE) \in Nat /\ h \in Nat
    BY <1>2 DEF Whole
  <2>2. QED  BY <1>4, <2>1
<1>7. side(draws[4]) \in 0 .. 5
  BY <1>3, Sides
<1> HIDE DEF s, h, x
<1>8. AsteroidPosition(side(draws[4]), draws[5], s)
        \in {At(-x, h + s), At(x, h + s), At(-x, -(h + s)), At(x, -(h + s))}
  BY <1>7 DEF AsteroidPosition, h, x
<1>9. /\ 2 * (h + s) - s > 2 * h
      /\ 2 * (-(h + s)) + s < -2 * h
  BY <1>6
<1>10. LET pos == AsteroidPosition(side(draws[4]), draws[5], s)
       IN  /\ pos.set
           /\ \/ 2 * pos.y - s > 2 * h
              \/ 2 * pos.y + s < -2 * h
  BY <1>8, <1>9 DEF At
<1>11. QED
  BY <1>4, <1>5, <1>10 DEF spawnAsteroid, s, h

-----------------------------------------------------------------------------
(* The times of the collision test, and rectangles with an inside. *)
Fractions == Int \X (Nat \ {0})
Times == [tFirst : Fractions, tLast : Fractions]
Solid(a) == a.min \in Int /\ a.max \in Int /\ a.min < a.max

(* Whole numbers may be compared after a multiplication. *)
LEMMA Cancel ==
  ASSUME NEW x \in Int, NEW y \in Int, NEW p \in Nat \ {0}
  PROVE  x * p <= y * p <=> x <= y
<1>1. CASE x <= y
  <2>1. (y - x) * p >= 0
    BY <1>1
  <2>2. (y - x) * p = y * p - x * p
    OBVIOUS
  <2>3. QED  BY <1>1, <2>1, <2>2
<1>2. CASE y < x
  <2>1. (x - y) * p > 0
    BY <1>2
  <2>2. (x - y) * p = x * p - y * p
    OBVIOUS
  <2>3. QED  BY <1>2, <2>1, <2>2
<1>3. QED
  BY <1>1, <1>2

(* NotLater orders the fractions. *)
LEMMA Transitive ==
  ASSUME NEW s \in Fractions, NEW m \in Fractions, NEW t \in Fractions,
         NotLater(s, m), NotLater(m, t)
  PROVE  NotLater(s, t)
<1>1. /\ s[1] \in Int /\ s[2] \in Nat \ {0} /\ m[1] \in Int /\ m[2] \in Nat \ {0}
      /\ t[1] \in Int /\ t[2] \in Nat \ {0}
  BY DEF Fractions
<1> DEFINE a == s[1]
           p == s[2]
           b == m[1]
           q == m[2]
           c == t[1]
           r == t[2]
<1>2. a * q <= b * p /\ b * r <= c * q
  BY DEF NotLater
<1>3. /\ a \in Int /\ b \in Int /\ c \in Int
      /\ p \in Nat \ {0} /\ q \in Nat \ {0} /\ r \in Nat \ {0}
  BY <1>1
<1>4. SUFFICES a * r <= c * p
  BY DEF NotLater
<1> HIDE DEF a, b, c, p, q, r
<1>5. (a * q) * r <= (b * p) * r
  BY <1>2, <1>3, Cancel
<1>6. (b * r) * p <= (c * q) * p
  BY <1>2, <1>3, Cancel
<1>7. (a * r) * q <= (c * p) * q
  <2>1. /\ (a * q) * r = (a * r) * q
        /\ (b * p) * r = (b * r) * p
        /\ (c * q) * p = (c * p) * q
    BY <1>3
  <2>2. /\ (a * r) * q \in Int /\ (b * r) * p \in Int /\ (c * p) * q \in Int
    BY <1>3
  <2>3. QED  BY <1>5, <1>6, <2>1, <2>2
<1>8. a * r \in Int /\ c * p \in Int
  BY <1>3
<1>9. QED
  BY <1>3, <1>7, <1>8, Cancel

(* AEMax and AEMin choose among them. *)
LEMMA MaxMin ==
  ASSUME NEW s \in Fractions, NEW t \in Fractions
  PROVE  /\ AEMax(s, t) \in Fractions /\ AEMin(s, t) \in Fractions
         /\ AEMax(s, t) \in {s, t} /\ AEMin(s, t) \in {s, t}
         /\ NotLater(s, AEMax(s, t)) /\ NotLater(t, AEMax(s, t))
         /\ NotLater(AEMin(s, t), s) /\ NotLater(AEMin(s, t), t)
<1>1. /\ s[1] \in Int /\ s[2] \in Nat \ {0}
      /\ t[1] \in Int /\ t[2] \in Nat \ {0}
  BY DEF Fractions
<1>2. s[1] * t[2] \in Int /\ t[1] * s[2] \in Int /\ s[1] * s[2] \in Int /\ t[1] * t[2] \in Int
  BY <1>1
<1>3. NotLater(s, s) /\ NotLater(t, t) /\ (NotLater(s, t) \/ NotLater(t, s))
  BY <1>2 DEF NotLater
<1>4. QED
  BY <1>3 DEF AEMax, AEMin

(* The quotient that the code computes is the fraction it stands for. *)
LEMMA Quotients ==
  ASSUME NEW n \in Int, NEW v \in Int \ {0}, NEW k \in Int, NEW p \in Nat \ {0}
  PROVE  /\ Quotient(n, v) \in Fractions
         /\ Quotient(n, v)[2] = Magnitude(v)
         /\ v > 0 => /\ NotLater(Quotient(n, v), <<k, p>>) <=> p * n <= v * k
                     /\ NotLater(<<k, p>>, Quotient(n, v)) <=> v * k <= p * n
         /\ v < 0 => /\ NotLater(Quotient(n, v), <<k, p>>) <=> v * k <= p * n
                     /\ NotLater(<<k, p>>, Quotient(n, v)) <=> p * n <= v * k
<1>1. CASE v > 0
  <2>1. Quotient(n, v) = <<n, v>> /\ Magnitude(v) = v
    BY <1>1 DEF Quotient, Magnitude
  <2>2. k * v = v * k /\ n * p = p * n
    OBVIOUS
  <2>3. QED  BY <1>1, <2>1, <2>2 DEF NotLater, Fractions
<1>2. CASE v < 0
  <2>1. Quotient(n, v) = <<-n, -v>> /\ Magnitude(v) = -v
    BY <1>2 DEF Quotient, Magnitude
  <2>2. k * (-v) = -(v * k) /\ (-n) * p = -(p * n) /\ v * k \in Int /\ p * n \in Int
    OBVIOUS
  <2>3. -n \in Int /\ -v \in Nat \ {0}
    BY <1>2
  <2>4. QED  BY <1>2, <2>1, <2>2, <2>3 DEF NotLater, Fractions
<1>3. QED
  BY <1>1, <1>2

(* The two distances that matter on an axis. *)
LEMMA Distances ==
  ASSUME NEW x \in Int, NEW y \in Int, NEW p \in Nat \ {0}, NEW w \in Int
  PROVE  /\ p * x < p * y + w <=> p * (x - y) < w
         /\ p * x <= p * y + w <=> p * (x - y) <= w
         /\ p * x + w < p * y <=> w < p * (y - x)
         /\ p * x + w <= p * y <=> w <= p * (y - x)
<1>1. /\ p * (x - y) = p * x - p * y /\ p * (y - x) = p * y - p * x
      /\ p * x \in Int /\ p * y \in Int
  OBVIOUS
<1> DEFINE a == p * x
           b == p * y
           c == p * (x - y)
           d == p * (y - x)
<1>2. c = a - b /\ d = b - a /\ a \in Int /\ b \in Int
  BY <1>1
<1> HIDE DEF a, b, c, d
<1>3. /\ a < b + w <=> c < w
      /\ a <= b + w <=> c <= w
      /\ a + w < b <=> w < d
      /\ a + w <= b <=> w <= d
  BY <1>2
<1>4. QED
  BY <1>3 DEF a, b, c, d

(* Narrowing keeps the times fractions and only narrows; a time that it    *)
(* sets is a quotient by the speed.                                        *)
LEMMA NarrowedTimes ==
  ASSUME NEW a, NEW b, Solid(a), Solid(b), NEW v \in Int \ {0}, NEW t \in Times
  PROVE  LET n == Narrowed(a, b, v, t)
         IN  /\ n \in Times
             /\ NotLater(t.tFirst, n.tFirst) /\ NotLater(n.tLast, t.tLast)
             /\ n.tFirst[2] \in {t.tFirst[2], Magnitude(v)}
<1>1. ASSUME NEW x \in Int, NEW y \in Int
      PROVE  /\ Quotient(x - y, v) \in Fractions
             /\ Quotient(x - y, v)[2] = Magnitude(v)
  <2>1. x - y \in Int /\ 0 \in Int /\ 1 \in Nat \ {0}
    OBVIOUS
  <2>2. QED  BY <2>1, Quotients
<1>2. \A f \in Fractions : NotLater(f, f)
  <2>1. ASSUME NEW f \in Fractions PROVE f[1] * f[2] \in Int
    BY DEF Fractions
  <2>2. QED  BY <2>1 DEF NotLater
<1>3. t.tFirst \in Fractions /\ t.tLast \in Fractions
  BY DEF Times
<1>4. a.min \in Int /\ a.max \in Int /\ b.min \in Int /\ b.max \in Int
  BY DEF Solid
<1> DEFINE n == Narrowed(a, b, v, t)
<1>5. \E q \in Fractions : /\ q[2] = Magnitude(v)
                           /\ n.tFirst \in {t.tFirst, AEMax(q, t.tFirst)}
  BY <1>1, <1>4 DEF Narrowed
<1>6. \E q \in Fractions : n.tLast \in {t.tLast, AEMin(q, t.tLast)}
  BY <1>1, <1>4 DEF Narrowed
<1>7. n = [tFirst |-> n.tFirst, tLast |-> n.tLast]
  BY DEF Narrowed
<1>8. /\ n.tFirst \in Fractions /\ NotLater(t.tFirst, n.tFirst)
      /\ n.tFirst[2] \in {t.tFirst[2], Magnitude(v)}
  <2> HIDE DEF n
  <2>1. QED  BY <1>2, <1>3, <1>5, MaxMin
<1>9. n.tLast \in Fractions /\ NotLater(n.tLast, t.tLast)
  <2> HIDE DEF n
  <2>1. QED  BY <1>2, <1>3, <1>6, MaxMin
<1>10. n \in Times
  <2> HIDE DEF n
  <2>1. QED  BY <1>7, <1>8, <1>9 DEF Times
<1>11. QED
  BY <1>8, <1>9, <1>10

(* What overlaps at a moment does not part, and the moment is not cut off. *)
LEMMA OverlapKept ==
  ASSUME NEW a, NEW b, Solid(a), Solid(b), NEW v \in Int \ {0}, NEW t \in Times,
         NEW k \in Nat, NEW p \in Nat \ {0}, Overlap(a, b, v, k, p),
         NotLater(t.tFirst, <<k, p>>), NotLater(<<k, p>>, t.tLast)
  PROVE  LET n == Narrowed(a, b, v, t)
         IN  /\ ~MovesAway(a, b, v)
             /\ NotLater(n.tFirst, <<k, p>>) /\ NotLater(<<k, p>>, n.tLast)
<1>1. a.min \in Int /\ a.max \in Int /\ b.min \in Int /\ b.max \in Int
  BY DEF Solid
<1>2. v * k \in Int
  OBVIOUS
<1>3. p * (a.min - b.max) < v * k /\ v * k < p * (a.max - b.min)
  BY <1>1, <1>2, Distances DEF Overlap
<1>4. t.tFirst \in Fractions /\ t.tLast \in Fractions
  BY DEF Times
<1>5. p * (a.min - b.max) \in Int /\ p * (a.max - b.min) \in Int
  BY <1>1
<1>6. CASE v > 0
  <2>1. v * k >= 0
    BY <1>6
  <2>2. ~(a.max < b.min)
    <3>1. SUFFICES ASSUME a.max - b.min < 0 PROVE FALSE
      BY <1>1
    <3>2. p * (a.max - b.min) < 0
      BY <1>1, <3>1
    <3>3. QED  BY <3>2, <2>1, <1>2, <1>3, <1>5
  <2>3. /\ NotLater(Quotient(a.min - b.max, v), <<k, p>>)
        /\ NotLater(<<k, p>>, Quotient(a.max - b.min, v))
        /\ Quotient(a.min - b.max, v) \in Fractions
        /\ Quotient(a.max - b.min, v) \in Fractions
    <3>1. a.min - b.max \in Int /\ a.max - b.min \in Int /\ k \in Int
      BY <1>1
    <3>2. p * (a.min - b.max) <= v * k /\ v * k <= p * (a.max - b.min)
      BY <1>2, <1>3, <1>5
    <3>3. QED  BY <1>6, <3>1, <3>2, Quotients
  <2>4. QED
    BY <1>4, <1>6, <2>2, <2>3, MaxMin DEF Narrowed, MovesAway
<1>7. CASE v < 0
  <2>1. v * k <= 0
    BY <1>7
  <2>2. ~(a.min > b.max)
    <3>1. SUFFICES ASSUME a.min - b.max > 0 PROVE FALSE
      BY <1>1
    <3>2. p * (a.min - b.max) > 0
      BY <1>1, <3>1
    <3>3. QED  BY <3>2, <2>1, <1>2, <1>3, <1>5
  <2>3. /\ NotLater(Quotient(a.max - b.min, v), <<k, p>>)
        /\ NotLater(<<k, p>>, Quotient(a.min - b.max, v))
        /\ Quotient(a.min - b.max, v) \in Fractions
        /\ Quotient(a.max - b.min, v) \in Fractions
    <3>1. a.min - b.max \in Int /\ a.max - b.min \in Int /\ k \in Int
      BY <1>1
    <3>2. p * (a.min - b.max) <= v * k /\ v * k <= p * (a.max - b.min)
      BY <1>2, <1>3, <1>5
    <3>3. QED  BY <1>7, <3>1, <3>2, Quotients
  <2>4. QED
    BY <1>4, <1>7, <2>2, <2>3, MaxMin DEF Narrowed, MovesAway
<1>8. QED
  BY <1>6, <1>7

(* At a moment that is not cut off the extents touch, unless they only met *)
(* edge to edge.                                                           *)
LEMMA TouchFound ==
  ASSUME NEW a, NEW b, Solid(a), Solid(b), NEW v \in Int \ {0}, NEW t \in Times,
         NEW k \in Nat, NEW p \in Nat \ {0}, ~MovesAway(a, b, v), ~EdgesMeet(a, b),
         LET n == Narrowed(a, b, v, t)
         IN  NotLater(n.tFirst, <<k, p>>) /\ NotLater(<<k, p>>, n.tLast)
  PROVE  Touch(a, b, v, k, p)
<1> DEFINE n == Narrowed(a, b, v, t)
           m == <<k, p>>
<1>1. a.min \in Int /\ a.max \in Int /\ b.min \in Int /\ b.max \in Int
  BY DEF Solid
<1>2. v * k \in Int
  OBVIOUS
<1>3. t.tFirst \in Fractions /\ t.tLast \in Fractions /\ m \in Fractions
  BY DEF Times, Fractions
<1>4. SUFFICES p * (a.min - b.max) <= v * k /\ v * k <= p * (a.max - b.min)
  BY <1>1, <1>2, Distances DEF Touch
<1>5. p * (a.min - b.max) \in Int /\ p * (a.max - b.min) \in Int
  BY <1>1
<1>6. a.min - b.max \in Int /\ a.max - b.min \in Int /\ k \in Int
  BY <1>1
<1>7. /\ Quotient(a.min - b.max, v) \in Fractions
      /\ Quotient(a.max - b.min, v) \in Fractions
  BY <1>6, Quotients
<1>8. n \in Times
  BY NarrowedTimes
<1>9. n.tFirst \in Fractions /\ n.tLast \in Fractions
  BY <1>8 DEF Times
<1>10. CASE v > 0
  <2>1. a.max > b.min
    BY <1>1, <1>10 DEF MovesAway, EdgesMeet
  <2>2. NotLater(m, Quotient(a.max - b.min, v))
    <3>1. NotLater(n.tLast, Quotient(a.max - b.min, v))
      BY <1>3, <1>7, <1>10, <2>1, MaxMin DEF Narrowed
    <3> HIDE DEF n, m
    <3>2. QED  BY <3>1, <1>3, <1>7, <1>9, Transitive DEF n, m
  <2>3. v * k <= p * (a.max - b.min)
    BY <1>6, <1>10, <2>2, Quotients
  <2>4. p * (a.min - b.max) <= v * k
    <3>1. CASE a.min > b.max
      <4>1. NotLater(Quotient(a.min - b.max, v), n.tFirst)
        BY <1>3, <1>7, <1>10, <3>1, MaxMin DEF Narrowed
      <4>2. NotLater(Quotient(a.min - b.max, v), m)
        <5> HIDE DEF n, m
        <5>1. QED  BY <4>1, <1>3, <1>7, <1>9, Transitive DEF n, m
      <4>3. QED  BY <1>6, <1>10, <4>2, Quotients
    <3>2. CASE ~(a.min > b.max)
      <4>1. a.min - b.max <= 0
        BY <1>1, <3>2
      <4>2. p * (a.min - b.max) <= 0
        BY <4>1, <1>6
      <4>3. v * k >= 0
        BY <1>10
      <4>4. QED  BY <4>2, <4>3, <1>2, <1>5
    <3>3. QED  BY <3>1, <3>2
  <2>5. QED  BY <2>3, <2>4
<1>11. CASE v < 0
  <2>1. a.min < b.max
    BY <1>1, <1>11 DEF MovesAway, EdgesMeet
  <2>2. NotLater(m, Quotient(a.min - b.max, v))
    <3>1. NotLater(n.tLast, Quotient(a.min - b.max, v))
      BY <1>3, <1>7, <1>11, <2>1, MaxMin DEF Narrowed
    <3> HIDE DEF n, m
    <3>2. QED  BY <3>1, <1>3, <1>7, <1>9, Transitive DEF n, m
  <2>3. p * (a.min - b.max) <= v * k
    BY <1>6, <1>11, <2>2, Quotients
  <2>4. v * k <= p * (a.max - b.min)
    <3>1. CASE a.max < b.min
      <4>1. NotLater(Quotient(a.max - b.min, v), n.tFirst)
        BY <1>3, <1>7, <1>11, <3>1, MaxMin DEF Narrowed
      <4>2. NotLater(Quotient(a.max - b.min, v), m)
        <5> HIDE DEF n, m
        <5>1. QED  BY <4>1, <1>3, <1>7, <1>9, Transitive DEF n, m
      <4>3. QED  BY <1>6, <1>11, <4>2, Quotients
    <3>2. CASE ~(a.max < b.min)
      <4>1. a.max - b.min >= 0
        BY <1>1, <3>2
      <4>2. p * (a.max - b.min) >= 0
        BY <4>1, <1>6
      <4>3. v * k <= 0
        BY <1>11
      <4>4. QED  BY <4>2, <4>3, <1>2, <1>5
    <3>3. QED  BY <3>1, <3>2
  <2>5. QED  BY <2>3, <2>4
<1>12. QED
  BY <1>10, <1>11

-----------------------------------------------------------------------------
(* Half a scale is at least 1, so that every extent has an inside. *)
LEMMA Rectangles ==
  ASSUME NEW aabb \in AABB
  PROVE  Solid(aabb.x) /\ Solid(aabb.y)
<1>1. ASSUME NEW e \in Extent PROVE Solid(e)
  <2>1. PICK p \in Coordinate, s \in HalfSize : e = boundingBox(p, s)
    BY DEF Extent
  <2>2. p \in Int /\ s \in Nat \ {0}
    BY CollisionAssumption DEF CollisionAssumption
  <2>3. QED  BY <2>1, <2>2 DEF boundingBox, Solid
<1>2. QED
  BY <1>1 DEF AABB

(* The static test lets every two rectangles pass. *)
LEMMA NotNowhere ==
  ASSUME NEW aabb1 \in AABB, NEW aabb2 \in AABB
  PROVE  ~NowhereNear(aabb1, aabb2)
  BY Rectangles DEF NowhereNear, Solid

(* The moments that are tried are times of the frame. *)
LEMMA MomentTimes ==
  ASSUME NEW vel \in Moving
  PROVE  /\ vel.x \in Int \ {0} /\ vel.y \in Int \ {0}
         /\ Magnitude(vel.x) \in Nat \ {0} /\ Magnitude(vel.y) \in Nat \ {0}
         /\ Parts(vel) \in Nat \ {0} /\ Dt \in Nat \ {0}
         /\ FrameTime \in Times
<1>1. vel.x \in Int \ {0} /\ vel.y \in Int \ {0} /\ Dt \in Nat \ {0}
  BY CollisionAssumption DEF CollisionAssumption, Moving, Velocity
<1>2. Magnitude(vel.x) \in Nat \ {0} /\ Magnitude(vel.y) \in Nat \ {0}
  BY <1>1 DEF Magnitude
<1>3. Parts(vel) \in Nat \ {0}
  <2> DEFINE m == Magnitude(vel.x)
             n == Magnitude(vel.y)
  <2>1. m \in Nat \ {0} /\ n \in Nat \ {0}
    BY <1>2
  <2> HIDE DEF m, n
  <2>2. 2 * m * n \in Nat \ {0}
    <3>1. m * n > 0 /\ m * n \in Nat
      BY <2>1
    <3>2. 2 * m * n = 2 * (m * n)
      BY <2>1
    <3>3. QED  BY <3>1, <3>2
  <2>3. QED  BY <2>2 DEF Parts, m, n
<1>4. FrameTime \in Times
  BY <1>1 DEF FrameTime, Times, Fractions
<1>5. QED
  BY <1>1, <1>2, <1>3, <1>4

(* Whatever rectangles overlap within a frame, at whatever speeds, the     *)
(* test finds.                                                             *)
THEOREM NothingMissed == NoneMissed
<1>1. SUFFICES ASSUME NEW aabb1 \in AABB, NEW aabb2 \in AABB, NEW vel \in Moving,
                      NEW k \in Moments(vel), OverlapAt(aabb1, aabb2, vel, k)
               PROVE  CollisionIntersection_RectRect(aabb1, aabb2, vel)
  BY DEF NoneMissed
<1> DEFINE p == Parts(vel)
           m == <<k, p>>
           afterX == Narrowed(aabb1.x, aabb2.x, vel.x, FrameTime)
           afterY == Narrowed(aabb1.y, aabb2.y, vel.y, afterX)
<1>2. /\ vel.x \in Int \ {0} /\ vel.y \in Int \ {0} /\ FrameTime \in Times
      /\ p \in Nat \ {0} /\ Dt \in Nat \ {0}
  BY MomentTimes
<1>3. Solid(aabb1.x) /\ Solid(aabb2.x) /\ Solid(aabb1.y) /\ Solid(aabb2.y)
  BY Rectangles
<1>4. k \in Nat /\ k <= Dt * p
  BY <1>2 DEF Moments
<1>5. NotLater(FrameTime.tFirst, m) /\ NotLater(m, FrameTime.tLast)
  <2>1. 0 * p <= k * 1 /\ k * 1 <= Dt * p
    BY <1>2, <1>4
  <2> HIDE DEF p
  <2>2. QED  BY <2>1 DEF FrameTime, NotLater
<1>6. /\ Overlap(aabb1.x, aabb2.x, vel.x, k, p)
      /\ Overlap(aabb1.y, aabb2.y, vel.y, k, p)
  BY <1>1 DEF OverlapAt
<1> HIDE DEF p
<1>7. /\ ~MovesAway(aabb1.x, aabb2.x, vel.x)
      /\ NotLater(afterX.tFirst, m) /\ NotLater(m, afterX.tLast)
  BY <1>2, <1>3, <1>4, <1>5, <1>6, OverlapKept
<1>8. afterX \in Times
  BY <1>2, <1>3, NarrowedTimes
<1>9. /\ ~MovesAway(aabb1.y, aabb2.y, vel.y)
      /\ NotLater(afterY.tFirst, m) /\ NotLater(m, afterY.tLast)
  <2> HIDE DEF afterX
  <2>1. QED  BY <1>2, <1>3, <1>4, <1>6, <1>7, <1>8, OverlapKept
<1>10. afterY \in Times
  <2> HIDE DEF afterX
  <2>1. QED  BY <1>2, <1>3, <1>8, NarrowedTimes
<1>11. m \in Fractions
  BY <1>2, <1>4 DEF Fractions
<1>12. NotLater(afterX.tFirst, afterX.tLast) /\ NotLater(afterY.tFirst, afterY.tLast)
  <2> HIDE DEF afterX, afterY, m
  <2>1. QED  BY <1>7, <1>8, <1>9, <1>10, <1>11, Transitive DEF Times
<1>13. QED
  BY <1>7, <1>9, <1>12, NotNowhere DEF CollisionIntersection_RectRect

(* A moment in the units of the reference. *)
LEMMA TouchScaled ==
  ASSUME NEW a, NEW b, Solid(a), Solid(b), NEW v \in Int, NEW k \in Nat,
         NEW p \in Nat \ {0}, NEW q \in Nat \ {0}, Touch(a, b, v, k, p)
  PROVE  Touch(a, b, v, k * q, p * q)
<1>1. a.min \in Int /\ a.max \in Int /\ b.min \in Int /\ b.max \in Int
  BY DEF Solid
<1>2. ASSUME NEW x \in Int, NEW y \in Int, p * x <= p * y + v * k
      PROVE  (p * q) * x <= (p * q) * y + v * (k * q)
  <2>1. (p * x) * q <= (p * y + v * k) * q
    <3>1. p * x \in Int /\ p * y + v * k \in Int
      OBVIOUS
    <3> DEFINE l == p * x
               r == p * y + v * k
    <3>2. l \in Int /\ r \in Int /\ l <= r
      BY <3>1, <1>2
    <3> HIDE DEF l, r
    <3>3. l * q <= r * q
      BY <3>2, Cancel
    <3>4. QED  BY <3>3 DEF l, r
  <2>2. (p * x) * q = (p * q) * x /\ (p * y + v * k) * q = (p * q) * y + v * (k * q)
    OBVIOUS
  <2>3. QED  BY <2>1, <2>2
<1>3. ASSUME NEW x \in Int, NEW y \in Int, p * x + v * k <= p * y
      PROVE  (p * q) * x + v * (k * q) <= (p * q) * y
  <2>1. (p * x + v * k) * q <= (p * y) * q
    <3>1. p * y \in Int /\ p * x + v * k \in Int
      OBVIOUS
    <3> DEFINE l == p * x + v * k
               r == p * y
    <3>2. l \in Int /\ r \in Int /\ l <= r
      BY <3>1, <1>3
    <3> HIDE DEF l, r
    <3>3. l * q <= r * q
      BY <3>2, Cancel
    <3>4. QED  BY <3>3 DEF l, r
  <2>2. (p * y) * q = (p * q) * y /\ (p * x + v * k) * q = (p * q) * x + v * (k * q)
    OBVIOUS
  <2>3. QED  BY <2>1, <2>2
<1>4. QED
  BY <1>1, <1>2, <1>3 DEF Touch

(* Whatever the test finds touches within the frame, or met edge to edge.  *)
THEOREM NothingInvented == NoneInvented
<1>1. SUFFICES ASSUME NEW aabb1 \in AABB, NEW aabb2 \in AABB, NEW vel \in Moving,
                      CollisionIntersection_RectRect(aabb1, aabb2, vel),
                      ~EdgesMeet(aabb1.x, aabb2.x), ~EdgesMeet(aabb1.y, aabb2.y)
               PROVE  \E k \in Moments(vel) : TouchAt(aabb1, aabb2, vel, k)
  BY DEF NoneInvented
<1> DEFINE afterX == Narrowed(aabb1.x, aabb2.x, vel.x, FrameTime)
           afterY == Narrowed(aabb1.y, aabb2.y, vel.y, afterX)
           m == afterY.tFirst
           k == m[1]
           p == m[2]
<1>2. /\ vel.x \in Int \ {0} /\ vel.y \in Int \ {0} /\ FrameTime \in Times
      /\ Magnitude(vel.x) \in Nat \ {0} /\ Magnitude(vel.y) \in Nat \ {0}
      /\ Dt \in Nat \ {0}
  BY MomentTimes
<1>3. Solid(aabb1.x) /\ Solid(aabb2.x) /\ Solid(aabb1.y) /\ Solid(aabb2.y)
  BY Rectangles
<1>4. /\ afterX \in Times
      /\ NotLater(FrameTime.tFirst, afterX.tFirst)
      /\ NotLater(afterX.tLast, FrameTime.tLast)
      /\ afterX.tFirst[2] \in {1, Magnitude(vel.x)}
  <2>1. FrameTime.tFirst[2] = 1
    BY DEF FrameTime
  <2>2. QED  BY <1>2, <1>3, <2>1, NarrowedTimes
<1>5. /\ afterY \in Times
      /\ NotLater(afterX.tFirst, afterY.tFirst)
      /\ NotLater(afterY.tLast, afterX.tLast)
      /\ p \in {afterX.tFirst[2], Magnitude(vel.y)}
  <2> HIDE DEF afterX
  <2>1. QED  BY <1>2, <1>3, <1>4, NarrowedTimes
<1>6. /\ ~MovesAway(aabb1.x, aabb2.x, vel.x) /\ ~MovesAway(aabb1.y, aabb2.y, vel.y)
      /\ NotLater(afterX.tFirst, afterX.tLast) /\ NotLater(m, afterY.tLast)
  BY <1>1 DEF CollisionIntersection_RectRect
<1>7. /\ afterX.tFirst \in Fractions /\ afterX.tLast \in Fractions
      /\ m \in Fractions /\ afterY.tLast \in Fractions
      /\ FrameTime.tFirst \in Fractions /\ FrameTime.tLast \in Fractions
  BY <1>2, <1>4, <1>5 DEF Times
<1>8. /\ NotLater(m, m)
      /\ NotLater(m, afterX.tLast)
      /\ NotLater(m, FrameTime.tLast)
      /\ NotLater(FrameTime.tFirst, m)
  <2> HIDE DEF afterX, afterY, m
  <2>1. NotLater(m, m)
    <3>1. m[1] * m[2] \in Int
      BY <1>7 DEF Fractions
    <3>2. QED  BY <3>1 DEF NotLater
  <2>2. NotLater(m, afterX.tLast)
    BY <1>5, <1>6, <1>7, Transitive
  <2>3. NotLater(m, FrameTime.tLast)
    BY <2>2, <1>4, <1>7, Transitive
  <2>4. NotLater(FrameTime.tFirst, m)
    BY <1>4, <1>5, <1>7, Transitive DEF m
  <2>5. QED  BY <2>1, <2>2, <2>3, <2>4
<1>9. k \in Nat /\ p \in Nat \ {0} /\ k <= Dt * p /\ m = <<k, p>>
  <2>1. k \in Int /\ p \in Nat \ {0} /\ m = <<k, p>>
    BY <1>7 DEF Fractions
  <2>2. 0 * p <= k * 1 /\ k * 1 <= Dt * p
    BY <1>8 DEF FrameTime, NotLater
  <2> HIDE DEF k, p
  <2>3. QED  BY <2>1, <2>2
<1>10. Touch(aabb1.x, aabb2.x, vel.x, k, p) /\ Touch(aabb1.y, aabb2.y, vel.y, k, p)
  <2> HIDE DEF k, p
  <2>1. Touch(aabb1.x, aabb2.x, vel.x, k, p)
    BY <1>1, <1>2, <1>3, <1>5, <1>6, <1>8, <1>9, TouchFound
  <2> HIDE DEF afterX
  <2>2. Touch(aabb1.y, aabb2.y, vel.y, k, p)
    BY <1>1, <1>2, <1>3, <1>4, <1>6, <1>8, <1>9, TouchFound
  <2>3. QED  BY <2>1, <2>2
<1>11. \E q \in Nat \ {0} : Parts(vel) = p * q
  <2> DEFINE x == Magnitude(vel.x)
             y == Magnitude(vel.y)
  <2>1. p \in {1, x, y} /\ x \in Nat \ {0} /\ y \in Nat \ {0}
    BY <1>2, <1>4, <1>5
  <2> HIDE DEF x, y, p
  <2>2. 2 * x * y = 1 * (2 * x * y) /\ 2 * x * y = x * (2 * y) /\ 2 * x * y = y * (2 * x)
    BY <2>1
  <2>3. 2 * x * y \in Nat \ {0} /\ 2 * y \in Nat \ {0} /\ 2 * x \in Nat \ {0}
    <3>1. x * y > 0 /\ x * y \in Nat
      BY <2>1
    <3>2. 2 * x * y = 2 * (x * y)
      BY <2>1
    <3>3. QED  BY <2>1, <3>1, <3>2
  <2>4. Parts(vel) = 2 * x * y
    BY DEF Parts, x, y
  <2>5. QED  BY <2>1, <2>2, <2>3, <2>4
<1>12. PICK q \in Nat \ {0} : Parts(vel) = p * q
  BY <1>11
<1> HIDE DEF k, p
<1>13. k * q \in Moments(vel)
  <2>1. k * q <= (Dt * p) * q
    <3>1. Dt * p \in Int /\ k \in Int
      BY <1>2, <1>9
    <3>2. QED  BY <3>1, <1>9, Cancel
  <2>2. (Dt * p) * q = Dt * (p * q) /\ k * q \in Nat
    BY <1>2, <1>9
  <2>3. Dt * (p * q) \in Nat
    BY <1>2, <1>9
  <2>4. QED  BY <1>12, <2>1, <2>2, <2>3 DEF Moments
<1>14. TouchAt(aabb1, aabb2, vel, k * q)
  BY <1>2, <1>3, <1>9, <1>10, <1>12, TouchScaled DEF TouchAt
<1>15. QED
  BY <1>13, <1>14

-----------------------------------------------------------------------------
(* GameStateAsteroidsUpdate, spawnLives and spawnAsteroid put everything   *)
(* where it can be met.                                                    *)
THEOREM InPlace == Spec => []EverythingInPlace
<1>1. EverythingInPlace
  BY ShipStays, PickedUp, Outside DEF EverythingInPlace
<1>2. QED
  BY <1>1, PTL

(* CollisionIntersection_RectRect misses nothing that moves and invents no *)
(* hit, for rectangles and speeds of any size.                             *)
THEOREM Exact == Spec => []CollisionIsExact
<1>1. CollisionIsExact
  BY NothingMissed, NothingInvented DEF CollisionIsExact
<1>2. QED
  BY <1>1, PTL
=============================================================================
