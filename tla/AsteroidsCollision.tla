------------------------ MODULE AsteroidsCollision ------------------------
(* CollisionIntersection_RectRect (Collision.cpp), the test by which       *)
(* GameStateAsteroidsUpdate decides what asteroids and pickups hit: do two *)
(* moving rectangles meet within the frame?  The code treats the axes      *)
(* alike, one after the other, and narrows the time of contact.  Distances *)
(* and speeds are whole numbers, times the fractions the divisions yield;  *)
(* rounding is left out.                                                   *)
EXTENDS Integers

CONSTANTS
  Coordinate,    (* of the positions: a set of integers *)
  HalfSize,      (* half of the scales *)
  Speed,         (* the relative speeds on one axis *)
  Dt             (* g_dt *)

ASSUME CollisionAssumption ==
  /\ Coordinate \subseteq Int /\ Speed \subseteq Int
  /\ HalfSize \subseteq Nat \ {0} /\ Dt \in Nat \ {0}

(* The extent on one axis of what is at posCurr, and the rectangle AABB. *)
boundingBox(posCurr, half) == [min |-> posCurr - half, max |-> posCurr + half]
Extent == {boundingBox(p, s) : p \in Coordinate, s \in HalfSize}
AABB == [x : Extent, y : Extent]
Velocity == [x : Speed, y : Speed]

-----------------------------------------------------------------------------
(* A time is a fraction with a denominator that is not negative.  The only *)
(* quotient by 0 the code computes is of a negative number and the +0 of   *)
(* equal velocities: minus infinity, <<-1, 0>>.                            *)

Quotient(n, d) == IF d = 0 THEN <<-1, 0>> ELSE IF d > 0 THEN <<n, d>> ELSE <<-n, -d>>
NotLater(s, t) == s[1] * t[2] <= t[1] * s[2]
AEMax(s, t) == IF NotLater(t, s) THEN s ELSE t
AEMin(s, t) == IF NotLater(s, t) THEN s ELSE t

(* Two extents that part: b is beyond a already and does not come closer. *)
MovesAway(a, b, vel) == IF vel <= 0 THEN a.min > b.max ELSE a.max < b.min

(* When b, at the speed vel, comes to a and when it has passed it. *)
Narrowed(a, b, vel, t) ==
  IF vel <= 0
  THEN [tFirst |-> IF a.max < b.min
                   THEN AEMax(Quotient(a.max - b.min, vel), t.tFirst) ELSE t.tFirst,
        tLast |-> IF a.min < b.max
                  THEN AEMin(Quotient(a.min - b.max, vel), t.tLast) ELSE t.tLast]
  ELSE [tFirst |-> IF a.min > b.max
                   THEN AEMax(Quotient(a.min - b.max, vel), t.tFirst) ELSE t.tFirst,
        tLast |-> IF a.max > b.min
                  THEN AEMin(Quotient(a.max - b.min, vel), t.tLast) ELSE t.tLast]

FrameTime == [tFirst |-> <<0, 1>>, tLast |-> <<Dt, 1>>]

(* The static test, which no two rectangles fail: one of their four        *)
(* comparisons always holds.                                               *)
ApartNow(aabb1, aabb2) ==
  \/ aabb1.x.max <= aabb2.x.min \/ aabb2.x.max <= aabb1.x.min
  \/ aabb1.y.max <= aabb2.y.min \/ aabb2.y.max <= aabb1.y.min

NowhereNear(aabb1, aabb2) ==
  /\ aabb1.x.max <= aabb2.x.min /\ aabb2.x.max <= aabb1.x.min
  /\ aabb1.y.max <= aabb2.y.min /\ aabb2.y.max <= aabb1.y.min

(* vel is the velocity of the second rectangle relative to the first. *)
CollisionIntersection_RectRect(aabb1, aabb2, vel) ==
  LET afterX == Narrowed(aabb1.x, aabb2.x, vel.x, FrameTime)
      afterY == Narrowed(aabb1.y, aabb2.y, vel.y, afterX)
  IN  /\ ~NowhereNear(aabb1, aabb2)
      /\ ~MovesAway(aabb1.x, aabb2.x, vel.x)
      /\ NotLater(afterX.tFirst, afterX.tLast)
      /\ ~MovesAway(aabb1.y, aabb2.y, vel.y)
      /\ NotLater(afterY.tFirst, afterY.tLast)

-----------------------------------------------------------------------------
(* The reference: the extents of b at the times k / Parts(vel), which are  *)
(* enough: contacts start and end at multiples of 1 / vel.x or 1 / vel.y,  *)
(* and a time between any two of them is a multiple of half their product. *)

Magnitude(n) == IF n < 0 THEN -n ELSE n
Parts(vel) == 2 * Magnitude(vel.x) * Magnitude(vel.y)
Moments(vel) == 0 .. Dt * Parts(vel)

Overlap(a, b, v, k, parts) ==
  parts * a.min < parts * b.max + v * k /\ parts * b.min + v * k < parts * a.max
Touch(a, b, v, k, parts) ==
  parts * a.min <= parts * b.max + v * k /\ parts * b.min + v * k <= parts * a.max

OverlapAt(aabb1, aabb2, vel, k) ==
  /\ Overlap(aabb1.x, aabb2.x, vel.x, k, Parts(vel))
  /\ Overlap(aabb1.y, aabb2.y, vel.y, k, Parts(vel))
TouchAt(aabb1, aabb2, vel, k) ==
  /\ Touch(aabb1.x, aabb2.x, vel.x, k, Parts(vel))
  /\ Touch(aabb1.y, aabb2.y, vel.y, k, Parts(vel))

EdgesMeet(a, b) == a.min = b.max \/ a.max = b.min

(* Rectangles whose relative velocity is 0 on neither axis.  With 0 on one *)
(* axis the division makes tLast minus infinity, and the code reports no   *)
(* collision however much the rectangles overlap.                          *)
Moving == {vel \in Velocity : vel.x # 0 /\ vel.y # 0}

(* Nothing that moves is missed: rectangles that overlap at some time of   *)
(* the frame collide, also when they overlap neither before nor after it.  *)
NoneMissed ==
  \A aabb1, aabb2 \in AABB, vel \in Moving :
    (\E k \in Moments(vel) : OverlapAt(aabb1, aabb2, vel, k))
      => CollisionIntersection_RectRect(aabb1, aabb2, vel)

(* Nothing is hit that is not there: a collision means that the rectangles *)
(* at least touch at one time of the frame on both axes, unless they start *)
(* edge to edge.                                                           *)
NoneInvented ==
  \A aabb1, aabb2 \in AABB, vel \in Moving :
    CollisionIntersection_RectRect(aabb1, aabb2, vel) =>
      \/ EdgesMeet(aabb1.x, aabb2.x) \/ EdgesMeet(aabb1.y, aabb2.y)
      \/ \E k \in Moments(vel) : TouchAt(aabb1, aabb2, vel, k)
=============================================================================
