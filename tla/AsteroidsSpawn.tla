-------------------------- MODULE AsteroidsSpawn --------------------------
(* Where an asteroid and a pickup appear: spawnAsteroid of the Server      *)
(* (server.cpp) and of the client (GameState_Asteroids.cpp), which are the *)
(* same but for the names of the functions they call, and spawnLives of    *)
(* the client.  RandFloat is a draw out of RAND_MAX, which it may reach;   *)
(* all lengths are counted in units of 1 / RAND_MAX, so that they stay     *)
(* whole.  The direction of the velocity is left out.                      *)
EXTENDS Integers

CONSTANTS
  RAND_MAX,
  ASTEROID_SIZE,
  ASTEROID_SPEED,
  HALF_WIDTH, HALF_HEIGHT   (* of the window *)

ASSUME SpawnAssumption ==
  /\ {RAND_MAX, ASTEROID_SIZE, ASTEROID_SPEED, HALF_WIDTH, HALF_HEIGHT} \subseteq Nat \ {0}
  /\ ASTEROID_SIZE < HALF_HEIGHT

Draws == 0 .. RAND_MAX
Whole(n) == n * RAND_MAX

(* pos has no initial value: a side that no case names would leave it so. *)
Unset == [set |-> FALSE, x |-> 0, y |-> 0]
At(x, y) == [set |-> TRUE, x |-> x, y |-> y]

size(r) == r * ASTEROID_SIZE + Whole(ASTEROID_SIZE)

(* dir is 2 only for the largest draw, and - r * -SPEED adds. *)
speed(d, r) ==
  CASE (2 * d) \div RAND_MAX \in {0, 1} -> Whole(ASTEROID_SPEED) + r * ASTEROID_SPEED
    [] (2 * d) \div RAND_MAX = 2        -> Whole(ASTEROID_SPEED) - r * (-ASTEROID_SPEED)

(* Mutant: as if there were six sides. *)
SixthSide(r) == (6 * r) \div RAND_MAX
side(r) == (5 * r) \div RAND_MAX

AsteroidPosition(where, r, s) ==
  LET x == r * HALF_WIDTH + s
      y == Whole(HALF_HEIGHT) + s
  IN  CASE where \in {0, 1} -> At(-x, y)
        [] where = 2        -> At(x, y)
        [] where = 3        -> At(-x, -y)
        [] where \in {4, 5} -> At(x, -y)
        [] OTHER            -> Unset

spawnAsteroid(draws) ==
  [size  |-> size(draws[1]),
   speed |-> speed(draws[2], draws[3]),
   pos   |-> AsteroidPosition(side(draws[4]), draws[5], size(draws[1]))]

LivesPosition(where, r, q) ==
  LET x == r * HALF_WIDTH
      y == q * HALF_HEIGHT
  IN  CASE where \in {0, 1} -> At(x, y)
        [] where = 2        -> At(-x, y)
        [] where = 3        -> At(x, -y)
        [] where \in {4, 5} -> At(-x, -y)
        [] OTHER            -> Unset

spawnLives(draws) == LivesPosition(side(draws[1]), draws[2], draws[3])

-----------------------------------------------------------------------------
(* Whatever is drawn, the largest draw included, an asteroid gets a place, *)
(* and no part of it lies in the window (server.cpp:831).  It is between   *)
(* once and twice as large as ASTEROID_SIZE and as fast as ASTEROID_SPEED: *)
(* the comment on that constant, "maximum asteroid speed" (server.cpp:43), *)
(* is not what the code makes of it, which is the least speed.             *)
SpawnedOutside ==
  \A draws \in [1 .. 5 -> Draws] :
    LET a == spawnAsteroid(draws)
    IN  /\ a.pos.set
        /\ \/ 2 * a.pos.y - a.size > 2 * Whole(HALF_HEIGHT)
           \/ 2 * a.pos.y + a.size < -2 * Whole(HALF_HEIGHT)
        /\ a.size \in Whole(ASTEROID_SIZE) .. 2 * Whole(ASTEROID_SIZE)
        /\ a.speed \in Whole(ASTEROID_SPEED) .. 2 * Whole(ASTEROID_SPEED)

(* Whatever is drawn, a pickup lies in the window, where ships get it.     *)
(* The comment in spawnLives, "outside the window"                         *)
(* (GameState_Asteroids.cpp:1062), was left from spawnAsteroid.            *)
PickedUpInside ==
  \A draws \in [1 .. 3 -> Draws] :
    LET pos == spawnLives(draws)
    IN  /\ pos.set
        /\ pos.x \in -Whole(HALF_WIDTH) .. Whole(HALF_WIDTH)
        /\ pos.y \in -Whole(HALF_HEIGHT) .. Whole(HALF_HEIGHT)
=============================================================================
