-------------------------- MODULE AsteroidsMotion --------------------------
(* How GameStateAsteroidsUpdate moves the own ship, on one axis: the keys  *)
(* change its velocity, the velocity its position, and the position wraps  *)
(* around the window.  Whole numbers, the length of a frame is the unit of *)
(* time; the product with 0.99 is rounded towards 0.                       *)
EXTENDS Integers

CONSTANTS
  Forward,      (* SHIP_ACCEL_FORWARD * g_dt *)
  Backward,     (* - SHIP_ACCEL_BACKWARD * g_dt *)
  WinMax        (* AEGfxGetWinMaxX() + SHIP_SIZE; the minimum is its negative *)

ASSUME ForwardAssumption == Forward \in Nat \ {0} /\ Backward \in 0 .. Forward
ASSUME WindowAssumption == WinMax \in Nat /\ 99 * Forward <= 2 * WinMax

Velocities == -99 * Forward .. 99 * Forward
Positions == -WinMax .. WinMax
Heading == {-1, 0, 1}       (* of dirCurr: which way the axis is faced, if at all *)

Dampened(v) == IF v >= 0 THEN (v * 99) \div 100 ELSE -((-v * 99) \div 100)

(* The UP and the DOWN key; both may be pressed. *)
Accelerate(v, heading, up) == IF up THEN Dampened(v + heading * Forward) ELSE v
Reverse(v, heading, down) == IF down THEN Dampened(v - heading * Backward) ELSE v
Steer(v, heading, up, down) == Reverse(Accelerate(v, heading, up), heading, down)

Move(x, v) == x + v

AEWrap(x, x0, x1) ==
  IF x < x0 THEN x + (x1 - x0) ELSE IF x > x1 THEN x - (x1 - x0) ELSE x

WrapShip(x) == AEWrap(x, -WinMax, WinMax)

(* The speed is limited, although the code says so of a factor that only   *)
(* dampens, and a ship anywhere in the window, at any speed it can reach,  *)
(* is in the window after the frame: AEWrap adds the range only once.      *)
ShipStaysInWindow ==
  \A v \in Velocities, heading \in Heading, up, down \in BOOLEAN :
    LET vel == Steer(v, heading, up, down) IN
    /\ vel \in Velocities
    /\ \A x \in Positions : WrapShip(Move(x, vel)) \in Positions
=============================================================================
