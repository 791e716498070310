-------------------------- MODULE MCAsteroidsGame --------------------------
(* The instance of AsteroidsGame that is checked, and beside it the        *)
(* collision test on all rectangles of a small grid, the motion of the     *)
(* ship on one axis, and all draws of a coarse random number.              *)
EXTENDS AsteroidsGame, AsteroidsCollision, AsteroidsMotion, AsteroidsSpawn

MCCoordinate == 0 .. 4
MCHalfSize == {1, 2}
MCSpeed == -2 .. 2

(* The collision test, the motion and the draws depend on no variable:     *)
(* they are judged once, before the game starts.                           *)
AtFirst == main = "manager" /\ ~av_connected

(* No hit is missed and none is invented: CollisionIntersection_RectRect   *)
(* finds what crosses an asteroid's way within one frame, and nothing that *)
(* passes by, if both axes move.                                           *)
CollisionIsExact == AtFirst => NoneMissed /\ NoneInvented

(* Everything is where it can be met: at the speeds and in the frames the  *)
(* instance allows the main loop keeps the ship in the window, and         *)
(* whatever is drawn a pickup appears inside it and an asteroid outside.   *)
EverythingInPlace == AtFirst => ShipStaysInWindow /\ PickedUpInside /\ SpawnedOutside
=============================================================================
