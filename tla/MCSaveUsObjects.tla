-------------------------- MODULE MCSaveUsObjects --------------------------
(* Instances of SaveUsObjects for TLC.  One run explores several instances *)
(* that differ in what the players do.                                     *)
EXTENDS SaveUsObjects

\* a spark is one particle on the server and none on the clients
OnServer == [p \in Player |-> IF p = Server THEN 1 ELSE 0]

Instance(shooter, weapons, mortal, ships, updates) ==
  [Shooter |-> shooter, Weapons |-> weapons, Mortal |-> mortal,
   MaxShip |-> ships, MaxUpdate |-> updates]

AllLimits ==
  { \* the client shoots at asteroids it sees
    Instance({1}, {TYPE_BULLET}, {}, 2, 1),
    \* bombs, which survive their hits, and missiles, which always split
    Instance({1}, {TYPE_BOMB}, {}, 2, 0),
    Instance({0}, {TYPE_MISSILE}, {}, 2, 0),
    \* repeated acknowledgements of the SYN_ACK fill the pool with ships
    Instance({1}, {TYPE_BULLET}, {}, 3, 0),
    \* asteroids hit the ships
    Instance({}, {}, {0, 1}, 4, 1) }
=============================================================================
