-------------------------- MODULE MCSaveUsSession --------------------------
(* Instances of SaveUsSession for TLC. *)
EXTENDS SaveUsSession, TLC

\* every client process has a port of its own
OwnPort == [p \in Client \cup {Server} |-> p]

Symmetry == Permutations(Client)

-----------------------------------------------------------------------------
(* One run looks at three kinds of session: everybody may come and go and  *)
(* nobody fights; or a single client plays, fires, dies and leaves, and    *)
(* then the server's ship is destroyed only if the client never fired; or  *)
(* the server's player fires at asteroids while a single client watches.   *)

Sent(type) == \E m \in net : m.type = type
Fired == Sent("PLAYER_SHOT")
ServerFired == 0 \in bullets \/ Sent("ASTEROID_UPDATE")

Alone ==
  /\ clients_count <= 1
  /\ Cardinality({c \in Client : pc[c] # "off"}) <= 1

Unharmed == mGame[Server].spShip /\ ~Sent("PLAYER_DEATH")

Peaceful == Unharmed /\ ~Fired /\ ~ServerFired

Duel ==
  /\ Alone /\ ~ServerFired
  /\ Fired => mGame[Server].spShip \/ mGame[Server].game_won

Watched ==
  /\ Alone /\ Unharmed
  /\ bullets \subseteq {0}
  /\ \A m \in net : m.type = "PLAYER_SHOT" => m.id = 0

OneKind == (Peaceful \/ Duel \/ Watched)'
=============================================================================
