---------------------------- MODULE AtLeastOnce ----------------------------
(***************************************************************************)
(* What the acknowledgements of "2.0 Save Us" promise for one direction of *)
(* one connection: a numbered packet may be played several times and in    *)
(* any order, but it is confirmed to its sender only after it was played,  *)
(* and unless the connection breaks it is confirmed eventually.            *)
(***************************************************************************)
CONSTANT Num

VARIABLES posted, played, confirmed, broken

vars == <<posted, played, confirmed, broken>>

Init ==
  /\ posted = {}
  /\ played = {}
  /\ confirmed = {}
  /\ broken = FALSE

Post(n) ==
  /\ n \in Num \ posted
  /\ posted' = posted \cup {n}
  /\ UNCHANGED <<played, confirmed, broken>>

Play(n) ==
  /\ n \in posted \ played
  /\ played' = played \cup {n}
  /\ UNCHANGED <<posted, confirmed, broken>>

Confirm(n) ==
  /\ n \in played \ confirmed
  /\ confirmed' = confirmed \cup {n}
  /\ UNCHANGED <<posted, played, broken>>

Break ==
  /\ broken' = TRUE
  /\ UNCHANGED <<posted, played, confirmed>>

Next == Break \/ \E n \in Num : Post(n) \/ Play(n) \/ Confirm(n)

Safe == Init /\ [][Next]_vars

Spec ==
  /\ Safe
  /\ \A n \in Num : /\ WF_vars(~broken /\ Play(n))
                    /\ WF_vars(~broken /\ Confirm(n))
=============================================================================
