--------------------------- MODULE BoundedBuffer ---------------------------
(* What the TaskQueue of the Server promises to those who use it: a queue  *)
(* of at most Capacity items, out of which every item is taken once, in    *)
(* the order in which the items were put.                                  *)
EXTENDS Naturals, Sequences

CONSTANTS
  Item,      (* the items producers may put *)
  Capacity   (* how many fit into the queue *)

VARIABLES
  queue,     (* the items that were put and not taken *)
  taken      (* the items that were taken *)

Init ==
  /\ queue = <<>>
  /\ taken = {}

Put(i) ==
  /\ Len(queue) < Capacity
  /\ i \notin taken
  /\ \A k \in 1 .. Len(queue) : queue[k] # i
  /\ queue' = Append(queue, i)
  /\ UNCHANGED taken

Take ==
  /\ queue # <<>>
  /\ Head(queue) \notin taken
  /\ taken' = taken \cup {Head(queue)}
  /\ queue' = Tail(queue)

Next == Take \/ \E i \in Item : Put(i)

Spec == Init /\ [][Next]_<<queue, taken>>
=============================================================================
