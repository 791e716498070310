----------------------------- MODULE TaskQueue -----------------------------
(* The thread pool of the Server (Include/taskqueue.h, taskqueue.hpp):     *)
(* producers block while there is no free slot, workers while there is no  *)
(* item.  The buffer, the count of free slots and the count of items have  *)
(* a mutex each, and no thread holds two of them, so that every critical   *)
(* section is one action here and other threads run between them.          *)
EXTENDS Integers, Sequences, FiniteSets

CONSTANTS
  Producer,   (* the threads that call produce *)
  Worker,     (* the threads of _workers, workerCount of them *)
  Slots,      (* slotCount of the constructor *)
  MaxItem     (* bound: how many items each producer produces *)

ASSUME ThreadsAssumption ==
  /\ IsFiniteSet(Producer)
  /\ IsFiniteSet(Worker)
  /\ Producer \cap Worker = {}

ASSUME SizesAssumption == Slots \in Nat \ {0} /\ MaxItem \in Nat

VARIABLES
  slotCount,  (* _slotCount: free slots, under _slotCountMutex *)
  buffer,     (* _buffer, under _bufferMutex *)
  itemCount,  (* _itemCount: announced items, under _itemCountMutex *)
  stay,       (* _stay, written without any mutex *)
  pc,         (* where each thread is; "blocked" is inside condition_variable::wait *)
  item,       (* the item each worker has popped last *)
  made,       (* how many items each producer has pushed *)
  executed,   (* the items whose action was executed *)
  owner       (* the thread that owns the TaskQueue and will destroy it *)

vars == <<slotCount, buffer, itemCount, stay, pc, item, made, executed, owner>>

Thread == Producer \cup Worker
Item == Producer \X (1 .. MaxItem)
Nothing == <<>>

TypeOK ==
  /\ slotCount \in 0 .. Slots
  /\ buffer \in Seq(Item)
  /\ itemCount \in 0 .. Slots
  /\ stay \in BOOLEAN
  /\ pc \in [Thread -> {"idle", "wait", "blocked", "push", "announce",
                        "pop", "release", "action", "disconnect", "exited"}]
  /\ item \in [Worker -> Item \cup {Nothing}]
  /\ made \in [Producer -> 0 .. MaxItem]
  /\ executed \in SUBSET Item
  /\ owner \in {"uses", "joins", "destroyed"}

Init ==
  /\ slotCount = Slots
  /\ buffer = <<>>
  /\ itemCount = 0
  /\ stay = TRUE
  /\ pc = [t \in Thread |-> IF t \in Worker THEN "wait" ELSE "idle"]
  /\ item = [w \in Worker |-> Nothing]
  /\ made = [p \in Producer |-> 0]
  /\ executed = {}
  /\ owner = "uses"

(* condition_variable::notify_one: some thread of T that is blocked, if    *)
(* there is one, goes back to the test of its condition.                   *)
NotifyOne(T) ==
  LET blocked == {t \in T : pc[t] = "blocked"}
  IN  IF blocked = {} THEN {pc} ELSE {[pc EXCEPT ![t] = "wait"] : t \in blocked}

(* A condition variable may wake a thread for no reason. *)
SpuriousWakeup(t) ==
  /\ pc[t] = "blocked"
  /\ pc' = [pc EXCEPT ![t] = "wait"]
  /\ UNCHANGED <<slotCount, buffer, itemCount, stay, item, made, executed, owner>>

-----------------------------------------------------------------------------
(* produce                                                                 *)

Produce(p) ==
  /\ pc[p] = "idle" /\ made[p] < MaxItem
  /\ owner = "uses"
  /\ pc' = [pc EXCEPT ![p] = "wait"]
  /\ UNCHANGED <<slotCount, buffer, itemCount, stay, item, made, executed, owner>>

(* --_slotCount, once the condition _slotCount > 0 holds. *)
AcquireSlotIf(p, available) ==
  /\ pc[p] = "wait"
  /\ \/ /\ available
        /\ slotCount' = slotCount - 1
        /\ pc' = [pc EXCEPT ![p] = "push"]
     \/ /\ ~available
        /\ pc' = [pc EXCEPT ![p] = "blocked"]
        /\ UNCHANGED slotCount
  /\ UNCHANGED <<buffer, itemCount, stay, item, made, executed, owner>>

AcquireSlotOffByOne(p) == AcquireSlotIf(p, slotCount >= 0)
AcquireSlot(p) == AcquireSlotIf(p, slotCount > 0)

Push(p) ==
  /\ pc[p] = "push"
  /\ made' = [made EXCEPT ![p] = @ + 1]
  /\ buffer' = Append(buffer, <<p, made'[p]>>)
  /\ pc' = [pc EXCEPT ![p] = "announce"]
  /\ UNCHANGED <<slotCount, itemCount, stay, item, executed, owner>>

AnnounceTo(p, workers) ==
  /\ pc[p] = "announce"
  /\ itemCount' = itemCount + 1
  /\ \E woken \in NotifyOne(workers) : pc' = [woken EXCEPT ![p] = "idle"]
  /\ UNCHANGED <<slotCount, buffer, stay, item, made, executed, owner>>

AnnounceQuietly(p) == AnnounceTo(p, {})
AnnounceItem(p) == AnnounceTo(p, Worker)

-----------------------------------------------------------------------------
(* consume                                                                 *)

BlockConsumer(w) ==
  /\ pc[w] = "wait"
  /\ itemCount = 0 /\ stay
  /\ pc' = [pc EXCEPT ![w] = "blocked"]
  /\ UNCHANGED <<slotCount, buffer, itemCount, stay, item, made, executed, owner>>

AcquireItem(w) ==
  /\ pc[w] = "wait"
  /\ itemCount > 0
  /\ itemCount' = itemCount - 1
  /\ pc' = [pc EXCEPT ![w] = "pop"]
  /\ UNCHANGED <<slotCount, buffer, stay, item, made, executed, owner>>

(* No item is left and ~_stay: the worker passes the news to another one,  *)
(* gets nullopt and leaves work().                                         *)
ExitTelling(w, workers) ==
  /\ pc[w] = "wait"
  /\ itemCount = 0 /\ ~stay
  /\ \E woken \in NotifyOne(workers) : pc' = [woken EXCEPT ![w] = "exited"]
  /\ UNCHANGED <<slotCount, buffer, itemCount, stay, item, made, executed, owner>>

ExitQuietly(w) == ExitTelling(w, {})
Exit(w) == ExitTelling(w, Worker)

(* _buffer.front() and pop(); with an empty buffer they are undefined. *)
PopLeaving(w, rest) ==
  /\ pc[w] = "pop"
  /\ item' = [item EXCEPT ![w] = Head(buffer)]
  /\ buffer' = rest
  /\ pc' = [pc EXCEPT ![w] = "release"]
  /\ UNCHANGED <<slotCount, itemCount, stay, made, executed, owner>>

FrontOnly(w) == PopLeaving(w, buffer)
Pop(w) == PopLeaving(w, Tail(buffer))

ReleaseSlotTo(w, producers) ==
  /\ pc[w] = "release"
  /\ slotCount' = slotCount + 1
  /\ \E woken \in NotifyOne(producers) : pc' = [woken EXCEPT ![w] = "action"]
  /\ UNCHANGED <<buffer, itemCount, stay, item, made, executed, owner>>

ReleaseFirstOnly(w) == ReleaseSlotTo(w, IF slotCount = 0 THEN Producer ELSE {})
ReleaseSlot(w) == ReleaseSlotTo(w, Producer)

-----------------------------------------------------------------------------
(* work, disconnect and the destructor                                     *)

(* action returns false to terminate the workers. *)
Execute(w) ==
  /\ pc[w] = "action"
  /\ executed' = executed \cup {item[w]}
  /\ \E next \in {"wait", "disconnect"} : pc' = [pc EXCEPT ![w] = next]
  /\ UNCHANGED <<slotCount, buffer, itemCount, stay, item, made, owner>>

Disconnect(w) ==
  /\ pc[w] = "disconnect"
  /\ stay' = FALSE
  /\ pc' = [pc EXCEPT ![w] = "wait"]
  /\ UNCHANGED <<slotCount, buffer, itemCount, item, made, executed, owner>>

(* ~TaskQueue, in a state in which no thread is inside produce. *)
Destroy ==
  /\ owner = "uses"
  /\ \A p \in Producer : pc[p] = "idle"
  /\ stay' = FALSE
  /\ owner' = "joins"
  /\ UNCHANGED <<slotCount, buffer, itemCount, pc, item, made, executed>>

Join ==
  /\ owner = "joins"
  /\ \A w \in Worker : pc[w] = "exited"
  /\ owner' = "destroyed"
  /\ UNCHANGED <<slotCount, buffer, itemCount, stay, pc, item, made, executed>>

-----------------------------------------------------------------------------
Finish(p) == AcquireSlot(p) \/ Push(p) \/ AnnounceItem(p)

Work(w) ==
  \/ BlockConsumer(w) \/ AcquireItem(w) \/ Exit(w)
  \/ Pop(w) \/ ReleaseSlot(w)
  \/ Execute(w) \/ Disconnect(w)

Next ==
  \/ \E p \in Producer : Produce(p) \/ Finish(p)
  \/ \E w \in Worker : Work(w)
  \/ \E t \in Thread : SpuriousWakeup(t)
  \/ Destroy
  \/ Join

Spec == Init /\ [][Next]_vars

(* The operating system runs every thread that can run, and actions        *)
(* return.  No spurious wake-up is owed to anybody.                        *)
FairSpec ==
  /\ Spec
  /\ \A p \in Producer : WF_vars(Finish(p))
  /\ \A w \in Worker : WF_vars(Work(w))
  /\ WF_vars(Join)

-----------------------------------------------------------------------------
(* Properties.                                                             *)

(* The three mutexes together make one bounded first-in first-out queue,   *)
(* from which no item is taken twice.                                      *)
Taken == executed \cup {item[w] : w \in {v \in Worker : pc[v] \in {"release", "action"}}}

Queue == INSTANCE BoundedBuffer WITH Capacity <- Slots, queue <- buffer, taken <- Taken

IsBoundedBuffer == Queue!Spec

(* notify_one wakes one thread only, and the one it wakes may find the     *)
(* item gone: still, every item that was pushed is executed unless the     *)
(* workers are told to leave.                                              *)
ItemsAreExecuted ==
  \A i \in Item : made[i[1]] >= i[2] ~> i \in executed \/ ~stay

(* A notified producer may find its slot taken by another call of produce  *)
(* again and again: no single producer is sure of a slot.  But as long as  *)
(* producers ask for slots some producer gets one, unless the workers      *)
(* leave.                                                                  *)
SomeoneProceeds ==
  (\E p \in Producer : pc[p] \in {"wait", "blocked"}) ~>
    (\E p \in Producer : pc[p] = "push") \/ ~stay

(* The queue as a whole never stands still while there is something to do. *)
Progress == ItemsAreExecuted /\ SomeoneProceeds

(* No wake-up is lost: while a thread is blocked, every free slot or       *)
(* announced item has a thread that is awake and will look at it, also     *)
(* when a thread that never slept takes what another one was notified of,  *)
(* and when several slots become free before the first one notified runs.  *)
Awake(T) == {t \in T : pc[t] = "wait"}
Blocked(T) == {t \in T : pc[t] = "blocked"}

WakeupsSuffice ==
  /\ Blocked(Producer) # {} => slotCount <= Cardinality(Awake(Producer))
  /\ Blocked(Worker) # {} => itemCount <= Cardinality(Awake(Worker))

(* "Decision to terminate workers": when an action decides so, the idle    *)
(* workers learn of it one from another and all of them exit.              *)
WorkersTerminate ==
  ~stay /\ owner = "uses" ~> \A w \in Worker : pc[w] = "exited"
=============================================================================
