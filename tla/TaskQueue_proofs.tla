-------------------------- MODULE TaskQueue_proofs --------------------------
(* The TaskQueue is a bounded first-in first-out buffer for any number of  *)
(* producers, workers and slots.  What connects its three counters, which  *)
(* no mutex protects together, is the number of threads that stand between *)
(* two critical sections.                                                  *)
EXTENDS TaskQueue, FiniteSetTheorems, TLAPS

Place == {"idle", "wait", "blocked", "push", "announce",
          "pop", "release", "action", "disconnect", "exited"}

(* How many threads stand at a place. *)
At(places, x) == {t \in Thread : places[t] = x}
Count(places, x) == Cardinality(At(places, x))

(* TypeOK without the upper bounds of the counters. *)
Types ==
  /\ slotCount \in Nat
  /\ buffer \in Seq(Item)
  /\ itemCount \in Nat
  /\ stay \in BOOLEAN
  /\ pc \in [Thread -> Place]
  /\ item \in [Worker -> Item \cup {Nothing}]
  /\ made \in [Producer -> 0 .. MaxItem]
  /\ executed \in SUBSET Item
  /\ owner \in {"uses", "joins", "destroyed"}

(* Every slot is free, or held by a producer that has not pushed, an item  *)
(* of the buffer, or a worker that has not given it back.                  *)
SlotsAdd == slotCount + Len(buffer) + Count(pc, "push") + Count(pc, "release") = Slots

(* Every item of the buffer is announced and not acquired, or its producer *)
(* has not announced it, or a worker has acquired but not popped one.      *)
ItemsAdd == Len(buffer) = itemCount + Count(pc, "announce") + Count(pc, "pop")

(* A producer inside produce has an item to push. *)
HasItem == \A p \in Producer : pc[p] \in {"wait", "blocked", "push"} => made[p] < MaxItem

(* An item is in one place only, and it was made. *)
Distinct ==
  /\ \A k \in 1 .. Len(buffer) : buffer[k][2] <= made[buffer[k][1]]
  /\ \A j, k \in 1 .. Len(buffer) : buffer[j] = buffer[k] => j = k
  /\ \A k \in 1 .. Len(buffer) : buffer[k] \notin Taken
  /\ \A i \in Taken : i \in Item /\ i[2] <= made[i[1]]

IInv == Types /\ SlotsAdd /\ ItemsAdd /\ HasItem /\ Distinct

-----------------------------------------------------------------------------
(* Counting threads.                                                       *)

LEMMA CountType ==
  ASSUME NEW places, NEW x
  PROVE  /\ IsFiniteSet(At(places, x))
         /\ Count(places, x) \in Nat
<1>1. IsFiniteSet(Thread)
  BY ThreadsAssumption, FS_Union DEF ThreadsAssumption, Thread
<1>2. At(places, x) \subseteq Thread
  BY DEF At
<1>3. IsFiniteSet(At(places, x))
  BY <1>1, <1>2, FS_Subset
<1>4. QED
  BY <1>3, FS_CardinalityType DEF Count

LEMMA CountPositive ==
  ASSUME NEW places, NEW x, NEW t \in Thread, places[t] = x
  PROVE  Count(places, x) >= 1
<1>1. t \in At(places, x)
  BY DEF At
<1>2. Count(places, x) # 0
  BY <1>1, CountType, FS_EmptySet DEF Count
<1>3. QED
  BY <1>2, CountType

(* One thread goes from a place to another one; others may be woken. *)
Moved(before, after, t, from, to) ==
  /\ before[t] = from
  /\ after[t] = to
  /\ \A u \in Thread \ {t} :
       after[u] = before[u] \/ (before[u] = "blocked" /\ after[u] = "wait")

One(b) == IF b THEN 1 ELSE 0

LEMMA CountMoved ==
  ASSUME NEW before, NEW after, NEW t \in Thread, NEW from, NEW to,
         Moved(before, after, t, from, to),
         NEW x, x # "blocked", x # "wait"
  PROVE  Count(after, x) + One(from = x) = Count(before, x) + One(to = x)
<1>1. \A u \in Thread \ {t} : u \in At(after, x) <=> u \in At(before, x)
  BY DEF Moved, At
<1>2. (t \in At(before, x) <=> from = x) /\ (t \in At(after, x) <=> to = x)
  BY DEF Moved, At
<1>3. At(before, x) \subseteq Thread /\ At(after, x) \subseteq Thread
  BY DEF At
<1>4. CASE from = x /\ to = x
  <2>1. At(after, x) = At(before, x)
    BY <1>1, <1>2, <1>3, <1>4
  <2>2. QED  BY <2>1, <1>4, CountType DEF Count, One
<1>5. CASE from # x /\ to # x
  <2>1. At(after, x) = At(before, x)
    BY <1>1, <1>2, <1>3, <1>5
  <2>2. QED  BY <2>1, <1>5, CountType DEF Count, One
<1>6. CASE from # x /\ to = x
  <2>1. At(after, x) = At(before, x) \cup {t} /\ t \notin At(before, x)
    BY <1>1, <1>2, <1>3, <1>6
  <2>2. Cardinality(At(before, x) \cup {t}) = Cardinality(At(before, x)) + 1
    BY <2>1, CountType, FS_AddElement
  <2>3. QED  BY <2>1, <2>2, <1>6, CountType DEF Count, One
<1>7. CASE from = x /\ to # x
  <2>1. At(before, x) = At(after, x) \cup {t} /\ t \notin At(after, x)
    BY <1>1, <1>2, <1>3, <1>7
  <2>2. Cardinality(At(after, x) \cup {t}) = Cardinality(At(after, x)) + 1
    BY <2>1, CountType, FS_AddElement
  <2>3. QED  BY <2>1, <2>2, <1>7, CountType DEF Count, One
<1>8. QED
  BY <1>4, <1>5, <1>6, <1>7

(* notify_one changes nothing but a blocked thread. *)
LEMMA Notified ==
  ASSUME pc \in [Thread -> Place], NEW T, T \subseteq Thread, NEW woken \in NotifyOne(T)
  PROVE  /\ woken \in [Thread -> Place]
         /\ \A u \in Thread : woken[u] = pc[u] \/ (pc[u] = "blocked" /\ woken[u] = "wait")
<1>1. woken = pc \/ \E b \in T : pc[b] = "blocked" /\ woken = [pc EXCEPT ![b] = "wait"]
  BY DEF NotifyOne
<1>2. QED
  BY <1>1 DEF Place

-----------------------------------------------------------------------------
(* What an action does to the threads.                                     *)

LEMMA CountsMove ==
  ASSUME NEW t \in Thread, NEW from, NEW to, Moved(pc, pc', t, from, to)
  PROVE  \A x \in {"push", "release", "announce", "pop"} :
           /\ Count(pc, x) \in Nat
           /\ Count(pc', x) \in Nat
           /\ Count(pc', x) + One(from = x) = Count(pc, x) + One(to = x)
  BY CountType, CountMoved

LEMMA ProducerMoves ==
  ASSUME Types, NEW p \in Producer
  PROVE  /\ p \in Thread
         /\ Produce(p) => Moved(pc, pc', p, "idle", "wait")
         /\ AcquireSlot(p) /\ slotCount > 0 => Moved(pc, pc', p, "wait", "push")
         /\ AcquireSlot(p) /\ ~(slotCount > 0) => Moved(pc, pc', p, "wait", "blocked")
         /\ Push(p) => Moved(pc, pc', p, "push", "announce")
         /\ AnnounceItem(p) => Moved(pc, pc', p, "announce", "idle") /\ pc' \in [Thread -> Place]
<1>1. p \in Thread
  BY DEF Thread
<1>2. Produce(p) => Moved(pc, pc', p, "idle", "wait")
  BY <1>1 DEF Produce, Moved, Types
<1>3. AcquireSlot(p) /\ slotCount > 0 => Moved(pc, pc', p, "wait", "push")
  BY <1>1 DEF AcquireSlot, AcquireSlotIf, Moved, Types
<1>4. AcquireSlot(p) /\ ~(slotCount > 0) => Moved(pc, pc', p, "wait", "blocked")
  BY <1>1 DEF AcquireSlot, AcquireSlotIf, Moved, Types
<1>5. Push(p) => Moved(pc, pc', p, "push", "announce")
  BY <1>1 DEF Push, Moved, Types
<1>6. AnnounceItem(p) => Moved(pc, pc', p, "announce", "idle") /\ pc' \in [Thread -> Place]
  <2>1. SUFFICES ASSUME AnnounceItem(p)
                 PROVE  Moved(pc, pc', p, "announce", "idle") /\ pc' \in [Thread -> Place]
    OBVIOUS
  <2>2. PICK woken \in NotifyOne(Worker) : pc' = [woken EXCEPT ![p] = "idle"]
    BY <2>1 DEF AnnounceItem, AnnounceTo
  <2>3. /\ woken \in [Thread -> Place]
        /\ \A u \in Thread : woken[u] = pc[u] \/ (pc[u] = "blocked" /\ woken[u] = "wait")
    BY Notified DEF Types, Thread
  <2>4. QED
    BY <1>1, <2>1, <2>2, <2>3 DEF AnnounceItem, AnnounceTo, Moved, Place
<1>7. QED
  BY <1>1, <1>2, <1>3, <1>4, <1>5, <1>6

LEMMA WorkerMoves ==
  ASSUME Types, NEW w \in Worker
  PROVE  /\ w \in Thread
         /\ BlockConsumer(w) => Moved(pc, pc', w, "wait", "blocked")
         /\ AcquireItem(w) => Moved(pc, pc', w, "wait", "pop")
         /\ Exit(w) => Moved(pc, pc', w, "wait", "exited") /\ pc' \in [Thread -> Place]
         /\ Pop(w) => Moved(pc, pc', w, "pop", "release")
         /\ ReleaseSlot(w) => Moved(pc, pc', w, "release", "action") /\ pc' \in [Thread -> Place]
         /\ Execute(w) => \E next \in {"wait", "disconnect"} : Moved(pc, pc', w, "action", next)
         /\ Disconnect(w) => Moved(pc, pc', w, "disconnect", "wait")
<1>1. w \in Thread
  BY DEF Thread
<1>2. BlockConsumer(w) => Moved(pc, pc', w, "wait", "blocked")
  BY <1>1 DEF BlockConsumer, Moved, Types
<1>3. AcquireItem(w) => Moved(pc, pc', w, "wait", "pop")
  BY <1>1 DEF AcquireItem, Moved, Types
<1>4. Exit(w) => Moved(pc, pc', w, "wait", "exited") /\ pc' \in [Thread -> Place]
  <2>1. SUFFICES ASSUME Exit(w)
                 PROVE  Moved(pc, pc', w, "wait", "exited") /\ pc' \in [Thread -> Place]
    OBVIOUS
  <2>2. PICK woken \in NotifyOne(Worker) : pc' = [woken EXCEPT ![w] = "exited"]
    BY <2>1 DEF Exit, ExitTelling
  <2>3. /\ woken \in [Thread -> Place]
        /\ \A u \in Thread : woken[u] = pc[u] \/ (pc[u] = "blocked" /\ woken[u] = "wait")
    BY Notified DEF Types, Thread
  <2>4. QED
    BY <1>1, <2>1, <2>2, <2>3 DEF Exit, ExitTelling, Moved, Place
<1>5. Pop(w) => Moved(pc, pc', w, "pop", "release")
  BY <1>1 DEF Pop, PopLeaving, Moved, Types
<1>6. ReleaseSlot(w) => Moved(pc, pc', w, "release", "action") /\ pc' \in [Thread -> Place]
  <2>1. SUFFICES ASSUME ReleaseSlot(w)
                 PROVE  Moved(pc, pc', w, "release", "action") /\ pc' \in [Thread -> Place]
    OBVIOUS
  <2>2. PICK woken \in NotifyOne(Producer) : pc' = [woken EXCEPT ![w] = "action"]
    BY <2>1 DEF ReleaseSlot, ReleaseSlotTo
  <2>3. /\ woken \in [Thread -> Place]
        /\ \A u \in Thread : woken[u] = pc[u] \/ (pc[u] = "blocked" /\ woken[u] = "wait")
    BY Notified DEF Types, Thread
  <2>4. QED
    BY <1>1, <2>1, <2>2, <2>3 DEF ReleaseSlot, ReleaseSlotTo, Moved, Place
<1>7. Execute(w) => \E next \in {"wait", "disconnect"} : Moved(pc, pc', w, "action", next)
  BY <1>1 DEF Execute, Moved, Types
<1>8. Disconnect(w) => Moved(pc, pc', w, "disconnect", "wait")
  BY <1>1 DEF Disconnect, Moved, Types
<1>9. QED
  BY <1>1, <1>2, <1>3, <1>4, <1>5, <1>6, <1>7, <1>8

(* The sums in the next state. *)
LEMMA SumsPrimed ==
  /\ SlotsAdd' <=>
       slotCount' + Len(buffer') + Count(pc', "push") + Count(pc', "release") = Slots
  /\ ItemsAdd' <=> Len(buffer') = itemCount' + Count(pc', "announce") + Count(pc', "pop")
  BY DEF SlotsAdd, ItemsAdd, Count, At

(* A worker's step gives no producer anything to push, and a step that     *)
(* pops nothing leaves the items where they are.                           *)
LEMMA WorkerLeavesProducers ==
  ASSUME HasItem, made' = made, NEW w \in Worker, NEW from, NEW to, Moved(pc, pc', w, from, to)
  PROVE  HasItem'
  BY ThreadsAssumption DEF ThreadsAssumption, HasItem, Moved, Thread

LEMMA ItemsStay ==
  ASSUME Distinct, Taken' = Taken, UNCHANGED <<buffer, made>>
  PROVE  Distinct'
  BY DEF Distinct

-----------------------------------------------------------------------------
(* The two steps of the abstract queue.                                    *)

(* push_back: the slot the producer holds is room in the buffer.           *)
LEMMA PushStep ==
  ASSUME IInv, NEW p \in Producer, Push(p)
  PROVE  IInv' /\ Queue!Put(<<p, made[p] + 1>>)
<1> DEFINE i == <<p, made[p] + 1>>
<1>1. /\ Types /\ p \in Thread /\ pc[p] = "push"
      /\ Moved(pc, pc', p, "push", "announce")
  BY ProducerMoves DEF IInv, Push
<1>2. made[p] < MaxItem
  BY <1>1 DEF IInv, HasItem
<1>3. made[p] \in 0 .. MaxItem /\ MaxItem \in Nat /\ i \in Item
  BY <1>1, <1>2, SizesAssumption DEF Types, SizesAssumption, Item
<1>4. made' = [made EXCEPT ![p] = made[p] + 1] /\ made'[p] = made[p] + 1
  BY <1>1 DEF Push, Types
<1>5. buffer' = Append(buffer, i)
  BY <1>4 DEF Push
<1>6. /\ buffer \in Seq(Item) /\ Len(buffer) \in Nat /\ Len(buffer') = Len(buffer) + 1
      /\ buffer' \in Seq(Item)
      /\ \A k \in 1 .. Len(buffer) : buffer'[k] = buffer[k]
      /\ buffer'[Len(buffer) + 1] = i
  BY <1>1, <1>3, <1>5 DEF Types
<1>7. /\ i \notin Taken
      /\ \A k \in 1 .. Len(buffer) : buffer[k] # i
  <2>1. i[1] = p /\ i[2] = made[p] + 1 /\ ~(i[2] <= made[i[1]])
    BY <1>3
  <2>2. QED  BY <2>1 DEF IInv, Distinct
<1>8. Taken' = Taken
  <2>1. \A w \in Worker : pc'[w] \in {"release", "action"} <=> pc[w] \in {"release", "action"}
    BY <1>1 DEF Moved, Thread
  <2>2. executed' = executed /\ item' = item
    BY DEF Push
  <2>3. QED  BY <2>1, <2>2 DEF Taken
<1>9. Types'
  <2>1. made' \in [Producer -> 0 .. MaxItem]
    BY <1>1, <1>2, <1>3, <1>4 DEF Types
  <2>2. pc' \in [Thread -> Place]
    BY <1>1 DEF Types, Push, Place
  <2>3. QED  BY <1>1, <1>6, <2>1, <2>2 DEF Types, Push
<1>10. SlotsAdd' /\ ItemsAdd'
  <2>1. slotCount' = slotCount /\ itemCount' = itemCount
    BY DEF Push
  <2>2. \A x \in {"push", "release", "announce", "pop"} :
           /\ Count(pc, x) \in Nat
           /\ Count(pc', x) \in Nat
           /\ Count(pc', x) + One("push" = x) = Count(pc, x) + One("announce" = x)
    BY <1>1, CountsMove
  <2>3. /\ Count(pc', "push") + 1 = Count(pc, "push")
        /\ Count(pc', "release") = Count(pc, "release")
        /\ Count(pc', "announce") = Count(pc, "announce") + 1
        /\ Count(pc', "pop") = Count(pc, "pop")
        /\ Count(pc, "push") \in Nat /\ Count(pc', "push") \in Nat
        /\ Count(pc, "release") \in Nat /\ Count(pc', "release") \in Nat
        /\ Count(pc, "announce") \in Nat /\ Count(pc', "announce") \in Nat
        /\ Count(pc, "pop") \in Nat /\ Count(pc', "pop") \in Nat
    BY <2>2 DEF One
  <2>4. /\ slotCount \in Nat /\ itemCount \in Nat
        /\ Len(buffer) \in Nat /\ Len(buffer') = Len(buffer) + 1
    BY <1>1, <1>6 DEF Types
  <2>5. /\ slotCount + Len(buffer) + Count(pc, "push") + Count(pc, "release") = Slots
        /\ Len(buffer) = itemCount + Count(pc, "announce") + Count(pc, "pop")
    BY DEF IInv, SlotsAdd, ItemsAdd
  <2>6. /\ slotCount' + Len(buffer') + Count(pc', "push") + Count(pc', "release") = Slots
        /\ Len(buffer') = itemCount' + Count(pc', "announce") + Count(pc', "pop")
    <3>1. slotCount + Len(buffer') + Count(pc', "push") + Count(pc', "release") = Slots
      BY <2>3, <2>4, <2>5
    <3>2. Len(buffer') = itemCount + Count(pc', "announce") + Count(pc', "pop")
      BY <2>3, <2>4, <2>5
    <3>3. slotCount' + Len(buffer') + Count(pc', "push") + Count(pc', "release") = Slots
      BY <2>1, <3>1
    <3>4. Len(buffer') = itemCount' + Count(pc', "announce") + Count(pc', "pop")
      BY <2>1, <3>2
    <3>5. QED  BY <3>3, <3>4
  <2>7. QED  BY <2>6, SumsPrimed
<1>11. HasItem'
  BY <1>1, <1>3, <1>4 DEF IInv, HasItem, Moved, Thread, Types
<1>12. Distinct'
  <2>1. \A q \in Producer : made[q] \in Nat /\ made'[q] \in Nat /\ made[q] <= made'[q]
    BY <1>1, <1>3, <1>4 DEF Types
  <2>2. \A k \in 1 .. Len(buffer) : buffer[k] \in Item
    BY <1>6
  <2>3. \A j \in Item : j[1] \in Producer /\ j[2] \in Nat
    BY SizesAssumption DEF Item, SizesAssumption
  <2>4. \A j \in Item : j[2] <= made[j[1]] => j[2] <= made'[j[1]]
    BY <2>1, <2>3
  <2>5. \A k \in 1 .. Len(buffer') : k \in 1 .. Len(buffer) \/ k = Len(buffer) + 1
    BY <1>6
  <2>6. \A k \in 1 .. Len(buffer') : buffer'[k][2] <= made'[buffer'[k][1]]
    BY <1>3, <1>4, <1>6, <2>2, <2>4, <2>5 DEF IInv, Distinct
  <2>7. \A j, k \in 1 .. Len(buffer') : buffer'[j] = buffer'[k] => j = k
    BY <1>6, <1>7, <2>5 DEF IInv, Distinct
  <2>8. \A k \in 1 .. Len(buffer') : buffer'[k] \notin Taken'
    BY <1>6, <1>7, <1>8, <2>5 DEF IInv, Distinct
  <2>9. \A j \in Taken' : j \in Item /\ j[2] <= made'[j[1]]
    BY <1>8, <2>4 DEF IInv, Distinct
  <2>10. QED  BY <2>6, <2>7, <2>8, <2>9 DEF Distinct
<1>13. Len(buffer) < Slots
  <2>1. Count(pc, "push") >= 1 /\ Count(pc, "push") \in Nat /\ Count(pc, "release") \in Nat
    BY <1>1, CountPositive, CountType
  <2>2. QED
    BY <1>1, <1>6, <2>1, SizesAssumption DEF IInv, SlotsAdd, Types, SizesAssumption
<1>14. Queue!Put(i)
  BY <1>5, <1>7, <1>8, <1>13 DEF Queue!Put
<1>15. QED
  BY <1>9, <1>10, <1>11, <1>12, <1>14 DEF IInv

(* front and pop: the item the worker has acquired is in the buffer.       *)
LEMMA PopStep ==
  ASSUME IInv, NEW w \in Worker, Pop(w)
  PROVE  IInv' /\ Queue!Take
<1>1. /\ Types /\ w \in Thread /\ pc[w] = "pop"
      /\ Moved(pc, pc', w, "pop", "release")
  BY WorkerMoves DEF IInv, Pop, PopLeaving
<1>2. /\ item' = [item EXCEPT ![w] = Head(buffer)] /\ buffer' = Tail(buffer)
      /\ UNCHANGED <<slotCount, itemCount, stay, made, executed, owner>>
      /\ pc' = [pc EXCEPT ![w] = "release"]
  BY DEF Pop, PopLeaving
<1>3. Len(buffer) \in Nat /\ Len(buffer) >= 1
  <2>1. Count(pc, "pop") >= 1 /\ Count(pc, "pop") \in Nat /\ Count(pc, "announce") \in Nat
    BY <1>1, CountPositive, CountType
  <2>2. QED  BY <1>1, <2>1 DEF IInv, ItemsAdd, Types
<1>4. /\ buffer # <<>> /\ Head(buffer) = buffer[1] /\ buffer[1] \in Item
      /\ buffer' \in Seq(Item) /\ Len(buffer') = Len(buffer) - 1
      /\ \A k \in 1 .. Len(buffer') : k + 1 \in 1 .. Len(buffer) /\ buffer'[k] = buffer[k + 1]
  BY <1>1, <1>2, <1>3 DEF Types
<1>5. Taken' = Taken \cup {Head(buffer)}
  <2>1. \A v \in Worker \ {w} :
          (pc'[v] \in {"release", "action"} <=> pc[v] \in {"release", "action"}) /\ item'[v] = item[v]
    BY <1>1, <1>2 DEF Types, Moved, Thread
  <2>2. pc[w] = "pop" /\ pc'[w] = "release" /\ item'[w] = Head(buffer)
    BY <1>1, <1>2 DEF Types, Moved
  <2>3. QED  BY <1>2, <2>1, <2>2 DEF Taken
<1>6. Types'
  BY <1>1, <1>2, <1>4 DEF Types, Place
<1>7. SlotsAdd' /\ ItemsAdd'
  <2>1. \A x \in {"push", "release", "announce", "pop"} :
           /\ Count(pc, x) \in Nat
           /\ Count(pc', x) \in Nat
           /\ Count(pc', x) + One("pop" = x) = Count(pc, x) + One("release" = x)
    BY <1>1, CountsMove
  <2>2. /\ Count(pc', "push") = Count(pc, "push")
        /\ Count(pc', "release") = Count(pc, "release") + 1
        /\ Count(pc', "announce") = Count(pc, "announce")
        /\ Count(pc', "pop") + 1 = Count(pc, "pop")
        /\ Count(pc, "push") \in Nat /\ Count(pc', "push") \in Nat
        /\ Count(pc, "release") \in Nat /\ Count(pc', "release") \in Nat
        /\ Count(pc, "announce") \in Nat /\ Count(pc', "announce") \in Nat
        /\ Count(pc, "pop") \in Nat /\ Count(pc', "pop") \in Nat
    BY <2>1 DEF One
  <2>3. /\ slotCount' = slotCount /\ itemCount' = itemCount
        /\ slotCount \in Nat /\ itemCount \in Nat
        /\ Len(buffer) \in Nat /\ Len(buffer') \in Nat /\ Len(buffer) = Len(buffer') + 1
    BY <1>1, <1>2, <1>3, <1>4 DEF Types
  <2>4. /\ slotCount + Len(buffer) + Count(pc, "push") + Count(pc, "release") = Slots
        /\ Len(buffer) = itemCount + Count(pc, "announce") + Count(pc, "pop")
    BY DEF IInv, SlotsAdd, ItemsAdd
  <2>5. /\ slotCount' + Len(buffer') + Count(pc', "push") + Count(pc', "release") = Slots
        /\ Len(buffer') = itemCount' + Count(pc', "announce") + Count(pc', "pop")
    <3>1. slotCount + Len(buffer') + Count(pc', "push") + Count(pc', "release") = Slots
      BY <2>2, <2>3, <2>4
    <3>2. Len(buffer') = itemCount + Count(pc', "announce") + Count(pc', "pop")
      BY <2>2, <2>3, <2>4
    <3>3. slotCount' = slotCount /\ itemCount' = itemCount
      BY <2>3
    <3>4. slotCount' + Len(buffer') + Count(pc', "push") + Count(pc', "release") = Slots
      BY <3>1, <3>3
    <3>5. Len(buffer') = itemCount' + Count(pc', "announce") + Count(pc', "pop")
      BY <3>2, <3>3
    <3>6. QED  BY <3>4, <3>5
  <2>6. QED  BY <2>5, SumsPrimed
<1>8. HasItem'
  BY <1>1, <1>2, WorkerLeavesProducers DEF IInv
<1>9. 1 \in 1 .. Len(buffer) /\ Head(buffer) \notin Taken
  BY <1>3, <1>4 DEF IInv, Distinct
<1>10. Distinct'
  <2>1. \A k \in 1 .. Len(buffer') : buffer'[k][2] <= made'[buffer'[k][1]]
    BY <1>2, <1>4 DEF IInv, Distinct
  <2>2. \A j, k \in 1 .. Len(buffer') : buffer'[j] = buffer'[k] => j = k
    <3>1. SUFFICES ASSUME NEW j \in 1 .. Len(buffer'), NEW k \in 1 .. Len(buffer'),
                          buffer'[j] = buffer'[k]
                   PROVE  j = k
      OBVIOUS
    <3>2. j + 1 \in 1 .. Len(buffer) /\ k + 1 \in 1 .. Len(buffer) /\ buffer[j + 1] = buffer[k + 1]
      BY <1>4, <3>1
    <3>3. j + 1 = k + 1
      BY <3>2 DEF IInv, Distinct
    <3>4. QED  BY <3>3
  <2>3. \A k \in 1 .. Len(buffer') : buffer'[k] \notin Taken'
    <3>1. SUFFICES ASSUME NEW k \in 1 .. Len(buffer') PROVE buffer'[k] \notin Taken'
      OBVIOUS
    <3>2. k + 1 \in 1 .. Len(buffer) /\ buffer'[k] = buffer[k + 1] /\ k + 1 # 1
      BY <1>4
    <3>3. buffer[k + 1] # buffer[1] /\ buffer[k + 1] \notin Taken
      BY <1>9, <3>2 DEF IInv, Distinct
    <3>4. QED  BY <1>4, <1>5, <3>2, <3>3
  <2>4. \A i \in Taken' : i \in Item /\ i[2] <= made'[i[1]]
    BY <1>2, <1>4, <1>5, <1>9 DEF IInv, Distinct
  <2>5. QED  BY <2>1, <2>2, <2>3, <2>4 DEF Distinct
<1>11. Queue!Take
  BY <1>2, <1>4, <1>5, <1>9 DEF Queue!Take
<1>12. QED
  BY <1>6, <1>7, <1>8, <1>10, <1>11 DEF IInv

-----------------------------------------------------------------------------
(* The other steps do not show outside.                                    *)

(* The ways in which a counter changes: by what the thread takes with it.  *)
Idles(from, to) ==
  /\ {from, to} \subseteq {"idle", "wait", "blocked", "action", "disconnect", "exited"}
  /\ slotCount' = slotCount /\ itemCount' = itemCount
TakesSlot(from, to) ==
  from = "wait" /\ to = "push" /\ slotCount = slotCount' + 1 /\ itemCount' = itemCount
Announces(from, to) ==
  from = "announce" /\ to = "idle" /\ slotCount' = slotCount /\ itemCount' = itemCount + 1
TakesItem(from, to) ==
  from = "wait" /\ to = "pop" /\ slotCount' = slotCount /\ itemCount = itemCount' + 1
GivesSlot(from, to) ==
  from = "release" /\ to = "action" /\ slotCount' = slotCount + 1 /\ itemCount' = itemCount

(* The sums survive such a move. *)
LEMMA SumsMove ==
  ASSUME IInv, NEW t \in Thread, NEW from, NEW to, Moved(pc, pc', t, from, to),
         buffer' = buffer, slotCount' \in Nat, itemCount' \in Nat,
         \/ Idles(from, to) \/ TakesSlot(from, to) \/ Announces(from, to)
         \/ TakesItem(from, to) \/ GivesSlot(from, to)
  PROVE  SlotsAdd' /\ ItemsAdd'
<1>1. \A x \in {"push", "release", "announce", "pop"} :
        /\ Count(pc, x) \in Nat
        /\ Count(pc', x) \in Nat
        /\ Count(pc', x) + One(from = x) = Count(pc, x) + One(to = x)
  BY CountsMove
<1>2. /\ slotCount + Len(buffer) + Count(pc, "push") + Count(pc, "release") = Slots
      /\ Len(buffer) = itemCount + Count(pc, "announce") + Count(pc, "pop")
  BY DEF IInv, SlotsAdd, ItemsAdd
<1>3. /\ slotCount \in Nat /\ itemCount \in Nat /\ Len(buffer) \in Nat
      /\ Count(pc, "push") \in Nat /\ Count(pc', "push") \in Nat
      /\ Count(pc, "release") \in Nat /\ Count(pc', "release") \in Nat
      /\ Count(pc, "announce") \in Nat /\ Count(pc', "announce") \in Nat
      /\ Count(pc, "pop") \in Nat /\ Count(pc', "pop") \in Nat
  BY <1>1 DEF IInv, Types
<1>4. CASE Idles(from, to)
  <2>1. /\ Count(pc', "push") = Count(pc, "push")
        /\ Count(pc', "release") = Count(pc, "release")
        /\ Count(pc', "announce") = Count(pc, "announce")
        /\ Count(pc', "pop") = Count(pc, "pop")
    BY <1>1, <1>4 DEF One, Idles
  <2>2. slotCount' = slotCount /\ itemCount' = itemCount
    BY <1>4 DEF Idles
  <2>3. slotCount' + Len(buffer) + Count(pc', "push") + Count(pc', "release") = Slots
    BY <1>2, <1>3, <2>1, <2>2
  <2>4. Len(buffer) = itemCount' + Count(pc', "announce") + Count(pc', "pop")
    BY <1>2, <1>3, <2>1, <2>2
  <2>5. QED  BY <2>3, <2>4, SumsPrimed
<1>5. CASE TakesSlot(from, to)
  <2>1. /\ Count(pc', "push") = Count(pc, "push") + 1
        /\ Count(pc', "release") = Count(pc, "release")
        /\ Count(pc', "announce") = Count(pc, "announce")
        /\ Count(pc', "pop") = Count(pc, "pop")
    BY <1>1, <1>5 DEF One, TakesSlot
  <2>2. slotCount = slotCount' + 1 /\ itemCount' = itemCount
    BY <1>5 DEF TakesSlot
  <2>3. slotCount' + Len(buffer) + Count(pc', "push") + Count(pc', "release") = Slots
    BY <1>2, <1>3, <2>1, <2>2
  <2>4. Len(buffer) = itemCount' + Count(pc', "announce") + Count(pc', "pop")
    BY <1>2, <1>3, <2>1, <2>2
  <2>5. QED  BY <2>3, <2>4, SumsPrimed
<1>6. CASE Announces(from, to)
  <2>1. /\ Count(pc', "push") = Count(pc, "push")
        /\ Count(pc', "release") = Count(pc, "release")
        /\ Count(pc', "announce") + 1 = Count(pc, "announce")
        /\ Count(pc', "pop") = Count(pc, "pop")
    BY <1>1, <1>6 DEF One, Announces
  <2>2. slotCount' = slotCount /\ itemCount' = itemCount + 1
    BY <1>6 DEF Announces
  <2>3. slotCount' + Len(buffer) + Count(pc', "push") + Count(pc', "release") = Slots
    BY <1>2, <1>3, <2>1, <2>2
  <2>4. Len(buffer) = itemCount' + Count(pc', "announce") + Count(pc', "pop")
    BY <1>2, <1>3, <2>1, <2>2
  <2>5. QED  BY <2>3, <2>4, SumsPrimed
<1>7. CASE TakesItem(from, to)
  <2>1. /\ Count(pc', "push") = Count(pc, "push")
        /\ Count(pc', "release") = Count(pc, "release")
        /\ Count(pc', "announce") = Count(pc, "announce")
        /\ Count(pc', "pop") = Count(pc, "pop") + 1
    BY <1>1, <1>7 DEF One, TakesItem
  <2>2. slotCount' = slotCount /\ itemCount = itemCount' + 1
    BY <1>7 DEF TakesItem
  <2>3. slotCount' + Len(buffer) + Count(pc', "push") + Count(pc', "release") = Slots
    BY <1>2, <1>3, <2>1, <2>2
  <2>4. Len(buffer) = itemCount' + Count(pc', "announce") + Count(pc', "pop")
    BY <1>2, <1>3, <2>1, <2>2
  <2>5. QED  BY <2>3, <2>4, SumsPrimed
<1>8. CASE GivesSlot(from, to)
  <2>1. /\ Count(pc', "push") = Count(pc, "push")
        /\ Count(pc', "release") + 1 = Count(pc, "release")
        /\ Count(pc', "announce") = Count(pc, "announce")
        /\ Count(pc', "pop") = Count(pc, "pop")
    BY <1>1, <1>8 DEF One, GivesSlot
  <2>2. slotCount' = slotCount + 1 /\ itemCount' = itemCount
    BY <1>8 DEF GivesSlot
  <2>3. slotCount' + Len(buffer) + Count(pc', "push") + Count(pc', "release") = Slots
    BY <1>2, <1>3, <2>1, <2>2
  <2>4. Len(buffer) = itemCount' + Count(pc', "announce") + Count(pc', "pop")
    BY <1>2, <1>3, <2>1, <2>2
  <2>5. QED  BY <2>3, <2>4, SumsPrimed
<1>9. QED
  BY <1>4, <1>5, <1>6, <1>7, <1>8

(* Nobody enters or leaves "release" and "action", and nothing is executed.*)
LEMMA TakenStays ==
  ASSUME NEW t \in Thread, NEW from, NEW to, Moved(pc, pc', t, from, to),
         from \in {"release", "action"} <=> to \in {"release", "action"},
         UNCHANGED <<item, executed>>
  PROVE  Taken' = Taken
<1>1. \A w \in Worker : pc'[w] \in {"release", "action"} <=> pc[w] \in {"release", "action"}
  BY DEF Moved, Thread
<1>2. QED
  BY <1>1 DEF Taken

(* What does not touch the buffer keeps the invariant if it keeps the      *)
(* types, the sums and what is taken.                                      *)
LEMMA QuietStep ==
  ASSUME IInv, Types', SlotsAdd', ItemsAdd', HasItem', Taken' = Taken,
         UNCHANGED <<buffer, made>>
  PROVE  IInv' /\ UNCHANGED <<buffer, Taken>>
  BY ItemsStay DEF IInv

LEMMA ProduceStep ==
  ASSUME IInv, NEW p \in Producer, Produce(p)
  PROVE  IInv' /\ UNCHANGED <<buffer, Taken>>
<1>1. Types /\ p \in Thread /\ Moved(pc, pc', p, "idle", "wait")
  BY ProducerMoves DEF IInv
<1>2. Types'
  BY <1>1 DEF Produce, Types, Place
<1>3. SlotsAdd' /\ ItemsAdd'
  BY <1>1, <1>2, SumsMove DEF Produce, Idles, Types
<1>4. Taken' = Taken
  BY <1>1, TakenStays DEF Produce
<1>5. HasItem'
  <2>1. made[p] < MaxItem /\ made' = made
    BY DEF Produce
  <2>2. QED  BY <1>1, <2>1 DEF IInv, HasItem, Moved, Thread
<1>6. QED
  BY <1>2, <1>3, <1>4, <1>5, QuietStep DEF Produce

LEMMA AcquireSlotStep ==
  ASSUME IInv, NEW p \in Producer, AcquireSlot(p)
  PROVE  IInv' /\ UNCHANGED <<buffer, Taken>>
<1>1. /\ Types /\ p \in Thread /\ pc[p] = "wait"
      /\ UNCHANGED <<buffer, itemCount, stay, item, made, executed, owner>>
  BY ProducerMoves DEF IInv, AcquireSlot, AcquireSlotIf
<1>2. Types'
  BY <1>1 DEF AcquireSlot, AcquireSlotIf, Types, Place
<1>3. CASE slotCount > 0
  <2>1. Moved(pc, pc', p, "wait", "push") /\ slotCount' = slotCount - 1
    BY <1>1, <1>3, ProducerMoves DEF AcquireSlot, AcquireSlotIf
  <2>2. SlotsAdd' /\ ItemsAdd'
    BY <1>1, <1>2, <2>1, SumsMove DEF TakesSlot, Types
  <2>3. Taken' = Taken
    BY <1>1, <2>1, TakenStays
  <2>4. HasItem'
    BY <1>1, <2>1 DEF IInv, HasItem, Moved, Thread
  <2>5. QED
    BY <1>1, <1>2, <2>2, <2>3, <2>4, QuietStep
<1>4. CASE ~(slotCount > 0)
  <2>1. Moved(pc, pc', p, "wait", "blocked") /\ slotCount' = slotCount
    BY <1>1, <1>4, ProducerMoves DEF AcquireSlot, AcquireSlotIf
  <2>2. SlotsAdd' /\ ItemsAdd'
    BY <1>1, <1>2, <2>1, SumsMove DEF Idles, Types
  <2>3. Taken' = Taken
    BY <1>1, <2>1, TakenStays
  <2>4. HasItem'
    BY <1>1, <2>1 DEF IInv, HasItem, Moved, Thread
  <2>5. QED
    BY <1>1, <1>2, <2>2, <2>3, <2>4, QuietStep
<1>5. QED
  BY <1>3, <1>4

LEMMA AnnounceStep ==
  ASSUME IInv, NEW p \in Producer, AnnounceItem(p)
  PROVE  IInv' /\ UNCHANGED <<buffer, Taken>>
<1>1. /\ Types /\ p \in Thread /\ Moved(pc, pc', p, "announce", "idle")
      /\ pc' \in [Thread -> Place]
      /\ itemCount' = itemCount + 1
      /\ UNCHANGED <<slotCount, buffer, stay, item, made, executed, owner>>
  BY ProducerMoves DEF IInv, AnnounceItem, AnnounceTo
<1>2. Types'
  BY <1>1 DEF Types
<1>3. SlotsAdd' /\ ItemsAdd'
  BY <1>1, <1>2, SumsMove DEF Announces, Types
<1>4. Taken' = Taken
  BY <1>1, TakenStays
<1>5. HasItem'
  BY <1>1 DEF IInv, HasItem, Moved, Thread
<1>6. QED
  BY <1>1, <1>2, <1>3, <1>4, <1>5, QuietStep

LEMMA BlockConsumerStep ==
  ASSUME IInv, NEW w \in Worker, BlockConsumer(w)
  PROVE  IInv' /\ UNCHANGED <<buffer, Taken>>
<1>1. /\ Types /\ w \in Thread /\ Moved(pc, pc', w, "wait", "blocked")
      /\ UNCHANGED <<slotCount, buffer, itemCount, stay, item, made, executed, owner>>
  BY WorkerMoves DEF IInv, BlockConsumer
<1>2. Types'
  BY <1>1 DEF BlockConsumer, Types, Place
<1>3. SlotsAdd' /\ ItemsAdd'
  BY <1>1, <1>2, SumsMove DEF Idles, Types
<1>4. Taken' = Taken
  BY <1>1, TakenStays
<1>5. HasItem'
  BY <1>1, WorkerLeavesProducers DEF IInv
<1>6. QED
  BY <1>1, <1>2, <1>3, <1>4, <1>5, QuietStep

LEMMA AcquireItemStep ==
  ASSUME IInv, NEW w \in Worker, AcquireItem(w)
  PROVE  IInv' /\ UNCHANGED <<buffer, Taken>>
<1>1. /\ Types /\ w \in Thread /\ Moved(pc, pc', w, "wait", "pop")
      /\ itemCount > 0 /\ itemCount' = itemCount - 1
      /\ UNCHANGED <<slotCount, buffer, stay, item, made, executed, owner>>
  BY WorkerMoves DEF IInv, AcquireItem
<1>2. Types'
  BY <1>1 DEF AcquireItem, Types, Place
<1>3. SlotsAdd' /\ ItemsAdd'
  BY <1>1, <1>2, SumsMove DEF TakesItem, Types
<1>4. Taken' = Taken
  BY <1>1, TakenStays
<1>5. HasItem'
  BY <1>1, WorkerLeavesProducers DEF IInv
<1>6. QED
  BY <1>1, <1>2, <1>3, <1>4, <1>5, QuietStep

LEMMA ExitStep ==
  ASSUME IInv, NEW w \in Worker, Exit(w)
  PROVE  IInv' /\ UNCHANGED <<buffer, Taken>>
<1>1. /\ Types /\ w \in Thread /\ Moved(pc, pc', w, "wait", "exited")
      /\ pc' \in [Thread -> Place]
      /\ UNCHANGED <<slotCount, buffer, itemCount, stay, item, made, executed, owner>>
  BY WorkerMoves DEF IInv, Exit, ExitTelling
<1>2. Types'
  BY <1>1 DEF Types
<1>3. SlotsAdd' /\ ItemsAdd'
  BY <1>1, <1>2, SumsMove DEF Idles, Types
<1>4. Taken' = Taken
  BY <1>1, TakenStays
<1>5. HasItem'
  BY <1>1, WorkerLeavesProducers DEF IInv
<1>6. QED
  BY <1>1, <1>2, <1>3, <1>4, <1>5, QuietStep

LEMMA ReleaseSlotStep ==
  ASSUME IInv, NEW w \in Worker, ReleaseSlot(w)
  PROVE  IInv' /\ UNCHANGED <<buffer, Taken>>
<1>1. /\ Types /\ w \in Thread /\ Moved(pc, pc', w, "release", "action")
      /\ pc' \in [Thread -> Place]
      /\ slotCount' = slotCount + 1
      /\ UNCHANGED <<buffer, itemCount, stay, item, made, executed, owner>>
  BY WorkerMoves DEF IInv, ReleaseSlot, ReleaseSlotTo
<1>2. Types'
  BY <1>1 DEF Types
<1>3. SlotsAdd' /\ ItemsAdd'
  BY <1>1, <1>2, SumsMove DEF GivesSlot, Types
<1>4. Taken' = Taken
  BY <1>1, TakenStays
<1>5. HasItem'
  BY <1>1, WorkerLeavesProducers DEF IInv
<1>6. QED
  BY <1>1, <1>2, <1>3, <1>4, <1>5, QuietStep

(* The item is in executed before its worker forgets it. *)
LEMMA ExecuteStep ==
  ASSUME IInv, NEW w \in Worker, Execute(w)
  PROVE  IInv' /\ UNCHANGED <<buffer, Taken>>
<1>1. PICK next \in {"wait", "disconnect"} : Moved(pc, pc', w, "action", next)
  BY WorkerMoves DEF IInv
<1>2. /\ Types /\ w \in Thread
      /\ executed' = executed \cup {item[w]}
      /\ UNCHANGED <<slotCount, buffer, itemCount, stay, item, made, owner>>
  BY WorkerMoves DEF IInv, Execute
<1>3. Taken' = Taken
  <2>1. \A v \in Worker \ {w} : pc'[v] \in {"release", "action"} <=> pc[v] \in {"release", "action"}
    BY <1>1 DEF Moved, Thread
  <2>2. pc[w] = "action" /\ pc'[w] \notin {"release", "action"}
    BY <1>1 DEF Moved
  <2>3. QED  BY <1>2, <2>1, <2>2 DEF Taken
<1>4. Types'
  <2>1. item[w] \in Item
    <3>1. item[w] \in Taken
      BY <1>1 DEF Moved, Taken
    <3>2. QED  BY <3>1 DEF IInv, Distinct
  <2>2. QED  BY <1>2, <2>1 DEF Execute, Types, Place
<1>5. SlotsAdd' /\ ItemsAdd'
  BY <1>1, <1>2, <1>4, SumsMove DEF Idles, Types
<1>6. HasItem'
  BY <1>1, <1>2, WorkerLeavesProducers DEF IInv
<1>7. QED
  BY <1>2, <1>3, <1>4, <1>5, <1>6, QuietStep

LEMMA DisconnectStep ==
  ASSUME IInv, NEW w \in Worker, Disconnect(w)
  PROVE  IInv' /\ UNCHANGED <<buffer, Taken>>
<1>1. /\ Types /\ w \in Thread /\ Moved(pc, pc', w, "disconnect", "wait")
      /\ stay' = FALSE
      /\ UNCHANGED <<slotCount, buffer, itemCount, item, made, executed, owner>>
  BY WorkerMoves DEF IInv, Disconnect
<1>2. Types'
  BY <1>1 DEF Disconnect, Types, Place
<1>3. SlotsAdd' /\ ItemsAdd'
  BY <1>1, <1>2, SumsMove DEF Idles, Types
<1>4. Taken' = Taken
  BY <1>1, TakenStays
<1>5. HasItem'
  BY <1>1, WorkerLeavesProducers DEF IInv
<1>6. QED
  BY <1>1, <1>2, <1>3, <1>4, <1>5, QuietStep

LEMMA SpuriousStep ==
  ASSUME IInv, NEW t \in Thread, SpuriousWakeup(t)
  PROVE  IInv' /\ UNCHANGED <<buffer, Taken>>
<1>1. /\ Types /\ Moved(pc, pc', t, "blocked", "wait")
      /\ UNCHANGED <<slotCount, buffer, itemCount, stay, item, made, executed, owner>>
  BY DEF IInv, SpuriousWakeup, Moved, Types
<1>2. Types'
  BY <1>1 DEF SpuriousWakeup, Types, Place
<1>3. SlotsAdd' /\ ItemsAdd'
  BY <1>1, <1>2, SumsMove DEF Idles, Types
<1>4. Taken' = Taken
  BY <1>1, TakenStays
<1>5. HasItem'
  BY <1>1 DEF IInv, HasItem, Moved, Thread
<1>6. QED
  BY <1>1, <1>2, <1>3, <1>4, <1>5, QuietStep

(* The owner's steps, and those that change nothing. *)
LEMMA OwnerStep ==
  ASSUME IInv, Destroy \/ Join \/ UNCHANGED vars
  PROVE  IInv' /\ UNCHANGED <<buffer, Taken>>
<1>1. UNCHANGED <<slotCount, buffer, itemCount, pc, item, made, executed>>
  BY DEF Destroy, Join, vars
<1>2. Types'
  BY <1>1 DEF IInv, Types, Destroy, Join, vars
<1>3. SlotsAdd' /\ ItemsAdd'
  BY <1>1, SumsPrimed DEF IInv, SlotsAdd, ItemsAdd
<1>4. HasItem'
  BY <1>1 DEF IInv, HasItem
<1>5. Taken' = Taken
  BY <1>1 DEF Taken
<1>6. QED
  BY <1>1, <1>2, <1>3, <1>4, <1>5, QuietStep

-----------------------------------------------------------------------------
LEMMA InitInv ==
  ASSUME Init
  PROVE  IInv /\ Queue!Init
<1>1. Types /\ Len(buffer) = 0
  BY SizesAssumption DEF Init, Types, SizesAssumption, Place, Thread
<1>2. \A x \in {"push", "release", "announce", "pop"} : At(pc, x) = {}
  BY DEF Init, At
<1>3. \A x \in {"push", "release", "announce", "pop"} : Count(pc, x) = 0
  BY <1>2, FS_EmptySet DEF Count
<1>4. SlotsAdd /\ ItemsAdd
  BY <1>1, <1>3, SizesAssumption DEF Init, SlotsAdd, ItemsAdd, SizesAssumption
<1>5. HasItem
  BY ThreadsAssumption DEF Init, HasItem, ThreadsAssumption, Thread
<1>6. Taken = {}
  BY DEF Init, Taken, Thread
<1>7. Distinct
  BY <1>1, <1>6 DEF Distinct
<1>8. QED
  BY <1>1, <1>4, <1>5, <1>6, <1>7 DEF IInv, Queue!Init, Init

(* Every step keeps the invariant, and is a step of the bounded buffer or  *)
(* none.                                                                   *)
LEMMA StepInv ==
  ASSUME IInv, [Next]_vars
  PROVE  IInv' /\ [Queue!Next]_<<buffer, Taken>>
<1>1. ASSUME NEW p \in Producer, Produce(p) \/ Finish(p)
      PROVE  IInv' /\ [Queue!Next]_<<buffer, Taken>>
  <2>1. CASE Produce(p)
    BY <2>1, ProduceStep
  <2>2. CASE AcquireSlot(p)
    BY <2>2, AcquireSlotStep
  <2>3. CASE Push(p)
    <3>1. IInv' /\ Queue!Put(<<p, made[p] + 1>>)
      BY <2>3, PushStep
    <3>2. <<p, made[p] + 1>> \in Item
      <4>1. made[p] < MaxItem /\ made[p] \in 0 .. MaxItem /\ MaxItem \in Nat
        BY <2>3, SizesAssumption DEF IInv, HasItem, Types, Push, SizesAssumption
      <4>2. QED  BY <4>1 DEF Item
    <3>3. QED  BY <3>1, <3>2 DEF Queue!Next
  <2>4. CASE AnnounceItem(p)
    BY <2>4, AnnounceStep
  <2>5. QED
    BY <1>1, <2>1, <2>2, <2>3, <2>4 DEF Finish
<1>2. ASSUME NEW w \in Worker, Work(w)
      PROVE  IInv' /\ [Queue!Next]_<<buffer, Taken>>
  <2>1. CASE BlockConsumer(w)
    BY <2>1, BlockConsumerStep
  <2>2. CASE AcquireItem(w)
    BY <2>2, AcquireItemStep
  <2>3. CASE Exit(w)
    BY <2>3, ExitStep
  <2>4. CASE Pop(w)
    BY <2>4, PopStep DEF Queue!Next
  <2>5. CASE ReleaseSlot(w)
    BY <2>5, ReleaseSlotStep
  <2>6. CASE Execute(w)
    BY <2>6, ExecuteStep
  <2>7. CASE Disconnect(w)
    BY <2>7, DisconnectStep
  <2>8. QED
    BY <1>2, <2>1, <2>2, <2>3, <2>4, <2>5, <2>6, <2>7 DEF Work
<1>3. ASSUME NEW t \in Thread, SpuriousWakeup(t)
      PROVE  IInv' /\ [Queue!Next]_<<buffer, Taken>>
  BY <1>3, SpuriousStep
<1>4. CASE Destroy \/ Join \/ UNCHANGED vars
  BY <1>4, OwnerStep
<1>5. QED
  BY <1>1, <1>2, <1>3, <1>4 DEF Next

(* Every state of the TaskQueue is well typed; in particular neither count *)
(* ever exceeds the number of slots.                                       *)
THEOREM QueueTypeCorrect == Spec => []TypeOK
<1>1. IInv => TypeOK
  <2>1. SUFFICES ASSUME IInv PROVE TypeOK
    OBVIOUS
  <2>2. \A x \in {"push", "release", "announce", "pop"} : Count(pc, x) \in Nat
    BY CountType
  <2>3. slotCount <= Slots /\ itemCount <= Slots
    <3>1. /\ slotCount + Len(buffer) + Count(pc, "push") + Count(pc, "release") = Slots
          /\ Len(buffer) = itemCount + Count(pc, "announce") + Count(pc, "pop")
      BY <2>1 DEF IInv, SlotsAdd, ItemsAdd
    <3>2. slotCount \in Nat /\ itemCount \in Nat /\ Len(buffer) \in Nat
      BY <2>1 DEF IInv, Types
    <3>3. QED  BY <2>2, <3>1, <3>2
  <2>4. QED
    BY <2>1, <2>3, SizesAssumption DEF IInv, Types, TypeOK, Place, SizesAssumption
<1>2. QED
  BY <1>1, InitInv, StepInv, PTL DEF Spec

(* However the critical sections of produce and consume interleave, they   *)
(* put and take like one bounded first-in first-out queue: the buffer      *)
(* never holds more than its slots, front is never called on an empty      *)
(* buffer, and no item is taken twice.                                     *)
THEOREM QueueIsBoundedBuffer == Spec => IsBoundedBuffer
  BY InitInv, StepInv, PTL DEF Spec, IsBoundedBuffer, Queue!Spec

-----------------------------------------------------------------------------
(* Wake-ups.                                                               *)

LEMMA AwakeType ==
  ASSUME NEW T \in {Producer, Worker}
  PROVE  /\ IsFiniteSet(Awake(T)) /\ Cardinality(Awake(T)) \in Nat
         /\ IsFiniteSet(Awake(T)') /\ Cardinality(Awake(T)') \in Nat
<1>1. IsFiniteSet(T)
  BY ThreadsAssumption DEF ThreadsAssumption
<1>2. Awake(T) \subseteq T /\ Awake(T)' \subseteq T
  BY DEF Awake
<1>3. QED  BY <1>1, <1>2, FS_Subset, FS_CardinalityType

(* What the count of T and the threads of T may do in a step.              *)
Enough(T, n) == Blocked(T) # {} => n <= Cardinality(Awake(T))

(* Threads wake up, and nothing is added.                                  *)
LEMMA EnoughKept ==
  ASSUME NEW T \in {Producer, Worker}, NEW n \in Nat, Enough(T, n),
         Awake(T) \subseteq Awake(T)', Blocked(T)' \subseteq Blocked(T)
  PROVE  Blocked(T)' # {} => n <= Cardinality(Awake(T)')
<1>1. Cardinality(Awake(T)) <= Cardinality(Awake(T)')
  BY AwakeType, FS_Subset
<1>2. QED  BY <1>1, AwakeType DEF Enough

(* A thread that is awake takes one.                                       *)
LEMMA EnoughTaken ==
  ASSUME NEW T \in {Producer, Worker}, NEW n \in Nat, Enough(T, n), n > 0,
         NEW t \in Awake(T), Awake(T)' = Awake(T) \ {t}, Blocked(T)' = Blocked(T)
  PROVE  Blocked(T)' # {} => n - 1 <= Cardinality(Awake(T)')
<1>1. Cardinality(Awake(T) \ {t}) = Cardinality(Awake(T)) - 1
  BY AwakeType, FS_RemoveElement
<1>2. QED  BY <1>1, AwakeType DEF Enough

(* One is added and a thread that was blocked is notified.                 *)
LEMMA EnoughAdded ==
  ASSUME NEW T \in {Producer, Worker}, NEW n \in Nat, Enough(T, n),
         \/ Blocked(T)' = {}
         \/ Blocked(T) # {} /\ \E t : t \notin Awake(T) /\ Awake(T)' = Awake(T) \cup {t}
  PROVE  Blocked(T)' # {} => n + 1 <= Cardinality(Awake(T)')
<1>1. SUFFICES ASSUME Blocked(T) # {}, NEW t, t \notin Awake(T), Awake(T)' = Awake(T) \cup {t}
               PROVE  n + 1 <= Cardinality(Awake(T)')
  OBVIOUS
<1>2. Cardinality(Awake(T) \cup {t}) = Cardinality(Awake(T)) + 1
  BY <1>1, AwakeType, FS_AddElement
<1>3. QED  BY <1>1, <1>2, AwakeType DEF Enough

(* notify_one of T wakes a thread of T if there is one to wake, and leaves *)
(* the other threads where they are.                                       *)
LEMMA NotifyWakes ==
  ASSUME Types, NEW T \in {Producer, Worker}, NEW S \in {Producer, Worker}, S # T,
         NEW u \in S, pc[u] \notin {"wait", "blocked"}, NEW to \in Place,
         to \notin {"wait", "blocked"},
         NEW woken \in NotifyOne(T), pc' = [woken EXCEPT ![u] = to]
  PROVE  /\ Awake(S)' = Awake(S) /\ Blocked(S)' = Blocked(S)
         /\ \/ Blocked(T)' = {}
            \/ Blocked(T) # {} /\ \E t : t \notin Awake(T) /\ Awake(T)' = Awake(T) \cup {t}
<1>1. S \cap T = {} /\ u \notin T /\ S \subseteq Thread /\ T \subseteq Thread
  BY ThreadsAssumption DEF ThreadsAssumption, Thread
<1>2. CASE Blocked(T) = {}
  <2>1. woken = pc
    BY <1>2 DEF NotifyOne, Blocked
  <2>2. QED  BY <1>1, <1>2, <2>1 DEF Types, Awake, Blocked
<1>3. CASE Blocked(T) # {}
  <2>1. PICK t \in T : pc[t] = "blocked" /\ woken = [pc EXCEPT ![t] = "wait"]
    BY <1>3 DEF NotifyOne, Blocked
  <2>2. \A v \in Thread : v # t /\ v # u => pc'[v] = pc[v]
    BY <1>1, <2>1 DEF Types
  <2>3. pc'[t] = "wait" /\ pc'[u] = to
    BY <1>1, <2>1 DEF Types
  <2>4. Awake(T)' = Awake(T) \cup {t} /\ t \notin Awake(T)
    BY <1>1, <2>1, <2>2, <2>3 DEF Awake
  <2>5. Awake(S)' = Awake(S) /\ Blocked(S)' = Blocked(S)
    BY <1>1, <2>1, <2>2, <2>3 DEF Awake, Blocked
  <2>6. QED  BY <1>3, <2>4, <2>5
<1>4. QED  BY <1>2, <1>3

(* One thread moves, and does not fall asleep.                             *)
LEMMA MoveWakes ==
  ASSUME Types, NEW T \in {Producer, Worker}, NEW u \in Thread,
         NEW to \in Place \ {"blocked"}, pc' = [pc EXCEPT ![u] = to],
         pc[u] # "wait" \/ u \notin T
  PROVE  Awake(T) \subseteq Awake(T)' /\ Blocked(T)' \subseteq Blocked(T)
<1>1. T \subseteq Thread
  BY DEF Thread
<1>2. QED  BY <1>1 DEF Types, Awake, Blocked, Place

LEMMA WakeupsKept == Types /\ WakeupsSuffice /\ [Next]_vars => WakeupsSuffice'
<1>1. SUFFICES ASSUME Types, WakeupsSuffice, [Next]_vars
               PROVE  /\ Blocked(Producer)' # {} => slotCount' <= Cardinality(Awake(Producer)')
                      /\ Blocked(Worker)' # {} => itemCount' <= Cardinality(Awake(Worker)')
  BY DEF WakeupsSuffice
<1> DEFINE Goal == /\ Blocked(Producer)' # {} => slotCount' <= Cardinality(Awake(Producer)')
                   /\ Blocked(Worker)' # {} => itemCount' <= Cardinality(Awake(Worker)')
<1>2. /\ slotCount \in Nat /\ itemCount \in Nat /\ pc \in [Thread -> Place]
      /\ Enough(Producer, slotCount) /\ Enough(Worker, itemCount)
      /\ Producer \cap Worker = {} /\ Producer \subseteq Thread /\ Worker \subseteq Thread
  BY <1>1, ThreadsAssumption DEF Types, WakeupsSuffice, Enough, ThreadsAssumption, Thread
<1>3. ASSUME NEW u \in Thread, NEW to \in Place \ {"blocked"}, pc' = [pc EXCEPT ![u] = to],
             pc[u] # "wait", UNCHANGED <<slotCount, itemCount>>
      PROVE  Goal
  <2>1. \A T \in {Producer, Worker} :
          Awake(T) \subseteq Awake(T)' /\ Blocked(T)' \subseteq Blocked(T)
    BY <1>1, <1>3, MoveWakes
  <2>2. QED  BY <1>2, <1>3, <2>1, EnoughKept
<1>4. CASE UNCHANGED <<pc, slotCount, itemCount>>
  <2>1. \A T \in {Producer, Worker} : Awake(T)' = Awake(T) /\ Blocked(T)' = Blocked(T)
    BY <1>4 DEF Awake, Blocked
  <2>2. QED  BY <1>2, <1>4, <2>1, EnoughKept
<1>5. ASSUME NEW p \in Producer, AcquireSlot(p) PROVE Goal
  <2>1. UNCHANGED itemCount /\ pc[p] = "wait" /\ p \notin Worker
    BY <1>2, <1>5 DEF AcquireSlot, AcquireSlotIf
  <2>2. Awake(Worker)' = Awake(Worker) /\ Blocked(Worker)' = Blocked(Worker)
    BY <1>2, <1>5, <2>1 DEF AcquireSlot, AcquireSlotIf, Awake, Blocked
  <2>3. Blocked(Worker)' # {} => itemCount' <= Cardinality(Awake(Worker)')
    BY <1>2, <2>1, <2>2, EnoughKept
  <2>4. CASE slotCount > 0
    <3>1. slotCount' = slotCount - 1 /\ pc' = [pc EXCEPT ![p] = "push"]
      BY <1>5, <2>4 DEF AcquireSlot, AcquireSlotIf
    <3>2. /\ p \in Awake(Producer) /\ Awake(Producer)' = Awake(Producer) \ {p}
          /\ Blocked(Producer)' = Blocked(Producer)
      BY <1>2, <2>1, <3>1 DEF Awake, Blocked
    <3>3. QED  BY <1>2, <2>3, <2>4, <3>1, <3>2, EnoughTaken
  <2>5. CASE ~(slotCount > 0)
    <3>1. slotCount' = 0
      BY <1>2, <1>5, <2>5 DEF AcquireSlot, AcquireSlotIf
    <3>2. QED  BY <2>3, <3>1, AwakeType
  <2>6. QED  BY <2>4, <2>5
<1>6. ASSUME NEW p \in Producer, AnnounceItem(p) PROVE Goal
  <2>1. PICK woken \in NotifyOne(Worker) : pc' = [woken EXCEPT ![p] = "idle"]
    BY <1>6 DEF AnnounceItem, AnnounceTo
  <2>2. itemCount' = itemCount + 1 /\ UNCHANGED slotCount /\ pc[p] = "announce"
    BY <1>6 DEF AnnounceItem, AnnounceTo
  <2>3. Producer # Worker
    BY <1>2, <1>6
  <2>4. /\ Awake(Producer)' = Awake(Producer) /\ Blocked(Producer)' = Blocked(Producer)
        /\ \/ Blocked(Worker)' = {}
           \/ Blocked(Worker) # {} /\ \E t : t \notin Awake(Worker)
                                          /\ Awake(Worker)' = Awake(Worker) \cup {t}
    BY <1>1, <2>1, <2>2, <2>3, NotifyWakes DEF Place
  <2>5. QED  BY <1>2, <2>2, <2>4, EnoughKept, EnoughAdded
<1>7. ASSUME NEW w \in Worker, ReleaseSlot(w) PROVE Goal
  <2>1. PICK woken \in NotifyOne(Producer) : pc' = [woken EXCEPT ![w] = "action"]
    BY <1>7 DEF ReleaseSlot, ReleaseSlotTo
  <2>2. slotCount' = slotCount + 1 /\ UNCHANGED itemCount /\ pc[w] = "release"
    BY <1>7 DEF ReleaseSlot, ReleaseSlotTo
  <2>3. Producer # Worker
    BY <1>2, <1>7
  <2>4. /\ Awake(Worker)' = Awake(Worker) /\ Blocked(Worker)' = Blocked(Worker)
        /\ \/ Blocked(Producer)' = {}
           \/ Blocked(Producer) # {} /\ \E t : t \notin Awake(Producer)
                                            /\ Awake(Producer)' = Awake(Producer) \cup {t}
    BY <1>1, <2>1, <2>2, <2>3, NotifyWakes DEF Place
  <2>5. QED  BY <1>2, <2>2, <2>4, EnoughKept, EnoughAdded
<1>8. ASSUME NEW w \in Worker, BlockConsumer(w) \/ Exit(w) PROVE Goal
  <2>1. itemCount' = 0 /\ UNCHANGED slotCount
    BY <1>8 DEF BlockConsumer, Exit, ExitTelling
  <2>2. \A p \in Producer : pc'[p] = pc[p]
    <3>1. CASE BlockConsumer(w)
      BY <1>2, <3>1 DEF BlockConsumer
    <3>2. CASE Exit(w)
      <4>1. PICK woken \in NotifyOne(Worker) : pc' = [woken EXCEPT ![w] = "exited"]
        BY <3>2 DEF Exit, ExitTelling
      <4>2. woken = pc \/ \E t \in Worker : woken = [pc EXCEPT ![t] = "wait"]
        BY DEF NotifyOne
      <4>3. QED  BY <1>2, <4>1, <4>2
    <3>3. QED  BY <1>8, <3>1, <3>2
  <2>3. Awake(Producer)' = Awake(Producer) /\ Blocked(Producer)' = Blocked(Producer)
    BY <2>2 DEF Awake, Blocked
  <2>4. QED  BY <1>2, <2>1, <2>3, EnoughKept, AwakeType
<1>9. ASSUME NEW w \in Worker, AcquireItem(w) PROVE Goal
  <2>1. /\ itemCount > 0 /\ itemCount' = itemCount - 1 /\ UNCHANGED slotCount
        /\ pc[w] = "wait" /\ pc' = [pc EXCEPT ![w] = "pop"]
    BY <1>9 DEF AcquireItem
  <2>2. /\ w \in Awake(Worker) /\ Awake(Worker)' = Awake(Worker) \ {w}
        /\ Blocked(Worker)' = Blocked(Worker)
        /\ Awake(Producer)' = Awake(Producer) /\ Blocked(Producer)' = Blocked(Producer)
    BY <1>2, <2>1 DEF Awake, Blocked
  <2>3. QED  BY <1>2, <2>1, <2>2, EnoughKept, EnoughTaken
<1>10. ASSUME NEW p \in Producer, Produce(p) \/ Push(p) PROVE Goal
  BY <1>2, <1>3, <1>10 DEF Produce, Push, Place
<1>11. ASSUME NEW w \in Worker, Pop(w) \/ Execute(w) \/ Disconnect(w) PROVE Goal
  BY <1>2, <1>3, <1>11 DEF Pop, PopLeaving, Execute, Disconnect, Place
<1>12. ASSUME NEW t \in Thread, SpuriousWakeup(t) PROVE Goal
  BY <1>3, <1>12 DEF SpuriousWakeup, Place
<1>13. CASE Destroy \/ Join \/ UNCHANGED vars
  BY <1>4, <1>13 DEF Destroy, Join, vars
<1>14. QED
  BY <1>1, <1>5, <1>6, <1>7, <1>8, <1>9, <1>10, <1>11, <1>12, <1>13 DEF Next, Finish, Work

(* Whatever the number of producers, workers and slots, no free slot and   *)
(* no announced item is left to threads that sleep: a notification that    *)
(* reached a thread which then found nothing was used by another one.      *)
THEOREM NoWakeupIsLost == Spec => []WakeupsSuffice
<1>1. Init => WakeupsSuffice
  BY DEF Init, WakeupsSuffice, Blocked, Thread
<1>2. IInv => Types
  BY DEF IInv
<1>3. QED  BY <1>1, <1>2, InitInv, StepInv, WakeupsKept, PTL DEF Spec
=============================================================================
