---- MODULE BuffRing ----
(***************************************************************************)
(* The lock-free ring of src/buffer_ring.h (class BuffRing<T>), the queue  *)
(* between the capture threads and the logger thread, at the grain of its  *)
(* loads, stores and compare-and-swaps.  src/buffer_ring_c.h is the same   *)
(* algorithm in C.                                                         *)
(*                                                                         *)
(* Every thread runs one call at a time: a producer DoEnqueue, a consumer  *)
(* DoDequeue or RingCount.  Indices are unsigned words that wrap at        *)
(* Modulus (2^32 in the code) and are masked to a slot only on access.     *)
(***************************************************************************)
EXTENDS Integers, Sequences, SequencesExt

CONSTANTS
  Producers, Consumers,   \* threads; no thread is both
  Items,                  \* the elements enqueued (T in the code)
  NoItem,                 \* content of a slot never written (new T[size_])
  size_,                  \* number of slots, a power of two
  Modulus,                \* 2^(width of an index)
  behavior_,              \* kRingQueueFixed or kRingQueueVariable
  single_producer_,
  single_consumer_,
  EnqBatches,             \* the arrays producers enqueue
  DeqSizes,               \* the lengths consumers ask for
  MaxLag                  \* scheduling bound, see NoLap

kRingQueueFixed == 0
kRingQueueVariable == 1

Threads == Producers \union Consumers
capacity_ == size_ - 1

ASSUME ThreadsAssumption == Producers \intersect Consumers = {}
\* RoundupPowerOf2 makes size_ a power of two, so it divides 2^32.
ASSUME SizeAssumption ==
  /\ size_ \in Nat \ {0}
  /\ Modulus \in Nat \ {0} /\ Modulus % size_ = 0
ASSUME LagAssumption == MaxLag \in Nat /\ capacity_ + MaxLag < Modulus
ASSUME BehaviorAssumption == behavior_ \in {kRingQueueFixed, kRingQueueVariable}
\* The flags are the caller's promise that it has one such thread.
ASSUME SingleAssumption ==
  /\ single_producer_ \in BOOLEAN /\ single_consumer_ \in BOOLEAN
  /\ single_producer_ => \A p, q \in Producers : p = q
  /\ single_consumer_ => \A c, d \in Consumers : c = d
ASSUME BatchAssumption == /\ EnqBatches \subseteq Seq(Items) \ {<<>>}
                          /\ DeqSizes \subseteq Nat \ {0}
ASSUME NoItemAssumption == NoItem \notin Items

VARIABLES
  prod_head, prod_tail,   \* prod_.head, prod_.tail
  cons_head, cons_tail,   \* cons_.head, cons_.tail
  data_,                  \* the slots
  pc,                     \* per thread: the next access to shared memory
  obj,                    \* per thread: the caller's array
  max,                    \* per thread: the length the caller asked for
  n,                      \* per thread: the length claimed
  old_head,               \* per thread: the head it loaded
  entries,                \* per thread: free_entries, entries or RingCount's value
  i                       \* per thread: elements copied so far

ringVars == <<prod_head, prod_tail, cons_head, cons_tail, data_>>
locals == <<obj, max, n, old_head, entries, i>>
vars == <<prod_head, prod_tail, cons_head, cons_tail, data_,
          pc, obj, max, n, old_head, entries, i>>

Index == 0..(Modulus - 1)
Slots == 0..(size_ - 1)

----------------------------------------------------------------------------
\* Unsigned arithmetic and the small tests the mutual exclusion rests on.

\* Mutant of Add: an index that does not wrap.
AddNoWrap(a, b) == a + b

Add(a, b) == (a + b) % Modulus
Sub(a, b) == (a - b) % Modulus
Slot(x) == x % size_

\* n after "if (n > entries) n = FIXED ? 0 : entries".
Clip(m, avail) ==
  IF m <= avail THEN m
  ELSE IF behavior_ = kRingQueueFixed THEN 0 ELSE avail

\* Mutants of FreeEntries: bounded by cons_.head, or masked as RingCount is.
FreeEntriesToHead(head) == Sub(Add(capacity_, cons_head), head)
FreeEntriesMasked(head) == Slot(Sub(Add(capacity_, cons_tail), head))
\* Mutants of Entries: bounded by prod_.head, or masked as RingCount is.
EntriesToHead(head) == Sub(prod_head, head)
EntriesMasked(head) == Slot(Sub(prod_tail, head))

FreeEntries(head) == Sub(Add(capacity_, cons_tail), head)
Entries(head) == Sub(prod_tail, head)

\* Mutant of Swings: a plain store where the CAS is needed.
SwingsAlways(single, head, old) == TRUE

\* The store of a single thread always lands, the CAS only on the old value.
Swings(single, head, old) == single \/ head = old

\* Mutant of TailReady: publish without waiting for the earlier claims.
TailReadyAlways(single, tail, old) == TRUE

\* UpdateTail spins until the tail reaches the claim, unless single.
TailReady(single, tail, old) == single \/ tail = old

\* Scheduling bound: while thread t sits between its load of a head and its
\* CAS, the other threads of its side claim at most MaxLag elements, so the
\* head cannot come back to the loaded value.  With 2^32 indices that is four
\* billion elements during one preemption.
NoLap(t, side, head, m) ==
  \A u \in side \ {t} :
    pc[u] \in {"bound", "move"} => Sub(head, old_head[u]) + m <= MaxLag

----------------------------------------------------------------------------
Init ==
  /\ prod_head = 0 /\ prod_tail = 0 /\ cons_head = 0 /\ cons_tail = 0
  /\ data_ = [s \in Slots |-> NoItem]
  /\ pc = [t \in Threads |-> "idle"]
  /\ obj = [t \in Threads |-> <<>>]
  /\ max = [t \in Threads |-> 0]
  /\ n = [t \in Threads |-> 0]
  /\ old_head = [t \in Threads |-> 0]
  /\ entries = [t \in Threads |-> 0]
  /\ i = [t \in Threads |-> 0]

Goto(t, label) == pc' = [pc EXCEPT ![t] = label]

\* A producer calls DoEnqueue with a batch.
DoEnqueue(p) ==
  /\ pc[p] = "idle"
  /\ \E batch \in EnqBatches :
       /\ obj' = [obj EXCEPT ![p] = batch]
       /\ max' = [max EXCEPT ![p] = Len(batch)]
  /\ Goto(p, "load")
  /\ UNCHANGED <<ringVars, n, old_head, entries, i>>

\* MoveProdHead, first load: *old_head = prod_.head.
LoadProdHead(p) ==
  /\ pc[p] = "load"
  /\ old_head' = [old_head EXCEPT ![p] = prod_head]
  /\ Goto(p, "bound")
  /\ UNCHANGED <<ringVars, obj, max, n, entries, i>>

\* MoveProdHead, second load: cons_.tail bounds the claim; n = 0 returns.
BoundProducer(p) ==
  /\ pc[p] = "bound"
  /\ entries' = [entries EXCEPT ![p] = FreeEntries(old_head[p])]
  /\ n' = [n EXCEPT ![p] = Clip(max[p], FreeEntries(old_head[p]))]
  /\ Goto(p, IF Clip(max[p], FreeEntries(old_head[p])) = 0 THEN "return" ELSE "move")
  /\ UNCHANGED <<ringVars, obj, max, old_head, i>>

\* MoveProdHead, the store or the CAS that claims [old_head, old_head + n).
MoveProdHead(p) ==
  /\ pc[p] = "move"
  /\ Swings(single_producer_, prod_head, old_head[p])
  /\ NoLap(p, Producers, prod_head, n[p])
  /\ prod_head' = Add(old_head[p], n[p])
  /\ Goto(p, "copy")
  /\ UNCHANGED <<prod_tail, cons_head, cons_tail, data_, locals>>

\* The CAS fails: n = max and around the loop again.
RetryProdHead(p) ==
  /\ pc[p] = "move"
  /\ ~Swings(single_producer_, prod_head, old_head[p])
  /\ Goto(p, "load")
  /\ n' = [n EXCEPT ![p] = 0]
  /\ old_head' = [old_head EXCEPT ![p] = 0]
  /\ entries' = [entries EXCEPT ![p] = 0]
  /\ UNCHANGED <<ringVars, obj, max, i>>

\* ENQUEUE_PTRS, one element.
EnqueueCopy(p) ==
  /\ pc[p] = "copy"
  /\ data_' = [data_ EXCEPT ![Slot(old_head[p] + i[p])] = obj[p][i[p] + 1]]
  /\ i' = [i EXCEPT ![p] = @ + 1]
  /\ Goto(p, IF i[p] + 1 = n[p] THEN "publish" ELSE "copy")
  /\ UNCHANGED <<prod_head, prod_tail, cons_head, cons_tail, obj, max, n, old_head, entries>>

\* Mutant of UpdateProdTail: publishes the length asked for, not the one claimed.
UpdateProdTailByMax(p) ==
  /\ pc[p] = "publish"
  /\ TailReady(single_producer_, prod_tail, old_head[p])
  /\ prod_tail' = Add(old_head[p], max[p])
  /\ Goto(p, "return")
  /\ UNCHANGED <<prod_head, cons_head, cons_tail, data_, locals>>

\* UpdateTail(&prod_, ...): wait for the earlier claims, then publish.
UpdateProdTail(p) ==
  /\ pc[p] = "publish"
  /\ TailReady(single_producer_, prod_tail, old_head[p])
  /\ prod_tail' = Add(old_head[p], n[p])
  /\ Goto(p, "return")
  /\ UNCHANGED <<prod_head, cons_head, cons_tail, data_, locals>>

\* A consumer calls DoDequeue.
DoDequeue(c) ==
  /\ pc[c] = "idle"
  /\ \E m \in DeqSizes : max' = [max EXCEPT ![c] = m]
  /\ Goto(c, "load")
  /\ UNCHANGED <<ringVars, obj, n, old_head, entries, i>>

\* MoveConsumerHead, first load: *old_head = cons_.head.
LoadConsHead(c) ==
  /\ pc[c] = "load"
  /\ old_head' = [old_head EXCEPT ![c] = cons_head]
  /\ Goto(c, "bound")
  /\ UNCHANGED <<ringVars, obj, max, n, entries, i>>

\* Mutant of BoundConsumer: an empty ring sends the caller around the loop.
BoundConsumerSpins(c) ==
  /\ pc[c] = "bound"
  /\ entries' = [entries EXCEPT ![c] = Entries(old_head[c])]
  /\ n' = [n EXCEPT ![c] = Clip(max[c], Entries(old_head[c]))]
  /\ Goto(c, IF Clip(max[c], Entries(old_head[c])) = 0 THEN "load" ELSE "move")
  /\ UNCHANGED <<ringVars, obj, max, old_head, i>>

\* MoveConsumerHead, second load: prod_.tail bounds the claim; n = 0 returns.
BoundConsumer(c) ==
  /\ pc[c] = "bound"
  /\ entries' = [entries EXCEPT ![c] = Entries(old_head[c])]
  /\ n' = [n EXCEPT ![c] = Clip(max[c], Entries(old_head[c]))]
  /\ Goto(c, IF Clip(max[c], Entries(old_head[c])) = 0 THEN "return" ELSE "move")
  /\ UNCHANGED <<ringVars, obj, max, old_head, i>>

\* MoveConsumerHead, the store or the CAS that claims [old_head, old_head + n).
MoveConsumerHead(c) ==
  /\ pc[c] = "move"
  /\ Swings(single_consumer_, cons_head, old_head[c])
  /\ NoLap(c, Consumers, cons_head, n[c])
  /\ cons_head' = Add(old_head[c], n[c])
  /\ Goto(c, "copy")
  /\ UNCHANGED <<prod_head, prod_tail, cons_tail, data_, locals>>

\* The CAS fails: n = max and around the loop again.
RetryConsHead(c) ==
  /\ pc[c] = "move"
  /\ ~Swings(single_consumer_, cons_head, old_head[c])
  /\ Goto(c, "load")
  /\ n' = [n EXCEPT ![c] = 0]
  /\ old_head' = [old_head EXCEPT ![c] = 0]
  /\ entries' = [entries EXCEPT ![c] = 0]
  /\ UNCHANGED <<ringVars, obj, max, i>>

\* Mutant of DequeueCopy: reads one slot ahead.
DequeueCopyAhead(c) ==
  /\ pc[c] = "copy"
  /\ obj' = [obj EXCEPT ![c] = Append(@, data_[Slot(old_head[c] + i[c] + 1)])]
  /\ i' = [i EXCEPT ![c] = @ + 1]
  /\ Goto(c, IF i[c] + 1 = n[c] THEN "publish" ELSE "copy")
  /\ UNCHANGED <<ringVars, max, n, old_head, entries>>

\* DEQUEUE_PTRS, one element.
DequeueCopy(c) ==
  /\ pc[c] = "copy"
  /\ obj' = [obj EXCEPT ![c] = Append(@, data_[Slot(old_head[c] + i[c])])]
  /\ i' = [i EXCEPT ![c] = @ + 1]
  /\ Goto(c, IF i[c] + 1 = n[c] THEN "publish" ELSE "copy")
  /\ UNCHANGED <<ringVars, max, n, old_head, entries>>

\* UpdateTail(&cons_, ...): wait for the earlier claims, then free the slots.
UpdateConsTail(c) ==
  /\ pc[c] = "publish"
  /\ TailReady(single_consumer_, cons_tail, old_head[c])
  /\ cons_tail' = Add(old_head[c], n[c])
  /\ Goto(c, "return")
  /\ UNCHANGED <<prod_head, prod_tail, cons_head, data_, locals>>

\* Mutant of RingCountProdTail: counts elements claimed but not published.
RingCountProdHead(c) ==
  /\ pc[c] = "idle"
  /\ entries' = [entries EXCEPT ![c] = prod_head]
  /\ Goto(c, "count")
  /\ UNCHANGED <<ringVars, obj, max, n, old_head, i>>

\* RingCount, first load: prod_.tail.
RingCountProdTail(c) ==
  /\ pc[c] = "idle"
  /\ entries' = [entries EXCEPT ![c] = prod_tail]
  /\ Goto(c, "count")
  /\ UNCHANGED <<ringVars, obj, max, n, old_head, i>>

\* RingCount, second load: cons_.tail; the masked value never exceeds capacity_.
RingCountConsTail(c) ==
  /\ pc[c] = "count"
  /\ entries' = [entries EXCEPT ![c] = Slot(Sub(@, cons_tail))]
  /\ Goto(c, "counted")
  /\ UNCHANGED <<ringVars, obj, max, n, old_head, i>>

\* The call returns to its caller; its locals are dead.
Return(t) ==
  /\ pc[t] \in {"return", "counted"}
  /\ Goto(t, "idle")
  /\ obj' = [obj EXCEPT ![t] = <<>>]
  /\ max' = [max EXCEPT ![t] = 0]
  /\ n' = [n EXCEPT ![t] = 0]
  /\ old_head' = [old_head EXCEPT ![t] = 0]
  /\ entries' = [entries EXCEPT ![t] = 0]
  /\ i' = [i EXCEPT ![t] = 0]
  /\ UNCHANGED ringVars

\* What a thread does once it is inside a call.
ProducerStep(p) ==
  \/ LoadProdHead(p) \/ BoundProducer(p) \/ MoveProdHead(p) \/ RetryProdHead(p)
  \/ EnqueueCopy(p) \/ UpdateProdTail(p) \/ Return(p)
ConsumerStep(c) ==
  \/ LoadConsHead(c) \/ BoundConsumer(c) \/ MoveConsumerHead(c) \/ RetryConsHead(c)
  \/ DequeueCopy(c) \/ UpdateConsTail(c) \/ RingCountConsTail(c) \/ Return(c)

Next ==
  \/ \E p \in Producers : DoEnqueue(p) \/ ProducerStep(p)
  \/ \E c \in Consumers : DoDequeue(c) \/ RingCountProdTail(c) \/ ConsumerStep(c)

Spec == Init /\ [][Next]_vars

\* Threads are scheduled: one that is inside a call and not waiting moves on.
FairSpec == /\ Spec
            /\ \A p \in Producers : WF_vars(ProducerStep(p))
            /\ \A c \in Consumers : WF_vars(ConsumerStep(c))

----------------------------------------------------------------------------
\* The inductive invariant.  Positions are measured from cons_tail, where the
\* occupied part of the ring begins.

Used(x) == Sub(x, cons_tail)
Claimed(t) == pc[t] \in {"copy", "publish"}
Pending(t) == pc[t] \in {"bound", "move"}
End(t) == Add(old_head[t], n[t])

\* The four indices follow each other and never span more than capacity_.
IndexOrder == /\ Used(cons_head) <= Used(prod_tail)
              /\ Used(prod_tail) <= Used(prod_head)
              /\ Used(prod_head) <= capacity_

\* A claim is not empty and lies inside [tail, head) of its side.
ClaimBounds ==
  /\ \A p \in Producers : Claimed(p) =>
       /\ n[p] >= 1
       /\ Used(prod_tail) <= Used(old_head[p])
       /\ Used(old_head[p]) + n[p] <= Used(prod_head)
  /\ \A c \in Consumers : Claimed(c) =>
       /\ n[c] >= 1
       /\ Used(old_head[c]) + n[c] <= Used(cons_head)

\* The claims of one side do not overlap ...
Apart(side) ==
  \A t, u \in side : (t # u /\ Claimed(t) /\ Claimed(u)) =>
    \/ Used(old_head[t]) + n[t] <= Used(old_head[u])
    \/ Used(old_head[u]) + n[u] <= Used(old_head[t])
ClaimsApart == Apart(Producers) /\ Apart(Consumers)

\* ... and tile [tail, head): the oldest starts at the tail, each ends where
\* the next one starts or at the head.  A gap would leave every later claimant
\* spinning in UpdateTail for ever.
ClaimsTile ==
  /\ prod_tail # prod_head => \E p \in Producers : Claimed(p) /\ old_head[p] = prod_tail
  /\ cons_tail # cons_head => \E c \in Consumers : Claimed(c) /\ old_head[c] = cons_tail
  /\ \A p \in Producers : Claimed(p) =>
       End(p) = prod_head \/ \E q \in Producers : Claimed(q) /\ old_head[q] = End(p)
  /\ \A c \in Consumers : Claimed(c) =>
       End(c) = cons_head \/ \E d \in Consumers : Claimed(d) /\ old_head[d] = End(c)

\* A loaded head is behind the head by what others claimed since, and a claim
\* that can still succeed fits.
PendingBounds ==
  /\ \A p \in Producers : Pending(p) =>
       /\ Sub(prod_head, old_head[p]) <= MaxLag
       /\ single_producer_ => old_head[p] = prod_head
       /\ pc[p] = "move" =>
            n[p] >= 1 /\ (old_head[p] = prod_head => Used(prod_head) + n[p] <= capacity_)
  /\ \A c \in Consumers : Pending(c) =>
       /\ Sub(cons_head, old_head[c]) <= MaxLag
       /\ single_consumer_ => old_head[c] = cons_head
       /\ pc[c] = "move" =>
            n[c] >= 1 /\ (old_head[c] = cons_head => Used(cons_head) + n[c] <= Used(prod_tail))

\* The copy loops stay inside the claim, and a claim inside the caller's array.
CopyBounds ==
  /\ \A p \in Producers : Len(obj[p]) = max[p] /\ n[p] <= max[p]
  /\ \A c \in Consumers : Len(obj[c]) = i[c] /\ n[c] <= max[c]
  /\ \A t \in Threads : /\ pc[t] \in {"load", "bound", "move"} => max[t] >= 1
                        /\ pc[t] \in {"idle", "load", "bound"} => n[t] = 0
                        /\ pc[t] \in {"idle", "load", "bound", "move"} => i[t] = 0
                        /\ pc[t] = "copy" => i[t] < n[t]
                        /\ pc[t] = "publish" => i[t] = n[t]

\* Type invariant.
TypeOK ==
  /\ prod_head \in Index /\ prod_tail \in Index
  /\ cons_head \in Index /\ cons_tail \in Index
  /\ data_ \in [Slots -> Items \union {NoItem}]
  /\ pc \in [Threads -> {"idle", "load", "bound", "move", "copy", "publish",
                         "return", "count", "counted"}]
  /\ obj \in [Threads -> Seq(Items \union {NoItem})]
  /\ max \in [Threads -> Nat]
  /\ n \in [Threads -> Index]
  /\ old_head \in [Threads -> Index]
  /\ entries \in [Threads -> Index]
  /\ i \in [Threads -> Nat]

\* The index protocol of MoveProdHead, MoveConsumerHead and UpdateTail: with
\* every interleaving of loads, stores and CAS, claims stay inside the ring,
\* never overlap and leave no gap for UpdateTail to wait on.
IndexInv == /\ IndexOrder
            /\ ClaimBounds
            /\ ClaimsApart
            /\ ClaimsTile
            /\ PendingBounds
            /\ CopyBounds

----------------------------------------------------------------------------
\* Properties.

\* The slots a thread copies to or from between its CAS and UpdateTail.
ClaimedSlots(t) ==
  IF Claimed(t) THEN {Slot(old_head[t] + j) : j \in 0..(n[t] - 1)} ELSE {}

\* ENQUEUE_PTRS and DEQUEUE_PTRS are not atomic: no two calls in flight may
\* hold the same slot, whichever sides they are on.
SlotExclusive ==
  \A t, u \in Threads : t # u => ClaimedSlots(t) \intersect ClaimedSlots(u) = {}

\* DoEnqueue returns 0 only when at that moment the batch does not fit, claimed
\* and unreleased elements included: a stale prod_.head is never the reason.
NoSpuriousFull ==
  [][\A p \in Producers :
       (pc[p] = "bound" /\ pc'[p] = "return") =>
         IF behavior_ = kRingQueueFixed THEN Used(prod_head) + max[p] > capacity_
                                        ELSE Used(prod_head) = capacity_]_vars

\* DoDequeue returns 0 only when at that moment fewer elements than asked for
\* are published and unclaimed: a stale cons_.head is never the reason.
NoSpuriousEmpty ==
  [][\A c \in Consumers :
       (pc[c] = "bound" /\ pc'[c] = "return") =>
         IF behavior_ = kRingQueueFixed
           THEN Sub(prod_tail, cons_head) < max[c]
           ELSE prod_tail = cons_head]_vars

\* What DoEnqueue and DoDequeue report in *free_space and *available
\* (entries - n) is at most capacity_, although entries alone may not be: a
\* claim that succeeded saw no stale head.  Only a call that is refused because
\* it asked for more than the ring can ever hold may report too much.
ReportInRange ==
  \A t \in Threads :
    (pc[t] \in {"publish", "return"} /\ (n[t] > 0 \/ max[t] <= capacity_)) =>
      entries[t] - n[t] \in 0..capacity_

\* RingCount reads two indices at two moments; for the only consumer the result
\* is still a number of elements its next DoDequeue can take.
CountIsLowerBound ==
  single_consumer_ =>
    \A c \in Consumers : pc[c] = "counted" => entries[c] <= Sub(prod_tail, cons_head)

\* The ring is a bounded FIFO of batches (RingQueue): nothing is lost,
\* duplicated, torn or reordered between DoEnqueue and DoDequeue.
Published == [k \in 1..Sub(prod_tail, cons_head) |-> data_[Slot(cons_head + k - 1)]]
Room == capacity_ - Used(prod_head)
Reserved == [p \in Producers |-> IF Claimed(p) THEN SubSeq(obj[p], 1, n[p]) ELSE <<>>]
Taken == [c \in Consumers |->
            IF Claimed(c) THEN [k \in 1..n[c] |-> data_[Slot(old_head[c] + k - 1)]] ELSE <<>>]
Delivered == [c \in Consumers |-> IF pc[c] = "return" THEN obj[c] ELSE <<>>]
Abstract == INSTANCE RingQueue WITH
  Capacity <- capacity_, queue <- Published, room <- Room,
  reserved <- Reserved, taken <- Taken, out <- Delivered
RefinesRingQueue == Abstract!Spec

\* The threads that wait for others of their side in UpdateTail.
Sharing == (IF single_producer_ THEN {} ELSE Producers) \union
           (IF single_consumer_ THEN {} ELSE Consumers)

\* Every claim is published or released: UpdateTail's wait ends as long as the
\* threads keep being scheduled, with no help from new calls.
ClaimsComplete == \A t \in Sharing : pc[t] = "copy" ~> pc[t] = "return"

\* The only thread of its side always returns from a call, whatever the others
\* do: its loop has no CAS to lose and no tail to wait for.
SingleReturns ==
  \A c \in Consumers : (single_consumer_ /\ pc[c] = "load") ~> pc[c] = "idle"

\* The comment at src/buffer_ring_c.h:203: "So 'entries' is always between 0
\* and size(ring)-1."
EntriesInRange == \A c \in Consumers : pc[c] = "move" => entries[c] \in 0..(size_ - 1)
====
