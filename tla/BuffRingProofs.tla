---- MODULE BuffRingProofs ----
(***************************************************************************)
(* Theorems about BuffRing: for every number of threads, ring size, index  *)
(* width and batch size.                                                   *)
(***************************************************************************)
EXTENDS BuffRing, CommonLemmas

----------------------------------------------------------------------------
\* Unsigned arithmetic.
LEMMA AddIndex ==
  ASSUME NEW a \in Index, NEW b \in Index
  PROVE  /\ Add(a, b) \in Index
         /\ Add(a, b) = IF a + b < Modulus THEN a + b ELSE a + b - Modulus
<1>1. Modulus \in Nat \ {0} BY SizeAssumption
<1> QED BY <1>1, SMT DEF Add, Index

LEMMA SubIndex ==
  ASSUME NEW a \in Index, NEW b \in Index
  PROVE  /\ Sub(a, b) \in Index
         /\ Sub(a, b) = IF a >= b THEN a - b ELSE a - b + Modulus
<1>1. Modulus \in Nat \ {0} BY SizeAssumption
<1> QED BY <1>1, SMT DEF Sub, Index

LEMMA SlotInSlots == ASSUME NEW x \in Int PROVE Slot(x) \in Slots
  BY DivMod, SizeAssumption DEF Slot, Slots

LEMMA SubZero ==
  ASSUME NEW a \in Index, NEW b \in Index
  PROVE  Sub(a, b) = 0 <=> a = b
<1>1. Sub(a, b) = IF a >= b THEN a - b ELSE a - b + Modulus BY SubIndex
<1> QED BY <1>1, SizeAssumption DEF Index

LEMMA SubOfAdd ==
  ASSUME NEW a \in Index, NEW b \in Index, NEW k \in Index, Sub(a, b) + k < Modulus
  PROVE  Sub(Add(a, k), b) = Sub(a, b) + k
<1> DEFINE s == Add(a, k)
<1>1. s \in Index BY AddIndex
<1>2. s = IF a + k < Modulus THEN a + k ELSE a + k - Modulus BY AddIndex
<1> HIDE DEF s
<1>3. Sub(a, b) = IF a >= b THEN a - b ELSE a - b + Modulus BY SubIndex
<1>4. Sub(s, b) = IF s >= b THEN s - b ELSE s - b + Modulus BY SubIndex, <1>1
<1>5. Sub(s, b) = Sub(a, b) + k BY <1>1, <1>2, <1>3, <1>4, SizeAssumption DEF Index
<1> QED BY <1>5 DEF s

\* Moving the origin forward by k shortens every distance of at least k by k.
LEMMA SubFromAdd ==
  ASSUME NEW a \in Index, NEW b \in Index, NEW k \in Index, k <= Sub(a, b)
  PROVE  Sub(a, Add(b, k)) = Sub(a, b) - k
<1> DEFINE s == Add(b, k)
<1>1. s \in Index BY AddIndex
<1>2. s = IF b + k < Modulus THEN b + k ELSE b + k - Modulus BY AddIndex
<1> HIDE DEF s
<1>3. Sub(a, b) = IF a >= b THEN a - b ELSE a - b + Modulus BY SubIndex
<1>4. Sub(a, s) = IF a >= s THEN a - s ELSE a - s + Modulus BY SubIndex, <1>1
<1>5. Sub(a, s) = Sub(a, b) - k BY <1>1, <1>2, <1>3, <1>4, SizeAssumption DEF Index
<1> QED BY <1>5 DEF s

\* Distances from a common origin subtract; equal ones mean equal points.
LEMMA SubDifference ==
  ASSUME NEW a \in Index, NEW b \in Index, NEW c \in Index, Sub(b, c) <= Sub(a, c)
  PROVE  Sub(a, b) = Sub(a, c) - Sub(b, c)
<1>1. Sub(a, c) = IF a >= c THEN a - c ELSE a - c + Modulus BY SubIndex
<1>2. Sub(b, c) = IF b >= c THEN b - c ELSE b - c + Modulus BY SubIndex
<1>3. Sub(a, b) = IF a >= b THEN a - b ELSE a - b + Modulus BY SubIndex
<1> QED BY <1>1, <1>2, <1>3, SizeAssumption DEF Index

LEMMA SubInjective ==
  ASSUME NEW a \in Index, NEW b \in Index, NEW c \in Index, Sub(a, c) = Sub(b, c)
  PROVE  a = b
<1>1. Sub(a, c) \in Int /\ Sub(b, c) \in Int BY SubIndex DEF Index
<1>2. Sub(a, b) = Sub(a, c) - Sub(b, c) BY <1>1, SubDifference
<1> QED BY <1>1, <1>2, SubZero

LEMMA Capacity ==
  /\ capacity_ \in Index /\ capacity_ < size_ /\ size_ <= Modulus
  /\ MaxLag \in Nat /\ capacity_ + MaxLag < Modulus
<1>1. Modulus \in Nat /\ size_ \in Nat /\ MaxLag \in Nat /\ size_ >= 1 BY SizeAssumption, LagAssumption
<1>2. size_ - 1 + MaxLag < Modulus BY LagAssumption DEF capacity_
<1> QED BY <1>1, <1>2 DEF capacity_, Index

LEMMA ClipBound ==
  ASSUME NEW m \in Nat, NEW avail \in Index
  PROVE  Clip(m, avail) \in Index /\ Clip(m, avail) <= avail /\ Clip(m, avail) <= m
  BY SizeAssumption DEF Clip, Index

----------------------------------------------------------------------------
\* Types and copy loops, one lemma per kind of step.

LEMMA BatchType ==
  ASSUME NEW batch \in EnqBatches
  PROVE  batch \in Seq(Items \union {NoItem}) /\ Len(batch) \in Nat /\ Len(batch) >= 1
<1>1. batch \in Seq(Items) /\ batch # <<>> BY BatchAssumption
<1>2. Len(batch) \in Nat /\ batch \in [1..Len(batch) -> Items] BY <1>1
<1>3. batch \in [1..Len(batch) -> Items \union {NoItem}] BY <1>2
<1>4. Len(batch) # 0 BY <1>1
<1>5. batch \in Seq(Items \union {NoItem}) BY <1>2, <1>3
<1> QED BY <1>2, <1>4, <1>5

LEMMA TypeInit == Init => TypeOK /\ CopyBounds
<1> SUFFICES ASSUME Init PROVE TypeOK /\ CopyBounds OBVIOUS
<1>1. 0 \in Index BY SizeAssumption DEF Index
<1>2. <<>> \in Seq(Items \union {NoItem}) /\ Len(<<>>) = 0 OBVIOUS
<1>3. TypeOK BY <1>1, <1>2 DEF Init, TypeOK
<1>4. CopyBounds BY <1>2 DEF Init, CopyBounds, Threads
<1> QED BY <1>3, <1>4

LEMMA TypeCall ==
  ASSUME TypeOK, CopyBounds, NEW t \in Threads,
         \/ t \in Producers /\ DoEnqueue(t)
         \/ t \in Consumers /\ (DoDequeue(t) \/ RingCountProdTail(t))
  PROVE  TypeOK' /\ CopyBounds'
<1>1. CASE t \in Producers /\ DoEnqueue(t)
  <2>1. PICK batch \in EnqBatches : /\ obj' = [obj EXCEPT ![t] = batch]
                                    /\ max' = [max EXCEPT ![t] = Len(batch)]
        BY <1>1 DEF DoEnqueue
  <2>2. batch \in Seq(Items \union {NoItem}) /\ Len(batch) \in Nat /\ Len(batch) >= 1 BY BatchType
  <2>3. TypeOK' BY <1>1, <2>1, <2>2 DEF DoEnqueue, Goto, TypeOK, ringVars
  <2>4. \A p \in Producers : Len(obj[p])' = max'[p] /\ n'[p] <= max'[p]
    <3> SUFFICES ASSUME NEW p \in Producers
                 PROVE  Len(obj'[p]) = max'[p] /\ n'[p] <= max'[p]
        OBVIOUS
    <3>1. CASE p = t
      BY <3>1, <1>1, <2>1, <2>2 DEF DoEnqueue, TypeOK, CopyBounds, Threads, Index
    <3>2. CASE p # t
      BY <3>2, <1>1, <2>1 DEF DoEnqueue, TypeOK, CopyBounds, Threads
    <3> QED BY <3>1, <3>2
  <2>5. CopyBounds' BY <1>1, <2>1, <2>2, <2>4, ThreadsAssumption
        DEF DoEnqueue, Goto, TypeOK, CopyBounds, ringVars, Threads
  <2> QED BY <2>3, <2>5
<1>2. CASE t \in Consumers /\ DoDequeue(t)
  <2>1. PICK m \in DeqSizes : max' = [max EXCEPT ![t] = m] BY <1>2 DEF DoDequeue
  <2>2. m \in Nat /\ m >= 1 BY BatchAssumption
  <2>3. TypeOK' BY <1>2, <2>1, <2>2 DEF DoDequeue, Goto, TypeOK, ringVars
  <2>4. CopyBounds' BY <1>2, <2>1, <2>2, ThreadsAssumption
        DEF DoDequeue, Goto, TypeOK, CopyBounds, ringVars, Threads, Index
  <2> QED BY <2>3, <2>4
<1>3. CASE t \in Consumers /\ RingCountProdTail(t)
  BY <1>3, ThreadsAssumption
     DEF RingCountProdTail, Goto, TypeOK, CopyBounds, ringVars, Threads, Index
<1> QED BY <1>1, <1>2, <1>3

LEMMA TypeProducer ==
  ASSUME TypeOK, CopyBounds, PendingBounds, NEW p \in Producers, ProducerStep(p)
  PROVE  TypeOK' /\ CopyBounds'
<1> USE ThreadsAssumption DEF Threads, ringVars, locals, Goto
<1>1. CASE LoadProdHead(p)
  BY <1>1 DEF LoadProdHead, TypeOK, CopyBounds
<1>2. CASE BoundProducer(p)
  <2> DEFINE free == FreeEntries(old_head[p])
  <2>1. free \in Index BY Capacity, AddIndex, SubIndex DEF FreeEntries, TypeOK
  <2> HIDE DEF free
  <2>2. Clip(max[p], free) \in Index /\ Clip(max[p], free) <= max[p]
    BY <2>1, ClipBound DEF TypeOK
  <2>3. /\ entries' = [entries EXCEPT ![p] = free]
        /\ n' = [n EXCEPT ![p] = Clip(max[p], free)]
    BY <1>2 DEF BoundProducer, free
  <2>4. pc' = [pc EXCEPT ![p] = IF Clip(max[p], free) = 0 THEN "return" ELSE "move"]
    BY <1>2 DEF BoundProducer, free
  <2> QED BY <1>2, <2>1, <2>2, <2>3, <2>4 DEF BoundProducer, TypeOK, CopyBounds
<1>3. CASE MoveProdHead(p)
  <2>1. Add(old_head[p], n[p]) \in Index BY AddIndex DEF TypeOK
  <2>2. n[p] >= 1 /\ i[p] = 0 BY <1>3 DEF MoveProdHead, PendingBounds, Pending, CopyBounds
  <2>3. TypeOK' BY <1>3, <2>1 DEF MoveProdHead, TypeOK
  <2>4. CopyBounds' BY <1>3, <2>2 DEF MoveProdHead, TypeOK, CopyBounds, Index
  <2> QED BY <2>3, <2>4
<1>4. CASE RetryProdHead(p)
  BY <1>4, SizeAssumption DEF RetryProdHead, TypeOK, CopyBounds, Index
<1>5. CASE EnqueueCopy(p)
  <2>1. /\ i[p] \in Nat /\ old_head[p] \in Nat /\ i[p] < n[p] /\ n[p] \in Nat
        /\ n[p] <= max[p] /\ Len(obj[p]) = max[p] /\ max[p] \in Nat
    BY <1>5 DEF EnqueueCopy, TypeOK, CopyBounds, Index
  <2>2. Slot(old_head[p] + i[p]) \in Slots BY <2>1, SlotInSlots
  <2>3. obj[p][i[p] + 1] \in Items \union {NoItem} BY <2>1 DEF TypeOK
  <2>4. data_' \in [Slots -> Items \union {NoItem}]
    BY <1>5, <2>3 DEF EnqueueCopy, TypeOK
  <2>5. TypeOK' BY <1>5, <2>1, <2>4 DEF EnqueueCopy, TypeOK
  <2>6. CopyBounds' BY <1>5, <2>1 DEF EnqueueCopy, TypeOK, CopyBounds
  <2> QED BY <2>5, <2>6
<1>6. CASE UpdateProdTail(p)
  <2>1. Add(old_head[p], n[p]) \in Index BY AddIndex DEF TypeOK
  <2> QED BY <1>6, <2>1 DEF UpdateProdTail, TypeOK, CopyBounds
<1>7. CASE Return(p)
  <2>1. <<>> \in Seq(Items \union {NoItem}) /\ Len(<<>>) = 0 /\ 0 \in Index
    BY SizeAssumption DEF Index
  <2> QED BY <1>7, <2>1 DEF Return, TypeOK, CopyBounds
<1> QED BY <1>1, <1>2, <1>3, <1>4, <1>5, <1>6, <1>7 DEF ProducerStep

LEMMA TypeConsumer ==
  ASSUME TypeOK, CopyBounds, PendingBounds, NEW c \in Consumers, ConsumerStep(c)
  PROVE  TypeOK' /\ CopyBounds'
<1> USE ThreadsAssumption DEF Threads, ringVars, locals, Goto
<1>1. CASE LoadConsHead(c)
  BY <1>1 DEF LoadConsHead, TypeOK, CopyBounds
<1>2. CASE BoundConsumer(c)
  <2> DEFINE avail == Entries(old_head[c])
  <2>1. avail \in Index BY SubIndex DEF Entries, TypeOK
  <2> HIDE DEF avail
  <2>2. Clip(max[c], avail) \in Index /\ Clip(max[c], avail) <= max[c]
    BY <2>1, ClipBound DEF TypeOK
  <2>3. /\ entries' = [entries EXCEPT ![c] = avail]
        /\ n' = [n EXCEPT ![c] = Clip(max[c], avail)]
    BY <1>2 DEF BoundConsumer, avail
  <2>4. pc' = [pc EXCEPT ![c] = IF Clip(max[c], avail) = 0 THEN "return" ELSE "move"]
    BY <1>2 DEF BoundConsumer, avail
  <2> QED BY <1>2, <2>1, <2>2, <2>3, <2>4 DEF BoundConsumer, TypeOK, CopyBounds
<1>3. CASE MoveConsumerHead(c)
  <2>1. Add(old_head[c], n[c]) \in Index BY AddIndex DEF TypeOK
  <2>2. n[c] >= 1 /\ i[c] = 0 BY <1>3 DEF MoveConsumerHead, PendingBounds, Pending, CopyBounds
  <2>3. TypeOK' BY <1>3, <2>1 DEF MoveConsumerHead, TypeOK
  <2>4. CopyBounds' BY <1>3, <2>2 DEF MoveConsumerHead, TypeOK, CopyBounds, Index
  <2> QED BY <2>3, <2>4
<1>4. CASE RetryConsHead(c)
  BY <1>4, SizeAssumption DEF RetryConsHead, TypeOK, CopyBounds, Index
<1>5. CASE DequeueCopy(c)
  <2> DEFINE x == data_[Slot(old_head[c] + i[c])]
  <2>1. /\ i[c] \in Nat /\ old_head[c] \in Nat /\ i[c] < n[c] /\ n[c] \in Nat
    BY <1>5 DEF DequeueCopy, TypeOK, CopyBounds, Index
  <2>2. Slot(old_head[c] + i[c]) \in Slots BY <2>1, SlotInSlots
  <2>3. x \in Items \union {NoItem} BY <2>2 DEF TypeOK
  <2> HIDE DEF x
  <2>4. obj[c] \in Seq(Items \union {NoItem}) /\ Len(obj[c]) = i[c] BY DEF TypeOK, CopyBounds
  <2>5. /\ Append(obj[c], x) \in Seq(Items \union {NoItem})
        /\ Len(Append(obj[c], x)) = i[c] + 1
    BY <2>3, <2>4
  <2>6. obj' = [obj EXCEPT ![c] = Append(obj[c], x)] BY <1>5 DEF DequeueCopy, x
  <2>7. TypeOK' BY <1>5, <2>1, <2>5, <2>6 DEF DequeueCopy, TypeOK
  <2>8. CopyBounds' BY <1>5, <2>1, <2>5, <2>6 DEF DequeueCopy, TypeOK, CopyBounds
  <2> QED BY <2>7, <2>8
<1>6. CASE UpdateConsTail(c)
  <2>1. Add(old_head[c], n[c]) \in Index BY AddIndex DEF TypeOK
  <2> QED BY <1>6, <2>1 DEF UpdateConsTail, TypeOK, CopyBounds
<1>7. CASE RingCountConsTail(c)
  <2>1. Sub(entries[c], cons_tail) \in Index BY SubIndex DEF TypeOK
  <2>2. Slot(Sub(entries[c], cons_tail)) \in Slots BY <2>1, SlotInSlots DEF Index
  <2>3. Slot(Sub(entries[c], cons_tail)) \in Index
    BY <2>2, Capacity, SizeAssumption DEF Slots, Index
  <2> QED BY <1>7, <2>3 DEF RingCountConsTail, TypeOK, CopyBounds
<1>8. CASE Return(c)
  <2>1. <<>> \in Seq(Items \union {NoItem}) /\ Len(<<>>) = 0 /\ 0 \in Index
    BY SizeAssumption DEF Index
  <2> QED BY <1>8, <2>1 DEF Return, TypeOK, CopyBounds
<1> QED BY <1>1, <1>2, <1>3, <1>4, <1>5, <1>6, <1>7, <1>8 DEF ConsumerStep

----------------------------------------------------------------------------
\* The index protocol.  A step that moves no index and keeps every claim keeps
\* the claim part of the invariant.

Claims == IndexOrder /\ ClaimBounds /\ ClaimsApart /\ ClaimsTile
Indices == <<prod_head, prod_tail, cons_head, cons_tail>>

LEMMA ClaimsFrame ==
  ASSUME Claims, UNCHANGED Indices,
         \A u \in Threads : Claimed(u)' <=> Claimed(u),
         \A u \in Threads : Claimed(u) => old_head'[u] = old_head[u] /\ n'[u] = n[u]
  PROVE  Claims'
<1> USE DEF Claims, Indices, Used, Threads, End
<1>1. IndexOrder' BY DEF IndexOrder
<1>2. ClaimBounds' BY DEF ClaimBounds
<1>3. ClaimsApart' BY DEF ClaimsApart, Apart
<1>4. ClaimsTile' BY DEF ClaimsTile
<1> QED BY <1>1, <1>2, <1>3, <1>4

\* A step of thread t that moves no index and leaves the other threads alone
\* keeps their pending claims in bounds; t's own are shown at each step.
PendingOfProducer(p) ==
  Pending(p) =>
    /\ Sub(prod_head, old_head[p]) <= MaxLag
    /\ single_producer_ => old_head[p] = prod_head
    /\ pc[p] = "move" =>
         n[p] >= 1 /\ (old_head[p] = prod_head => Used(prod_head) + n[p] <= capacity_)
PendingOfConsumer(c) ==
  Pending(c) =>
    /\ Sub(cons_head, old_head[c]) <= MaxLag
    /\ single_consumer_ => old_head[c] = cons_head
    /\ pc[c] = "move" =>
         n[c] >= 1 /\ (old_head[c] = cons_head => Used(cons_head) + n[c] <= Used(prod_tail))

LEMMA PendingSplit ==
  PendingBounds <=> /\ \A p \in Producers : PendingOfProducer(p)
                    /\ \A c \in Consumers : PendingOfConsumer(c)
  BY DEF PendingBounds, PendingOfProducer, PendingOfConsumer

LEMMA PendingFrame ==
  ASSUME PendingBounds, UNCHANGED Indices, NEW t \in Threads,
         \A u \in Threads \ {t} :
           pc'[u] = pc[u] /\ old_head'[u] = old_head[u] /\ n'[u] = n[u],
         t \in Producers => PendingOfProducer(t)',
         t \in Consumers => PendingOfConsumer(t)'
  PROVE  PendingBounds'
<1> USE DEF Indices, Used, Threads, Pending, PendingOfProducer, PendingOfConsumer
<1>1. ASSUME NEW p \in Producers PROVE PendingOfProducer(p)'
  <2>1. CASE p = t BY <2>1
  <2>2. CASE p # t BY <2>2, PendingSplit
  <2> QED BY <2>1, <2>2
<1>2. ASSUME NEW c \in Consumers PROVE PendingOfConsumer(c)'
  <2>1. CASE c = t BY <2>1
  <2>2. CASE c # t BY <2>2, PendingSplit
  <2> QED BY <2>1, <2>2
<1> QED BY <1>1, <1>2, PendingSplit DEF PendingBounds

\* Steps that only touch the thread's own variables (and one slot).
LEMMA IndexLocalProducer ==
  ASSUME TypeOK, Claims, PendingBounds, NEW p \in Producers,
         \/ DoEnqueue(p) \/ LoadProdHead(p) \/ BoundProducer(p)
         \/ RetryProdHead(p) \/ EnqueueCopy(p) \/ Return(p)
  PROVE  Claims' /\ PendingBounds'
<1> USE ThreadsAssumption DEF Threads, ringVars, Goto, Claimed
<1> DEFINE Quiet == /\ UNCHANGED Indices
                    /\ \A u \in Threads : Claimed(u)' <=> Claimed(u)
                    /\ \A u \in Threads : Claimed(u) => old_head'[u] = old_head[u] /\ n'[u] = n[u]
                    /\ \A u \in Threads \ {p} :
                         pc'[u] = pc[u] /\ old_head'[u] = old_head[u] /\ n'[u] = n[u]
<1> SUFFICES Quiet /\ PendingOfProducer(p)' BY ClaimsFrame, PendingFrame
<1>1. CASE DoEnqueue(p)
  BY <1>1 DEF DoEnqueue, TypeOK, Indices, PendingOfProducer, Pending
<1>2. CASE LoadProdHead(p)
  <2>1. Sub(prod_head, prod_head) <= MaxLag BY SubZero, Capacity DEF TypeOK
  <2>2. Quiet BY <1>2 DEF LoadProdHead, TypeOK, Indices
  <2>3. PendingOfProducer(p)' BY <1>2, <2>1 DEF LoadProdHead, TypeOK, PendingOfProducer
  <2> QED BY <2>2, <2>3
<1>3. CASE BoundProducer(p)
  <2> DEFINE free == FreeEntries(old_head[p])
             m == Clip(max[p], free)
  <2>1. Quiet BY <1>3 DEF BoundProducer, TypeOK, Indices
  <2>2. /\ Sub(prod_head, old_head[p]) <= MaxLag
        /\ single_producer_ => old_head[p] = prod_head
    BY <1>3 DEF BoundProducer, PendingBounds, Pending
  <2>3. free \in Index /\ max[p] \in Nat
    BY Capacity, AddIndex, SubIndex DEF FreeEntries, TypeOK
  <2>4. m \in Index /\ m <= free BY <2>3, ClipBound
  <2>5. old_head[p] = prod_head => free = capacity_ - Used(prod_head)
    <3>1. prod_head \in Index /\ cons_tail \in Index /\ capacity_ \in Index
          /\ Used(prod_head) \in Index /\ Used(prod_head) <= capacity_
      BY Capacity, SubIndex DEF TypeOK, Used, Claims, IndexOrder
    <3>2. Sub(Add(capacity_, cons_tail), prod_head) = capacity_ - Used(prod_head)
      <4>1. Add(capacity_, cons_tail) = IF capacity_ + cons_tail < Modulus
                                       THEN capacity_ + cons_tail
                                       ELSE capacity_ + cons_tail - Modulus
        BY <3>1, AddIndex
      <4>2. Add(capacity_, cons_tail) \in Index BY <3>1, AddIndex
      <4>3. Sub(prod_head, cons_tail) = IF prod_head >= cons_tail
              THEN prod_head - cons_tail ELSE prod_head - cons_tail + Modulus
        BY <3>1, SubIndex
      <4>4. Sub(Add(capacity_, cons_tail), prod_head) =
              IF Add(capacity_, cons_tail) >= prod_head
                THEN Add(capacity_, cons_tail) - prod_head
                ELSE Add(capacity_, cons_tail) - prod_head + Modulus
        BY <3>1, <4>2, SubIndex
      <4> QED BY <3>1, <4>1, <4>2, <4>3, <4>4, SizeAssumption DEF Used, Index
    <3> QED BY <3>2 DEF FreeEntries
  <2>6. /\ n'[p] = m /\ old_head' = old_head /\ UNCHANGED Indices
        /\ pc'[p] = IF m = 0 THEN "return" ELSE "move"
    BY <1>3 DEF BoundProducer, TypeOK, Indices
  <2> HIDE DEF free, m
  <2>7. Used(prod_head) \in Int /\ m \in Int /\ capacity_ \in Int /\ m >= 0
    BY <2>4, SubIndex, Capacity DEF TypeOK, Used, Index
  <2>8. PendingOfProducer(p)'
    BY <2>2, <2>3, <2>4, <2>5, <2>6, <2>7 DEF PendingOfProducer, Pending, Used, Indices, Index
  <2> QED BY <2>1, <2>8
<1>4. CASE RetryProdHead(p)
  BY <1>4 DEF RetryProdHead, TypeOK, Indices, PendingOfProducer, Pending
<1>5. CASE EnqueueCopy(p)
  BY <1>5 DEF EnqueueCopy, TypeOK, Indices, PendingOfProducer, Pending
<1>6. CASE Return(p)
  BY <1>6 DEF Return, TypeOK, Indices, PendingOfProducer, Pending
<1> QED BY <1>1, <1>2, <1>3, <1>4, <1>5, <1>6

LEMMA IndexLocalConsumer ==
  ASSUME TypeOK, Claims, PendingBounds, NEW c \in Consumers,
         \/ DoDequeue(c) \/ LoadConsHead(c) \/ BoundConsumer(c)
         \/ RetryConsHead(c) \/ DequeueCopy(c) \/ Return(c)
         \/ RingCountProdTail(c) \/ RingCountConsTail(c)
  PROVE  Claims' /\ PendingBounds'
<1> USE ThreadsAssumption DEF Threads, ringVars, Goto, Claimed
<1> DEFINE Quiet == /\ UNCHANGED Indices
                    /\ \A u \in Threads : Claimed(u)' <=> Claimed(u)
                    /\ \A u \in Threads : Claimed(u) => old_head'[u] = old_head[u] /\ n'[u] = n[u]
                    /\ \A u \in Threads \ {c} :
                         pc'[u] = pc[u] /\ old_head'[u] = old_head[u] /\ n'[u] = n[u]
<1> SUFFICES Quiet /\ PendingOfConsumer(c)' BY ClaimsFrame, PendingFrame
<1>1. CASE DoDequeue(c)
  BY <1>1 DEF DoDequeue, TypeOK, Indices, PendingOfConsumer, Pending
<1>2. CASE LoadConsHead(c)
  <2>1. Sub(cons_head, cons_head) <= MaxLag BY SubZero, Capacity DEF TypeOK
  <2>2. Quiet BY <1>2 DEF LoadConsHead, TypeOK, Indices
  <2>3. PendingOfConsumer(c)' BY <1>2, <2>1 DEF LoadConsHead, TypeOK, PendingOfConsumer
  <2> QED BY <2>2, <2>3
<1>3. CASE BoundConsumer(c)
  <2> DEFINE avail == Entries(old_head[c])
             m == Clip(max[c], avail)
  <2>1. Quiet BY <1>3 DEF BoundConsumer, TypeOK, Indices
  <2>2. /\ Sub(cons_head, old_head[c]) <= MaxLag
        /\ single_consumer_ => old_head[c] = cons_head
    BY <1>3 DEF BoundConsumer, PendingBounds, Pending
  <2>3. avail \in Index /\ max[c] \in Nat BY SubIndex DEF Entries, TypeOK
  <2>4. m \in Index /\ m <= avail BY <2>3, ClipBound
  <2>5. old_head[c] = cons_head => avail = Used(prod_tail) - Used(cons_head)
    BY SubDifference DEF Entries, TypeOK, Used, Claims, IndexOrder
  <2>6. /\ n'[c] = m /\ old_head' = old_head /\ UNCHANGED Indices
        /\ pc'[c] = IF m = 0 THEN "return" ELSE "move"
    BY <1>3 DEF BoundConsumer, TypeOK, Indices
  <2> HIDE DEF avail, m
  <2>7. Used(cons_head) \in Int /\ Used(prod_tail) \in Int /\ m \in Int /\ m >= 0
    BY <2>4, SubIndex DEF TypeOK, Used, Index
  <2>8. PendingOfConsumer(c)'
    BY <2>2, <2>3, <2>4, <2>5, <2>6, <2>7 DEF PendingOfConsumer, Pending, Used, Indices, Index
  <2> QED BY <2>1, <2>8
<1>4. CASE RetryConsHead(c)
  BY <1>4 DEF RetryConsHead, TypeOK, Indices, PendingOfConsumer, Pending
<1>5. CASE DequeueCopy(c)
  BY <1>5 DEF DequeueCopy, TypeOK, Indices, PendingOfConsumer, Pending
<1>6. CASE Return(c)
  BY <1>6 DEF Return, TypeOK, Indices, PendingOfConsumer, Pending
<1>7. CASE RingCountProdTail(c)
  BY <1>7 DEF RingCountProdTail, TypeOK, Indices, PendingOfConsumer, Pending
<1>8. CASE RingCountConsTail(c)
  BY <1>8 DEF RingCountConsTail, TypeOK, Indices, PendingOfConsumer, Pending
<1> QED BY <1>1, <1>2, <1>3, <1>4, <1>5, <1>6, <1>7, <1>8

\* The four distances from cons_tail, and every thread's, are naturals.
LEMMA Distances ==
  ASSUME TypeOK
  PROVE  /\ Used(prod_head) \in Nat /\ Used(prod_tail) \in Nat /\ Used(cons_head) \in Nat
         /\ Used(cons_tail) = 0
         /\ \A t \in Threads : Used(old_head[t]) \in Nat /\ n[t] \in Nat
         /\ capacity_ \in Nat /\ capacity_ < Modulus
<1>1. Index \subseteq Nat /\ Modulus \in Nat BY SizeAssumption DEF Index
<1>2. Used(prod_head) \in Index /\ Used(prod_tail) \in Index /\ Used(cons_head) \in Index
  BY SubIndex DEF TypeOK, Used
<1>3. \A t \in Threads : Used(old_head[t]) \in Index /\ n[t] \in Index
  BY SubIndex DEF TypeOK, Used
<1>4. Used(cons_tail) = 0 BY SubZero DEF TypeOK, Used
<1>5. capacity_ \in Index /\ capacity_ < Modulus BY Capacity, SizeAssumption DEF Index
<1> QED BY <1>1, <1>2, <1>3, <1>4, <1>5

\* A successful claim of a producer: head moves over old_head = head.
LEMMA ProducerClaims ==
  ASSUME TypeOK, Claims, PendingBounds, NEW p \in Producers, MoveProdHead(p)
  PROVE  /\ old_head[p] = prod_head
         /\ n[p] >= 1 /\ Used(prod_head) + n[p] <= capacity_
         /\ Used(prod_head)' = Used(prod_head) + n[p]
<1> USE DEF Threads
<1>1. old_head[p] = prod_head
  BY DEF MoveProdHead, Swings, PendingBounds, Pending
<1>2. n[p] >= 1 /\ Used(prod_head) + n[p] <= capacity_
  BY <1>1 DEF MoveProdHead, PendingBounds, Pending
<1>3. Sub(prod_head, cons_tail) + n[p] < Modulus
  <2>1. Used(prod_head) \in Nat /\ n[p] \in Nat /\ capacity_ \in Nat /\ capacity_ < Modulus
        /\ Modulus \in Nat
    BY Distances, SizeAssumption
  <2> QED BY <1>2, <2>1 DEF Used
<1>4. Used(prod_head)' = Used(prod_head) + n[p]
  BY <1>1, <1>3, SubOfAdd DEF MoveProdHead, Used, TypeOK
<1> QED BY <1>1, <1>2, <1>4

LEMMA IndexMoveProd ==
  ASSUME TypeOK, Claims, PendingBounds, NEW p \in Producers, MoveProdHead(p)
  PROVE  Claims' /\ PendingBounds'
<1> USE ThreadsAssumption DEF Threads
<1>1. /\ pc[p] = "move" /\ pc' = [pc EXCEPT ![p] = "copy"]
      /\ NoLap(p, Producers, prod_head, n[p])
      /\ prod_head' = Add(old_head[p], n[p])
      /\ UNCHANGED <<prod_tail, cons_head, cons_tail, old_head, n>>
  BY DEF MoveProdHead, Goto, locals
<1>2. old_head[p] = prod_head BY ProducerClaims
<1>3. n[p] >= 1 /\ Used(prod_head) + n[p] <= capacity_ BY ProducerClaims
<1>4. Used(prod_head)' = Used(prod_head) + n[p] BY ProducerClaims
<1>5. /\ \A x \in Index : Used(x)' = Used(x)
      /\ \A t \in Threads : Claimed(t)' <=> (Claimed(t) \/ t = p)
      /\ ~Claimed(p)
  BY <1>1 DEF Used, Claimed, TypeOK
<1>6. IndexOrder' BY <1>1, <1>3, <1>4, <1>5, Distances DEF Claims, IndexOrder, TypeOK, Used
<1>7. ClaimBounds'
  <2>1. ASSUME NEW q \in Producers, Claimed(q)'
        PROVE  /\ n[q] >= 1
               /\ Used(prod_tail) <= Used(old_head[q])
               /\ Used(old_head[q]) + n[q] <= Used(prod_head) + n[p]
    BY <2>1, <1>2, <1>3, <1>5, Distances DEF Claims, ClaimBounds, IndexOrder
  <2>2. ASSUME NEW c \in Consumers, Claimed(c)'
        PROVE  n[c] >= 1 /\ Used(old_head[c]) + n[c] <= Used(cons_head)
    BY <2>2, <1>5 DEF Claims, ClaimBounds
  <2> QED BY <2>1, <2>2, <1>1, <1>4 DEF ClaimBounds, Used
<1>8. ClaimsApart'
  <2>1. ASSUME NEW q \in Producers, Claimed(q)
        PROVE  Used(old_head[q]) + n[q] <= Used(old_head[p])
    BY <2>1, <1>2 DEF Claims, ClaimBounds
  <2>2. Apart(Producers)' BY <2>1, <1>1, <1>5 DEF Claims, ClaimsApart, Apart, Used
  <2>3. Apart(Consumers)' BY <1>1, <1>5 DEF Claims, ClaimsApart, Apart, Used
  <2> QED BY <2>2, <2>3 DEF ClaimsApart
<1>9. ClaimsTile'
  <2>1. prod_tail # prod_head' => \E q \in Producers : Claimed(q)' /\ old_head[q] = prod_tail
    BY <1>2, <1>5 DEF Claims, ClaimsTile
  <2>2. ASSUME NEW q \in Producers, Claimed(q)'
        PROVE  End(q) = prod_head' \/ \E r \in Producers : Claimed(r)' /\ old_head[r] = End(q)
    BY <2>2, <1>1, <1>2, <1>5 DEF Claims, ClaimsTile, End
  <2>3. /\ cons_tail # cons_head => \E c \in Consumers : Claimed(c)' /\ old_head[c] = cons_tail
        /\ \A c \in Consumers : Claimed(c)' =>
             End(c) = cons_head \/ \E d \in Consumers : Claimed(d)' /\ old_head[d] = End(c)
    BY <1>5 DEF Claims, ClaimsTile
  <2> QED BY <2>1, <2>2, <2>3, <1>1 DEF ClaimsTile, End
<1>10. PendingBounds'
  <2>1. ASSUME NEW q \in Producers, Pending(q)' PROVE PendingOfProducer(q)'
    <3>1. q # p /\ Pending(q) /\ pc'[q] = pc[q] BY <2>1, <1>1 DEF Pending, TypeOK
    <3>2. Sub(prod_head, old_head[q]) + n[p] <= MaxLag BY <3>1, <1>1 DEF NoLap, Pending
    <3>3. /\ Sub(prod_head', old_head[q]) = Sub(prod_head, old_head[q]) + n[p]
          /\ Sub(prod_head, old_head[q]) \in Nat /\ n[p] \in Nat
      <4>1. Sub(prod_head, old_head[q]) \in Index /\ n[p] \in Index /\ prod_head \in Index
            /\ old_head[q] \in Index
        BY SubIndex DEF TypeOK
      <4>2. Sub(prod_head, old_head[q]) + n[p] < Modulus
        BY <3>2, <4>1, Capacity, SizeAssumption DEF Index
      <4> QED BY <1>1, <1>2, <4>1, <4>2, SubOfAdd DEF Index
    <3>4. old_head[q] # prod_head'
      <4>1. Sub(prod_head', old_head[q]) # 0 BY <3>3, <1>3
      <4>2. prod_head' \in Index BY <1>1, AddIndex DEF TypeOK
      <4> QED BY <4>1, <4>2, SubZero DEF TypeOK
    <3>5. ~single_producer_ BY <3>1, SingleAssumption
    <3>6. pc[q] = "move" => n[q] >= 1 BY <3>1 DEF PendingBounds
    <3> QED BY <3>1, <3>2, <3>3, <3>4, <3>5, <3>6, <1>1 DEF PendingOfProducer
  <2>2. ASSUME NEW c \in Consumers PROVE PendingOfConsumer(c)'
    BY <1>1, PendingSplit DEF PendingOfConsumer, Pending, Used
  <2>3. \A q \in Producers : PendingOfProducer(q)' BY <2>1 DEF PendingOfProducer
  <2> QED BY <2>2, <2>3 DEF PendingBounds, PendingOfProducer, PendingOfConsumer
<1> QED BY <1>6, <1>7, <1>8, <1>9, <1>10 DEF Claims

\* Publication by a producer: its claim is the oldest one, so the tail it
\* stores is where the next claim starts.
LEMMA ProducerPublishes ==
  ASSUME TypeOK, Claims, PendingBounds, NEW p \in Producers, UpdateProdTail(p)
  PROVE  /\ Claimed(p) /\ n[p] >= 1
         /\ Used(old_head[p]) + n[p] <= Used(prod_head)
         /\ old_head[p] = prod_tail
         /\ Used(prod_tail)' = Used(prod_tail) + n[p]
         /\ Used(End(p)) = Used(prod_tail) + n[p]
<1> USE DEF Threads
<1>1. /\ Claimed(p) /\ n[p] >= 1
      /\ Used(prod_tail) <= Used(old_head[p])
      /\ Used(old_head[p]) + n[p] <= Used(prod_head)
      /\ Used(prod_head) <= capacity_
  BY DEF UpdateProdTail, Claimed, Claims, ClaimBounds, IndexOrder
<1>2. old_head[p] = prod_tail
  <2>1. CASE single_producer_
    <3>1. prod_tail # prod_head BY <1>1, Distances
    <3>2. PICK q \in Producers : old_head[q] = prod_tail BY <3>1 DEF Claims, ClaimsTile
    <3> QED BY <2>1, <3>2, SingleAssumption
  <2>2. CASE ~single_producer_ BY <2>2 DEF UpdateProdTail, TailReady
  <2> QED BY <2>1, <2>2
<1>3. Sub(old_head[p], cons_tail) + n[p] < Modulus
  <2>1. Used(prod_head) \in Nat /\ n[p] \in Nat /\ Used(old_head[p]) \in Nat
        /\ capacity_ \in Nat /\ capacity_ < Modulus /\ Modulus \in Nat
    BY Distances, SizeAssumption
  <2> QED BY <1>1, <2>1 DEF Used
<1>4. /\ Used(prod_tail)' = Used(prod_tail) + n[p]
      /\ Used(End(p)) = Used(prod_tail) + n[p]
  BY <1>2, <1>3, SubOfAdd DEF UpdateProdTail, Used, TypeOK, End
<1> QED BY <1>1, <1>2, <1>4

LEMMA IndexUpdateProd ==
  ASSUME TypeOK, Claims, PendingBounds, NEW p \in Producers, UpdateProdTail(p)
  PROVE  Claims' /\ PendingBounds'
<1> USE ThreadsAssumption DEF Threads
<1>1. /\ pc[p] = "publish" /\ pc' = [pc EXCEPT ![p] = "return"]
      /\ prod_tail' = Add(old_head[p], n[p])
      /\ UNCHANGED <<prod_head, cons_head, cons_tail, old_head, n>>
  BY DEF UpdateProdTail, Goto, locals
<1>2. /\ Claimed(p) /\ n[p] >= 1
      /\ Used(prod_tail) <= Used(old_head[p])
      /\ Used(old_head[p]) + n[p] <= Used(prod_head)
      /\ Used(prod_head) <= capacity_
  BY ProducerPublishes DEF Claims, ClaimBounds, IndexOrder
<1>3. old_head[p] = prod_tail BY ProducerPublishes
<1>4. /\ Used(prod_tail)' = Used(prod_tail) + n[p]
      /\ Used(End(p)) = Used(prod_tail) + n[p]
  BY ProducerPublishes
<1>5. /\ \A x \in Index : Used(x)' = Used(x)
      /\ \A t \in Threads : Claimed(t)' <=> (Claimed(t) /\ t # p)
  BY <1>1 DEF Used, Claimed, TypeOK
\* Every other claim starts at or after the new tail.
<1>6. ASSUME NEW q \in Producers, Claimed(q), q # p
      PROVE  Used(prod_tail) + n[p] <= Used(old_head[q])
  <2>1. \/ Used(old_head[p]) + n[p] <= Used(old_head[q])
        \/ Used(old_head[q]) + n[q] <= Used(old_head[p])
    BY <1>2, <1>6 DEF Claims, ClaimsApart, Apart
  <2>2. n[q] >= 1 /\ Used(prod_tail) <= Used(old_head[q])
    BY <1>6 DEF Claims, ClaimBounds
  <2> QED BY <1>3, <2>1, <2>2, Distances
<1>7. IndexOrder'
  BY <1>1, <1>2, <1>3, <1>4, <1>5, Distances DEF Claims, IndexOrder, TypeOK, Used
<1>8. ClaimBounds'
  <2>1. ASSUME NEW q \in Producers, Claimed(q)'
        PROVE  /\ n[q] >= 1
               /\ Used(prod_tail) + n[p] <= Used(old_head[q])
               /\ Used(old_head[q]) + n[q] <= Used(prod_head)
    BY <2>1, <1>5, <1>6 DEF Claims, ClaimBounds
  <2>2. ASSUME NEW c \in Consumers, Claimed(c)'
        PROVE  n[c] >= 1 /\ Used(old_head[c]) + n[c] <= Used(cons_head)
    BY <2>2, <1>5 DEF Claims, ClaimBounds
  <2> QED BY <2>1, <2>2, <1>1, <1>4 DEF ClaimBounds, Used
<1>9. ClaimsApart' BY <1>1, <1>5 DEF Claims, ClaimsApart, Apart, Used
<1>10. ClaimsTile'
  <2>1. prod_tail' # prod_head => \E q \in Producers : Claimed(q)' /\ old_head[q] = prod_tail'
    <3>1. prod_tail' = End(p) BY <1>1 DEF End
    <3>2. ASSUME NEW q \in Producers, old_head[q] = End(p) PROVE q # p
      BY <3>2, <1>2, <1>3, <1>4, Distances
    <3> QED BY <3>1, <3>2, <1>2, <1>5 DEF Claims, ClaimsTile
  <2>2. ASSUME NEW q \in Producers, Claimed(q)'
        PROVE  End(q) = prod_head \/ \E r \in Producers : Claimed(r)' /\ old_head[r] = End(q)
    <3>1. Claimed(q) /\ q # p BY <2>2, <1>5
    <3>2. End(q) # old_head[p]
      <4>1. n[q] >= 1 /\ Used(prod_tail) + n[p] <= Used(old_head[q])
            /\ Used(old_head[q]) + n[q] <= Used(prod_head)
        BY <3>1, <1>6 DEF Claims, ClaimBounds
      <4>2. Sub(old_head[q], cons_tail) + n[q] < Modulus
        <5>1. Used(prod_head) \in Nat /\ n[q] \in Nat /\ Used(old_head[q]) \in Nat
              /\ capacity_ \in Nat /\ capacity_ < Modulus /\ Modulus \in Nat
          BY Distances, SizeAssumption
        <5> QED BY <1>2, <4>1, <5>1 DEF Used
      <4>3. Used(End(q)) = Used(old_head[q]) + n[q]
        BY <4>2, SubOfAdd DEF Used, TypeOK, End
      <4> QED BY <4>1, <4>3, <1>2, <1>3, Distances
    <3> QED BY <3>1, <3>2, <1>5 DEF Claims, ClaimsTile
  <2>3. /\ cons_tail # cons_head => \E c \in Consumers : Claimed(c)' /\ old_head[c] = cons_tail
        /\ \A c \in Consumers : Claimed(c)' =>
             End(c) = cons_head \/ \E d \in Consumers : Claimed(d)' /\ old_head[d] = End(c)
    BY <1>5 DEF Claims, ClaimsTile
  <2> QED BY <2>1, <2>2, <2>3, <1>1 DEF ClaimsTile, End
<1>11. PendingBounds'
  <2>1. ASSUME NEW q \in Producers PROVE PendingOfProducer(q)'
    BY <1>1, PendingSplit DEF PendingOfProducer, Pending, Used, TypeOK
  <2>2. ASSUME NEW c \in Consumers PROVE PendingOfConsumer(c)'
    <3>1. pc'[c] = pc[c] BY <1>1 DEF TypeOK
    <3>2. Used(cons_head) + n[c] <= Used(prod_tail) =>
            Used(cons_head) + n[c] <= Used(prod_tail) + n[p]
      BY Distances
    <3>3. PendingOfConsumer(c) BY PendingSplit
    <3> QED BY <3>1, <3>2, <3>3, <1>1, <1>4 DEF PendingOfConsumer, Pending, Used
  <2> QED BY <2>1, <2>2 DEF PendingBounds, PendingOfProducer, PendingOfConsumer
<1> QED BY <1>7, <1>8, <1>9, <1>10, <1>11 DEF Claims

\* A successful claim of a consumer.
LEMMA ConsumerClaims ==
  ASSUME TypeOK, Claims, PendingBounds, NEW c \in Consumers, MoveConsumerHead(c)
  PROVE  /\ old_head[c] = cons_head
         /\ n[c] >= 1 /\ Used(cons_head) + n[c] <= Used(prod_tail)
         /\ Used(cons_head)' = Used(cons_head) + n[c]
<1> USE DEF Threads
<1>1. old_head[c] = cons_head
  BY DEF MoveConsumerHead, Swings, PendingBounds, Pending
<1>2. /\ n[c] >= 1 /\ Used(cons_head) + n[c] <= Used(prod_tail)
      /\ Used(prod_tail) <= Used(prod_head) /\ Used(prod_head) <= capacity_
  BY <1>1 DEF MoveConsumerHead, PendingBounds, Pending, Claims, IndexOrder
<1>3. Sub(cons_head, cons_tail) + n[c] < Modulus
  <2>1. Used(prod_head) \in Nat /\ Used(prod_tail) \in Nat /\ Used(cons_head) \in Nat
        /\ n[c] \in Nat /\ capacity_ \in Nat /\ capacity_ < Modulus /\ Modulus \in Nat
    BY Distances, SizeAssumption
  <2> QED BY <1>2, <2>1 DEF Used
<1>4. Used(cons_head)' = Used(cons_head) + n[c]
  BY <1>1, <1>3, SubOfAdd DEF MoveConsumerHead, Used, TypeOK
<1> QED BY <1>1, <1>2, <1>4

LEMMA IndexMoveCons ==
  ASSUME TypeOK, Claims, PendingBounds, NEW c \in Consumers, MoveConsumerHead(c)
  PROVE  Claims' /\ PendingBounds'
<1> USE ThreadsAssumption DEF Threads
<1>1. /\ pc[c] = "move" /\ pc' = [pc EXCEPT ![c] = "copy"]
      /\ NoLap(c, Consumers, cons_head, n[c])
      /\ cons_head' = Add(old_head[c], n[c])
      /\ UNCHANGED <<prod_head, prod_tail, cons_tail, old_head, n>>
  BY DEF MoveConsumerHead, Goto, locals
<1>2. old_head[c] = cons_head BY ConsumerClaims
<1>3. /\ n[c] >= 1 /\ Used(cons_head) + n[c] <= Used(prod_tail)
      /\ Used(prod_tail) <= Used(prod_head) /\ Used(prod_head) <= capacity_
  BY ConsumerClaims DEF Claims, IndexOrder
<1>4. Used(cons_head)' = Used(cons_head) + n[c] BY ConsumerClaims
<1>5. /\ \A x \in Index : Used(x)' = Used(x)
      /\ \A t \in Threads : Claimed(t)' <=> (Claimed(t) \/ t = c)
      /\ ~Claimed(c)
  BY <1>1 DEF Used, Claimed, TypeOK
<1>6. IndexOrder' BY <1>1, <1>3, <1>4, <1>5, Distances DEF IndexOrder, TypeOK, Used
<1>7. ClaimBounds'
  <2>1. ASSUME NEW d \in Consumers, Claimed(d)'
        PROVE  n[d] >= 1 /\ Used(old_head[d]) + n[d] <= Used(cons_head) + n[c]
    BY <2>1, <1>2, <1>3, <1>5, Distances DEF Claims, ClaimBounds
  <2>2. ASSUME NEW p \in Producers, Claimed(p)'
        PROVE  /\ n[p] >= 1
               /\ Used(prod_tail) <= Used(old_head[p])
               /\ Used(old_head[p]) + n[p] <= Used(prod_head)
    BY <2>2, <1>5 DEF Claims, ClaimBounds
  <2> QED BY <2>1, <2>2, <1>1, <1>4 DEF ClaimBounds, Used
<1>8. ClaimsApart'
  <2>1. ASSUME NEW d \in Consumers, Claimed(d)
        PROVE  Used(old_head[d]) + n[d] <= Used(old_head[c])
    BY <2>1, <1>2 DEF Claims, ClaimBounds
  <2>2. Apart(Consumers)' BY <2>1, <1>1, <1>5 DEF Claims, ClaimsApart, Apart, Used
  <2>3. Apart(Producers)' BY <1>1, <1>5 DEF Claims, ClaimsApart, Apart, Used
  <2> QED BY <2>2, <2>3 DEF ClaimsApart
<1>9. ClaimsTile'
  <2>1. cons_tail # cons_head' => \E d \in Consumers : Claimed(d)' /\ old_head[d] = cons_tail
    BY <1>2, <1>5 DEF Claims, ClaimsTile
  <2>2. ASSUME NEW d \in Consumers, Claimed(d)'
        PROVE  End(d) = cons_head' \/ \E r \in Consumers : Claimed(r)' /\ old_head[r] = End(d)
    BY <2>2, <1>1, <1>2, <1>5 DEF Claims, ClaimsTile, End
  <2>3. /\ prod_tail # prod_head => \E p \in Producers : Claimed(p)' /\ old_head[p] = prod_tail
        /\ \A p \in Producers : Claimed(p)' =>
             End(p) = prod_head \/ \E q \in Producers : Claimed(q)' /\ old_head[q] = End(p)
    BY <1>5 DEF Claims, ClaimsTile
  <2> QED BY <2>1, <2>2, <2>3, <1>1 DEF ClaimsTile, End
<1>10. PendingBounds'
  <2>1. ASSUME NEW d \in Consumers, Pending(d)' PROVE PendingOfConsumer(d)'
    <3>1. d # c /\ Pending(d) /\ pc'[d] = pc[d] BY <2>1, <1>1 DEF Pending, TypeOK
    <3>2. Sub(cons_head, old_head[d]) + n[c] <= MaxLag BY <3>1, <1>1 DEF NoLap, Pending
    <3>3. /\ Sub(cons_head', old_head[d]) = Sub(cons_head, old_head[d]) + n[c]
          /\ Sub(cons_head, old_head[d]) \in Nat /\ n[c] \in Nat
      <4>1. Sub(cons_head, old_head[d]) \in Index /\ n[c] \in Index /\ cons_head \in Index
            /\ old_head[d] \in Index
        BY SubIndex DEF TypeOK
      <4>2. Sub(cons_head, old_head[d]) + n[c] < Modulus
        BY <3>2, <4>1, Capacity, SizeAssumption DEF Index
      <4> QED BY <1>1, <1>2, <4>1, <4>2, SubOfAdd DEF Index
    <3>4. old_head[d] # cons_head'
      <4>1. Sub(cons_head', old_head[d]) # 0 BY <3>3, <1>3
      <4>2. cons_head' \in Index BY <1>1, AddIndex DEF TypeOK
      <4> QED BY <4>1, <4>2, SubZero DEF TypeOK
    <3>5. ~single_consumer_ BY <3>1, SingleAssumption
    <3>6. pc[d] = "move" => n[d] >= 1 BY <3>1 DEF PendingBounds
    <3> QED BY <3>1, <3>2, <3>3, <3>4, <3>5, <3>6, <1>1 DEF PendingOfConsumer
  <2>2. ASSUME NEW p \in Producers PROVE PendingOfProducer(p)'
    BY <1>1, PendingSplit DEF PendingOfProducer, Pending, Used
  <2>3. \A d \in Consumers : PendingOfConsumer(d)' BY <2>1 DEF PendingOfConsumer
  <2> QED BY <2>2, <2>3 DEF PendingBounds, PendingOfProducer, PendingOfConsumer
<1> QED BY <1>6, <1>7, <1>8, <1>9, <1>10 DEF Claims

\* Release by a consumer: the origin of every distance moves forward by its
\* claim, which is the oldest.
LEMMA ConsumerReleases ==
  ASSUME TypeOK, Claims, PendingBounds, NEW c \in Consumers, UpdateConsTail(c)
  PROVE  /\ Claimed(c) /\ n[c] >= 1
         /\ old_head[c] = cons_tail
         /\ n[c] <= Used(cons_head)
         /\ \A x \in Index : n[c] <= Used(x) => Sub(x, cons_tail') = Used(x) - n[c]
<1> USE DEF Threads
<1>1. /\ Claimed(c) /\ n[c] >= 1
      /\ Used(old_head[c]) + n[c] <= Used(cons_head)
  BY DEF UpdateConsTail, Claimed, Claims, ClaimBounds
<1>2. old_head[c] = cons_tail
  <2>1. CASE single_consumer_
    <3>1. cons_tail # cons_head BY <1>1, Distances
    <3>2. PICK d \in Consumers : old_head[d] = cons_tail BY <3>1 DEF Claims, ClaimsTile
    <3> QED BY <2>1, <3>2, SingleAssumption
  <2>2. CASE ~single_consumer_ BY <2>2 DEF UpdateConsTail, TailReady
  <2> QED BY <2>1, <2>2
<1>3. n[c] <= Used(cons_head) BY <1>1, <1>2, Distances
<1>4. ASSUME NEW x \in Index, n[c] <= Used(x)
      PROVE  Sub(x, cons_tail') = Used(x) - n[c]
  BY <1>2, <1>4, SubFromAdd DEF UpdateConsTail, TypeOK, Used
<1> QED BY <1>1, <1>2, <1>3, <1>4

LEMMA IndexUpdateCons ==
  ASSUME TypeOK, Claims, PendingBounds, NEW c \in Consumers, UpdateConsTail(c)
  PROVE  Claims' /\ PendingBounds'
<1> USE ThreadsAssumption DEF Threads
<1>1. /\ pc[c] = "publish" /\ pc' = [pc EXCEPT ![c] = "return"]
      /\ cons_tail' = Add(old_head[c], n[c])
      /\ UNCHANGED <<prod_head, prod_tail, cons_head, old_head, n>>
  BY DEF UpdateConsTail, Goto, locals
<1>2. /\ Claimed(c) /\ n[c] >= 1
      /\ Used(old_head[c]) + n[c] <= Used(cons_head)
      /\ Used(cons_head) <= Used(prod_tail)
      /\ Used(prod_tail) <= Used(prod_head)
      /\ Used(prod_head) <= capacity_
  BY ConsumerReleases DEF Claims, ClaimBounds, IndexOrder
<1>3. old_head[c] = cons_tail BY ConsumerReleases
<1>4. n[c] <= Used(cons_head) BY ConsumerReleases
<1>5. ASSUME NEW x \in Index, n[c] <= Used(x)
      PROVE  Used(x)' = Used(x) - n[c]
  BY <1>5, ConsumerReleases DEF Used
<1>6. \A t \in Threads : Claimed(t)' <=> (Claimed(t) /\ t # c)
  BY <1>1 DEF Claimed, TypeOK
\* Every other claim starts at or after the new origin.
<1>7. ASSUME NEW d \in Consumers, Claimed(d), d # c
      PROVE  n[c] <= Used(old_head[d])
  <2>1. \/ Used(old_head[c]) + n[c] <= Used(old_head[d])
        \/ Used(old_head[d]) + n[d] <= Used(old_head[c])
    BY <1>2, <1>7 DEF Claims, ClaimsApart, Apart
  <2>2. n[d] >= 1 BY <1>7 DEF Claims, ClaimBounds
  <2> QED BY <1>3, <2>1, <2>2, Distances
<1>8. ASSUME NEW p \in Producers, Claimed(p)
      PROVE  n[c] <= Used(old_head[p])
  <2>1. Used(prod_tail) <= Used(old_head[p]) BY <1>8 DEF Claims, ClaimBounds
  <2> QED BY <2>1, <1>2, <1>4, Distances
<1>9. \A t \in Threads : Claimed(t)' => Used(old_head[t])' = Used(old_head[t]) - n[c]
  BY <1>1, <1>5, <1>6, <1>7, <1>8 DEF TypeOK, Used
<1>10. /\ Used(cons_head)' = Used(cons_head) - n[c]
       /\ Used(prod_tail)' = Used(prod_tail) - n[c]
       /\ Used(prod_head)' = Used(prod_head) - n[c]
  <2>1. n[c] <= Used(prod_tail) /\ n[c] <= Used(prod_head) BY <1>2, <1>4, Distances
  <2> QED BY <2>1, <1>1, <1>4, <1>5 DEF TypeOK, Used
<1>11. IndexOrder' BY <1>2, <1>10, Distances DEF IndexOrder
<1>12. ClaimBounds'
  <2>1. ASSUME NEW p \in Producers, Claimed(p)'
        PROVE  /\ n[p] >= 1
               /\ Used(prod_tail)' <= Used(old_head[p])'
               /\ Used(old_head[p])' + n[p] <= Used(prod_head)'
    BY <2>1, <1>6, <1>9, <1>10, Distances DEF Claims, ClaimBounds
  <2>2. ASSUME NEW d \in Consumers, Claimed(d)'
        PROVE  n[d] >= 1 /\ Used(old_head[d])' + n[d] <= Used(cons_head)'
    BY <2>2, <1>6, <1>9, <1>10, Distances DEF Claims, ClaimBounds
  <2> QED BY <2>1, <2>2, <1>1 DEF ClaimBounds
<1>13. ClaimsApart'
  <2>1. ASSUME NEW side \in {Producers, Consumers}, Apart(side), NEW t \in side, NEW u \in side,
               t # u, Claimed(t)', Claimed(u)'
        PROVE  \/ Used(old_head[t])' + n[t] <= Used(old_head[u])'
               \/ Used(old_head[u])' + n[u] <= Used(old_head[t])'
    <3>1. \/ Used(old_head[t]) + n[t] <= Used(old_head[u])
          \/ Used(old_head[u]) + n[u] <= Used(old_head[t])
      BY <2>1, <1>6 DEF Apart
    <3> QED BY <3>1, <2>1, <1>9, Distances
  <2>2. Apart(Producers)' BY <2>1, <1>1 DEF Claims, ClaimsApart, Apart
  <2>3. Apart(Consumers)' BY <2>1, <1>1 DEF Claims, ClaimsApart, Apart
  <2> QED BY <2>2, <2>3 DEF ClaimsApart
<1>14. ClaimsTile'
  <2> DEFINE tail == cons_tail'
  <2>1. tail = End(c) BY <1>1 DEF End
  <2>2. Used(End(c)) = n[c]
    <3>1. Sub(cons_tail, cons_tail) = 0 /\ n[c] < Modulus
      BY SubZero, SizeAssumption DEF TypeOK, Index
    <3> QED BY <3>1, <1>3, SubOfAdd DEF Used, TypeOK, End, Index
  <2>3. tail # cons_head => \E d \in Consumers : Claimed(d)' /\ old_head[d] = tail
    <3>1. ASSUME NEW d \in Consumers, old_head[d] = End(c) PROVE d # c
      BY <3>1, <2>2, <1>2, <1>3, Distances
    <3> QED BY <2>1, <3>1, <1>2, <1>6 DEF Claims, ClaimsTile
  <2>4. ASSUME NEW d \in Consumers, Claimed(d)'
        PROVE  End(d) = cons_head \/ \E r \in Consumers : Claimed(r)' /\ old_head[r] = End(d)
    <3>1. Claimed(d) /\ d # c BY <2>4, <1>6
    <3>2. End(d) # old_head[c]
      <4>1. n[d] >= 1 /\ Used(old_head[d]) + n[d] <= Used(cons_head)
        BY <3>1 DEF Claims, ClaimBounds
      <4>2. Sub(old_head[d], cons_tail) + n[d] < Modulus
        <5>1. Used(cons_head) \in Nat /\ Used(prod_head) \in Nat /\ Used(prod_tail) \in Nat
              /\ n[d] \in Nat /\ Used(old_head[d]) \in Nat
              /\ capacity_ \in Nat /\ capacity_ < Modulus /\ Modulus \in Nat
          BY Distances, SizeAssumption
        <5> QED BY <1>2, <4>1, <5>1 DEF Used
      <4>3. Used(End(d)) = Used(old_head[d]) + n[d]
        BY <4>2, SubOfAdd DEF Used, TypeOK, End
      <4> QED BY <4>1, <4>3, <1>3, Distances
    <3> QED BY <3>1, <3>2, <1>6 DEF Claims, ClaimsTile
  <2>5. /\ prod_tail # prod_head => \E p \in Producers : Claimed(p)' /\ old_head[p] = prod_tail
        /\ \A p \in Producers : Claimed(p)' =>
             End(p) = prod_head \/ \E q \in Producers : Claimed(q)' /\ old_head[q] = End(p)
    BY <1>6 DEF Claims, ClaimsTile
  <2> QED BY <2>3, <2>4, <2>5, <1>1 DEF ClaimsTile, End
<1>15. PendingBounds'
  <2>1. ASSUME NEW p \in Producers PROVE PendingOfProducer(p)'
    <3>1. pc'[p] = pc[p] BY <1>1 DEF TypeOK
    <3>2. Used(prod_head) + n[p] <= capacity_ => Used(prod_head) - n[c] + n[p] <= capacity_
      BY Distances
    <3>3. PendingOfProducer(p) BY PendingSplit
    <3> QED BY <3>1, <3>2, <3>3, <1>1, <1>10 DEF PendingOfProducer, Pending
  <2>2. ASSUME NEW d \in Consumers, Pending(d)' PROVE PendingOfConsumer(d)'
    <3>1. pc'[d] = pc[d] /\ Pending(d) BY <2>2, <1>1 DEF TypeOK, Pending
    <3>2. Used(cons_head) + n[d] <= Used(prod_tail) =>
            Used(cons_head) - n[c] + n[d] <= Used(prod_tail) - n[c]
      BY Distances
    <3>3. PendingOfConsumer(d) BY PendingSplit
    <3> QED BY <3>1, <3>2, <3>3, <1>1, <1>10 DEF PendingOfConsumer, Pending
  <2>3. \A d \in Consumers : PendingOfConsumer(d)' BY <2>2 DEF PendingOfConsumer
  <2> QED BY <2>1, <2>3 DEF PendingBounds, PendingOfProducer, PendingOfConsumer
<1> QED BY <1>11, <1>12, <1>13, <1>14, <1>15 DEF Claims

----------------------------------------------------------------------------
\* The invariant of the specification.

IndInv == TypeOK /\ IndexInv

LEMMA IndexInvParts == IndexInv <=> Claims /\ PendingBounds /\ CopyBounds
  BY DEF IndexInv, Claims

LEMMA InitInv == Init => IndInv
<1> SUFFICES ASSUME Init PROVE IndInv OBVIOUS
<1>1. TypeOK /\ CopyBounds BY TypeInit
<1>2. \A t \in Threads : ~Claimed(t) /\ ~Pending(t) BY DEF Init, Claimed, Pending
<1>3. IndexOrder BY Distances, <1>1 DEF Init, IndexOrder, Used
<1>4. ClaimBounds /\ ClaimsApart /\ PendingBounds
  BY <1>2 DEF ClaimBounds, ClaimsApart, Apart, PendingBounds, Threads
<1>5. ClaimsTile BY <1>2 DEF Init, ClaimsTile, Threads
<1> QED BY <1>1, <1>3, <1>4, <1>5 DEF IndInv, IndexInv

LEMMA NextInv == IndInv /\ [Next]_vars => IndInv'
<1> SUFFICES ASSUME IndInv, [Next]_vars PROVE IndInv' OBVIOUS
<1>1. TypeOK /\ Claims /\ PendingBounds /\ CopyBounds BY IndexInvParts DEF IndInv
<1>2. SUFFICES TypeOK' /\ Claims' /\ PendingBounds' /\ CopyBounds'
  BY DEF IndInv, IndexInv, Claims
<1>3. ASSUME NEW p \in Producers, DoEnqueue(p) \/ ProducerStep(p)
      PROVE  TypeOK' /\ Claims' /\ PendingBounds' /\ CopyBounds'
  <2>1. TypeOK' /\ CopyBounds' BY <1>1, <1>3, TypeCall, TypeProducer DEF Threads
  <2>2. CASE MoveProdHead(p) BY <1>1, <2>1, <2>2, IndexMoveProd
  <2>3. CASE UpdateProdTail(p) BY <1>1, <2>1, <2>3, IndexUpdateProd
  <2>4. CASE \/ DoEnqueue(p) \/ LoadProdHead(p) \/ BoundProducer(p)
             \/ RetryProdHead(p) \/ EnqueueCopy(p) \/ Return(p)
    BY <1>1, <2>1, <2>4, IndexLocalProducer
  <2> QED BY <1>3, <2>2, <2>3, <2>4 DEF ProducerStep
<1>4. ASSUME NEW c \in Consumers, DoDequeue(c) \/ RingCountProdTail(c) \/ ConsumerStep(c)
      PROVE  TypeOK' /\ Claims' /\ PendingBounds' /\ CopyBounds'
  <2>1. TypeOK' /\ CopyBounds' BY <1>1, <1>4, TypeCall, TypeConsumer DEF Threads
  <2>2. CASE MoveConsumerHead(c) BY <1>1, <2>1, <2>2, IndexMoveCons
  <2>3. CASE UpdateConsTail(c) BY <1>1, <2>1, <2>3, IndexUpdateCons
  <2>4. CASE \/ DoDequeue(c) \/ LoadConsHead(c) \/ BoundConsumer(c)
             \/ RetryConsHead(c) \/ DequeueCopy(c) \/ Return(c)
             \/ RingCountProdTail(c) \/ RingCountConsTail(c)
    BY <1>1, <2>1, <2>4, IndexLocalConsumer
  <2> QED BY <1>4, <2>2, <2>3, <2>4 DEF ConsumerStep
<1>5. CASE UNCHANGED vars
  BY <1>1, <1>5 DEF vars, TypeOK, Claims, IndexOrder, ClaimBounds, ClaimsApart, Apart,
     ClaimsTile, PendingBounds, CopyBounds, Claimed, Pending, Used, End
<1> QED BY <1>3, <1>4, <1>5 DEF Next

LEMMA SpecInv == Spec => []IndInv
  BY InitInv, NextInv, PTL DEF Spec

\* Type correctness of the ring and of every thread's locals.
THEOREM TypeCorrect == Spec => []TypeOK
<1>1. IndInv => TypeOK BY DEF IndInv
<1> QED BY <1>1, SpecInv, PTL

\* The index protocol holds for any number of threads, any power-of-two size
\* and any index width: claims never overlap, never leave the ring and never
\* leave a gap that UpdateTail would wait on for ever.
THEOREM IndexProtocol == Spec => []IndexInv
<1>1. IndInv => IndexInv BY DEF IndInv
<1> QED BY <1>1, SpecInv, PTL

----------------------------------------------------------------------------
\* The wrap of an index does not change its slot: size_ divides Modulus.
LEMMA SlotOfDistance ==
  ASSUME TypeOK, NEW x \in Index, NEW j \in Nat
  PROVE  Slot(x + j) = Slot(cons_tail + Used(x) + j)
<1> DEFINE K == Modulus \div size_
<1>1. K \in Nat /\ Modulus = size_ * K
  <2>1. K \in Int /\ Modulus = size_ * K BY DivMod, SizeAssumption
  <2>2. K >= 0 BY SizeAssumption, SMT
  <2> QED BY <2>1, <2>2
<1>2. cons_tail \in Nat /\ x \in Nat /\ Used(x) \in Nat /\ Modulus \in Nat
      /\ size_ \in Nat \ {0}
  BY SubIndex, SizeAssumption DEF TypeOK, Used, Index
<1>3. Used(x) = IF x >= cons_tail THEN x - cons_tail ELSE x - cons_tail + Modulus
  BY SubIndex DEF TypeOK, Used
<1>4. CASE x >= cons_tail
  <2>1. cons_tail + Used(x) + j = x + j BY <1>2, <1>3, <1>4
  <2> QED BY <2>1
<1>5. CASE x < cons_tail
  <2>1. cons_tail + Used(x) + j = (x + j) + Modulus BY <1>2, <1>3, <1>5
  <2>2. (x + j) \in Int BY <1>2
  <2>3. ((x + j) + size_ * K) % size_ = (x + j) % size_
    BY ONLY <2>2, <1>1, <1>2, ModPeriodic
  <2> QED BY <2>1, <2>3, <1>1 DEF Slot
<1> QED BY <1>2, <1>4, <1>5

\* The claim of a thread, measured from cons_tail, lies below capacity_.
LEMMA ClaimBelowCapacity ==
  ASSUME IndInv, NEW t \in Threads, Claimed(t)
  PROVE  Used(old_head[t]) + n[t] <= capacity_
<1>1. /\ TypeOK /\ IndexOrder /\ ClaimBounds BY DEF IndInv, IndexInv
<1>2. CASE t \in Producers BY <1>1, <1>2, Distances DEF IndexOrder, ClaimBounds
<1>3. CASE t \in Consumers BY <1>1, <1>3, Distances DEF IndexOrder, ClaimBounds
<1> QED BY <1>2, <1>3 DEF Threads

\* Two claims in flight never overlap, of one side or of both.
LEMMA ClaimsDisjoint ==
  ASSUME IndInv, NEW t \in Threads, NEW u \in Threads, t # u, Claimed(t), Claimed(u)
  PROVE  \/ Used(old_head[t]) + n[t] <= Used(old_head[u])
         \/ Used(old_head[u]) + n[u] <= Used(old_head[t])
<1>1. /\ TypeOK /\ IndexOrder /\ ClaimBounds /\ ClaimsApart BY DEF IndInv, IndexInv
<1>2. ASSUME NEW p \in Producers, NEW c \in Consumers, Claimed(p), Claimed(c)
      PROVE  Used(old_head[c]) + n[c] <= Used(old_head[p])
  <2>1. Used(old_head[c]) + n[c] <= Used(cons_head) BY <1>1, <1>2 DEF ClaimBounds
  <2>2. Used(cons_head) <= Used(prod_tail) BY <1>1 DEF IndexOrder
  <2>3. Used(prod_tail) <= Used(old_head[p]) BY <1>1, <1>2 DEF ClaimBounds
  <2> QED BY <2>1, <2>2, <2>3, <1>1, Distances DEF Threads
<1>3. CASE t \in Producers /\ u \in Producers BY <1>1, <1>3 DEF ClaimsApart, Apart
<1>4. CASE t \in Consumers /\ u \in Consumers BY <1>1, <1>4 DEF ClaimsApart, Apart
<1>5. CASE t \in Producers /\ u \in Consumers BY <1>2, <1>5
<1>6. CASE t \in Consumers /\ u \in Producers BY <1>2, <1>6
<1> QED BY <1>3, <1>4, <1>5, <1>6 DEF Threads

LEMMA SlotsDiffer ==
  ASSUME IndInv, NEW t \in Threads, NEW u \in Threads, t # u, Claimed(t), Claimed(u),
         NEW j \in 0..(n[t] - 1), NEW k \in 0..(n[u] - 1)
  PROVE  Slot(old_head[t] + j) # Slot(old_head[u] + k)
<1> DEFINE x == Used(old_head[t]) + j
           y == Used(old_head[u]) + k
<1>1. TypeOK BY DEF IndInv
<1>2. /\ Used(old_head[t]) \in Nat /\ n[t] \in Nat /\ Used(old_head[u]) \in Nat /\ n[u] \in Nat
      /\ capacity_ \in Nat
  BY <1>1, Distances
<1>3. j \in Nat /\ k \in Nat /\ old_head[t] \in Index /\ old_head[u] \in Index
      /\ cons_tail \in Nat
  BY <1>1, <1>2 DEF TypeOK, Index
<1>4. /\ Used(old_head[t]) + n[t] <= capacity_ /\ Used(old_head[u]) + n[u] <= capacity_
      /\ \/ Used(old_head[t]) + n[t] <= Used(old_head[u])
         \/ Used(old_head[u]) + n[u] <= Used(old_head[t])
  BY ClaimBelowCapacity, ClaimsDisjoint
<1>5. x \in Nat /\ y \in Nat /\ x < capacity_ /\ y < capacity_ /\ x # y
  BY <1>2, <1>3, <1>4
<1>6. /\ Slot(old_head[t] + j) = Slot(cons_tail + Used(old_head[t]) + j)
      /\ Slot(old_head[u] + k) = Slot(cons_tail + Used(old_head[u]) + k)
  BY <1>1, <1>3, SlotOfDistance
<1>7. /\ cons_tail + Used(old_head[t]) + j = cons_tail + x
      /\ cons_tail + Used(old_head[u]) + k = cons_tail + y
  BY <1>2, <1>3
<1> HIDE DEF x, y
<1>8. size_ \in Nat \ {0} /\ capacity_ < size_ BY SizeAssumption, Capacity
<1>9. /\ cons_tail + x \in Int /\ cons_tail + y \in Int
      /\ (cons_tail + y) - (cons_tail + x) \in (1 - size_)..(size_ - 1)
      /\ cons_tail + x # cons_tail + y
  BY <1>2, <1>3, <1>5, <1>8
<1>10. (cons_tail + x) % size_ # (cons_tail + y) % size_
  BY ONLY <1>8, <1>9, ModInjective
<1> QED BY <1>6, <1>7, <1>10 DEF Slot

\* No two calls in flight copy to or from the same slot, for every ring size,
\* index width and number of threads.
THEOREM SlotsNeverShared == Spec => []SlotExclusive
<1>1. IndInv => SlotExclusive
  <2> SUFFICES ASSUME IndInv, NEW t \in Threads, NEW u \in Threads, t # u
               PROVE  ClaimedSlots(t) \intersect ClaimedSlots(u) = {}
      BY DEF SlotExclusive
  <2>1. CASE Claimed(t) /\ Claimed(u) BY <2>1, SlotsDiffer DEF ClaimedSlots
  <2>2. CASE ~(Claimed(t) /\ Claimed(u)) BY <2>2 DEF ClaimedSlots
  <2> QED BY <2>1, <2>2
<1> QED BY <1>1, SpecInv, PTL

----------------------------------------------------------------------------
\* Returning 0.

LEMMA OnlyBoundProducer ==
  ASSUME TypeOK, [Next]_vars, NEW p \in Producers, pc[p] = "bound", pc'[p] = "return"
  PROVE  BoundProducer(p)
<1> USE ThreadsAssumption DEF Threads, Goto, TypeOK
<1>1. ASSUME NEW q \in Producers, DoEnqueue(q) \/ ProducerStep(q) PROVE BoundProducer(p)
  BY <1>1 DEF DoEnqueue, ProducerStep, LoadProdHead, BoundProducer, MoveProdHead,
     RetryProdHead, EnqueueCopy, UpdateProdTail, Return
<1>2. ASSUME NEW c \in Consumers, DoDequeue(c) \/ RingCountProdTail(c) \/ ConsumerStep(c)
      PROVE  FALSE
  BY <1>2 DEF DoDequeue, RingCountProdTail, ConsumerStep, LoadConsHead, BoundConsumer,
     MoveConsumerHead, RetryConsHead, DequeueCopy, UpdateConsTail, RingCountConsTail, Return
<1>3. CASE UNCHANGED vars BY <1>3 DEF vars
<1> QED BY <1>1, <1>2, <1>3 DEF Next

LEMMA OnlyBoundConsumer ==
  ASSUME TypeOK, [Next]_vars, NEW c \in Consumers, pc[c] = "bound", pc'[c] = "return"
  PROVE  BoundConsumer(c)
<1> USE ThreadsAssumption DEF Threads, Goto, TypeOK
<1>1. ASSUME NEW q \in Producers, DoEnqueue(q) \/ ProducerStep(q) PROVE FALSE
  BY <1>1 DEF DoEnqueue, ProducerStep, LoadProdHead, BoundProducer, MoveProdHead,
     RetryProdHead, EnqueueCopy, UpdateProdTail, Return
<1>2. ASSUME NEW d \in Consumers, DoDequeue(d) \/ RingCountProdTail(d) \/ ConsumerStep(d)
      PROVE  BoundConsumer(c)
  BY <1>2 DEF DoDequeue, RingCountProdTail, ConsumerStep, LoadConsHead, BoundConsumer,
     MoveConsumerHead, RetryConsHead, DequeueCopy, UpdateConsTail, RingCountConsTail, Return
<1>3. CASE UNCHANGED vars BY <1>3 DEF vars
<1> QED BY <1>1, <1>2, <1>3 DEF Next

\* A stale head only makes the ring look emptier to a producer: free_entries is
\* the true room plus what others claimed since the load.
LEMMA FreeOfStaleHead ==
  ASSUME IndInv, NEW p \in Producers, Pending(p)
  PROVE  /\ FreeEntries(old_head[p]) = capacity_ - Used(prod_head) + Sub(prod_head, old_head[p])
         /\ FreeEntries(old_head[p]) \in Index
         /\ Sub(prod_head, old_head[p]) \in Nat
<1> DEFINE o == old_head[p]
           top == Add(capacity_, cons_tail)
<1>1. TypeOK /\ IndexOrder /\ PendingBounds BY DEF IndInv, IndexInv
<1>2. /\ o \in Index /\ prod_head \in Index /\ cons_tail \in Index /\ capacity_ \in Index
      /\ capacity_ + MaxLag < Modulus /\ MaxLag \in Nat /\ Modulus \in Nat
  BY <1>1, Capacity, SizeAssumption DEF TypeOK, Threads
<1>3. Sub(prod_head, o) <= MaxLag /\ Used(prod_head) <= capacity_
  BY <1>1 DEF PendingBounds, IndexOrder
<1>4. /\ top \in Index
      /\ top = IF capacity_ + cons_tail < Modulus THEN capacity_ + cons_tail
               ELSE capacity_ + cons_tail - Modulus
  BY <1>2, AddIndex
<1>5. /\ Used(prod_head) = IF prod_head >= cons_tail THEN prod_head - cons_tail
                           ELSE prod_head - cons_tail + Modulus
      /\ Sub(prod_head, o) = IF prod_head >= o THEN prod_head - o ELSE prod_head - o + Modulus
      /\ Sub(prod_head, o) \in Index
  BY <1>2, SubIndex DEF Used
<1> HIDE DEF top, o
<1>6. Sub(top, o) = IF top >= o THEN top - o ELSE top - o + Modulus
  BY <1>2, <1>4, SubIndex
<1>7. Sub(top, o) = capacity_ - Used(prod_head) + Sub(prod_head, o)
  BY <1>2, <1>3, <1>4, <1>5, <1>6 DEF Index
<1>8. Sub(top, o) \in Index BY <1>2, <1>4, SubIndex
<1> QED BY <1>5, <1>7, <1>8 DEF FreeEntries, top, o, Index

LEMMA EntriesOfStaleHead ==
  ASSUME IndInv, NEW c \in Consumers, Pending(c)
  PROVE  /\ Entries(old_head[c]) = Sub(prod_tail, cons_head) + Sub(cons_head, old_head[c])
         /\ Entries(old_head[c]) \in Index
         /\ Sub(cons_head, old_head[c]) \in Nat
         /\ Sub(prod_tail, cons_head) \in Nat
<1> DEFINE o == old_head[c]
<1>1. TypeOK /\ IndexOrder /\ PendingBounds BY DEF IndInv, IndexInv
<1>2. /\ o \in Index /\ prod_tail \in Index /\ cons_head \in Index
      /\ capacity_ \in Nat /\ capacity_ + MaxLag < Modulus /\ MaxLag \in Nat /\ Modulus \in Nat
  BY <1>1, Capacity, Distances, SizeAssumption DEF TypeOK, Threads
<1>3. Sub(cons_head, o) <= MaxLag BY <1>1 DEF PendingBounds
<1>4. Sub(prod_tail, cons_head) <= capacity_
  <2>1. Sub(prod_tail, cons_head) = Used(prod_tail) - Used(cons_head)
    BY <1>1, SubDifference DEF TypeOK, Used, IndexOrder
  <2> QED BY <2>1, <1>1, Distances DEF IndexOrder
<1> HIDE DEF o
<1>5. /\ Sub(prod_tail, cons_head) = IF prod_tail >= cons_head THEN prod_tail - cons_head
                                     ELSE prod_tail - cons_head + Modulus
      /\ Sub(cons_head, o) = IF cons_head >= o THEN cons_head - o ELSE cons_head - o + Modulus
      /\ Sub(prod_tail, o) = IF prod_tail >= o THEN prod_tail - o ELSE prod_tail - o + Modulus
      /\ Sub(prod_tail, o) \in Index /\ Sub(cons_head, o) \in Index
      /\ Sub(prod_tail, cons_head) \in Index
  BY <1>2, SubIndex
<1>6. Sub(prod_tail, o) = Sub(prod_tail, cons_head) + Sub(cons_head, o)
  BY <1>2, <1>3, <1>4, <1>5 DEF Index
<1> QED BY <1>5, <1>6 DEF Entries, o, Index

\* DoEnqueue never returns 0 on the strength of a stale prod_.head.
THEOREM FullIsReal == Spec => NoSpuriousFull
<1>1. IndInv /\ [Next]_vars =>
        [\A p \in Producers :
           (pc[p] = "bound" /\ pc'[p] = "return") =>
             IF behavior_ = kRingQueueFixed THEN Used(prod_head) + max[p] > capacity_
                                            ELSE Used(prod_head) = capacity_]_vars
  <2> SUFFICES ASSUME IndInv, [Next]_vars, NEW p \in Producers,
                      pc[p] = "bound", pc'[p] = "return"
               PROVE  IF behavior_ = kRingQueueFixed
                        THEN Used(prod_head) + max[p] > capacity_
                        ELSE Used(prod_head) = capacity_
      OBVIOUS
  <2> DEFINE free == FreeEntries(old_head[p])
  <2>1. TypeOK /\ CopyBounds /\ IndexOrder BY DEF IndInv, IndexInv
  <2>2. BoundProducer(p) BY <2>1, OnlyBoundProducer
  <2>3. Clip(max[p], free) = 0 BY <2>1, <2>2 DEF BoundProducer, Goto, TypeOK, Threads
  <2>4. /\ free = capacity_ - Used(prod_head) + Sub(prod_head, old_head[p])
        /\ free \in Index /\ Sub(prod_head, old_head[p]) \in Nat
    BY FreeOfStaleHead DEF Pending
  <2>5. max[p] \in Nat /\ max[p] >= 1 BY <2>1 DEF TypeOK, CopyBounds, Threads
  <2>6. Used(prod_head) \in Nat /\ capacity_ \in Nat /\ Used(prod_head) <= capacity_
    BY <2>1, Distances DEF IndexOrder
  <2> HIDE DEF free
  <2>7. CASE behavior_ = kRingQueueFixed
    <3>1. max[p] > free BY <2>3, <2>4, <2>5, <2>7 DEF Clip, Index
    <3> QED BY <3>1, <2>4, <2>5, <2>6, <2>7
  <2>8. CASE behavior_ # kRingQueueFixed
    <3>1. free = 0 BY <2>3, <2>4, <2>5, <2>8 DEF Clip, Index
    <3> DEFINE lag == Sub(prod_head, old_head[p])
               u == Used(prod_head)
               cap == capacity_
    <3>2. u \in Nat /\ cap \in Nat /\ u <= cap /\ cap - u + lag = 0 /\ lag \in Nat
      BY <3>1, <2>4, <2>6
    <3> HIDE DEF lag, u, cap
    <3>3. u = cap BY ONLY <3>2
    <3>4. Used(prod_head) = capacity_ BY <3>3 DEF u, cap
    <3> QED BY <3>4, <2>8
  <2> QED BY <2>7, <2>8
<1> QED BY <1>1, SpecInv, PTL DEF Spec, NoSpuriousFull

\* DoDequeue never returns 0 on the strength of a stale cons_.head.
THEOREM EmptyIsReal == Spec => NoSpuriousEmpty
<1>1. IndInv /\ [Next]_vars =>
        [\A c \in Consumers :
           (pc[c] = "bound" /\ pc'[c] = "return") =>
             IF behavior_ = kRingQueueFixed THEN Sub(prod_tail, cons_head) < max[c]
                                            ELSE prod_tail = cons_head]_vars
  <2> SUFFICES ASSUME IndInv, [Next]_vars, NEW c \in Consumers,
                      pc[c] = "bound", pc'[c] = "return"
               PROVE  IF behavior_ = kRingQueueFixed
                        THEN Sub(prod_tail, cons_head) < max[c]
                        ELSE prod_tail = cons_head
      OBVIOUS
  <2> DEFINE avail == Entries(old_head[c])
  <2>1. TypeOK /\ CopyBounds BY DEF IndInv, IndexInv
  <2>2. BoundConsumer(c) BY <2>1, OnlyBoundConsumer
  <2>3. Clip(max[c], avail) = 0 BY <2>1, <2>2 DEF BoundConsumer, Goto, TypeOK, Threads
  <2>4. /\ avail = Sub(prod_tail, cons_head) + Sub(cons_head, old_head[c])
        /\ avail \in Index /\ Sub(cons_head, old_head[c]) \in Nat
        /\ Sub(prod_tail, cons_head) \in Nat
    BY EntriesOfStaleHead DEF Pending
  <2>5. max[c] \in Nat /\ max[c] >= 1 BY <2>1 DEF TypeOK, CopyBounds, Threads
  <2> HIDE DEF avail
  <2>6. CASE behavior_ = kRingQueueFixed
    <3>1. max[c] > avail BY <2>3, <2>4, <2>5, <2>6 DEF Clip, Index
    <3> QED BY <3>1, <2>4, <2>5, <2>6
  <2>7. CASE behavior_ # kRingQueueFixed
    <3>1. avail = 0 BY <2>3, <2>4, <2>5, <2>7 DEF Clip, Index
    <3>2. Sub(prod_tail, cons_head) = 0 BY <3>1, <2>4
    <3> QED BY <3>2, <2>1, <2>7, SubZero DEF TypeOK
  <2> QED BY <2>6, <2>7
<1> QED BY <1>1, SpecInv, PTL DEF Spec, NoSpuriousEmpty

----------------------------------------------------------------------------
\* What the calls carry and report, and the refinement of RingQueue, on top
\* of the index protocol above.
\* The invariants, one conjunct for each thread or pair.

\* A producer's slots hold what it has copied so far, a consumer's array what
\* its slots hold; an array comes from the caller.
Contents ==
  /\ \A p \in Producers : obj[p] \in Seq(Items)
  /\ \A p \in Producers : Claimed(p) =>
       \A k \in 0..(i[p] - 1) : data_[Slot(old_head[p] + k)] = obj[p][k + 1]
  /\ \A c \in Consumers : Claimed(c) =>
       \A k \in 0..(i[c] - 1) : obj[c][k + 1] = data_[Slot(old_head[c] + k)]

\* By how much the head a thread loaded is stale.
Lag(t) == IF t \in Producers THEN Sub(prod_head, old_head[t]) ELSE Sub(cons_head, old_head[t])

\* A stale head makes the ring look emptier or fuller by as much as it is
\* stale, and a claim that succeeds was not stale.
Reports ==
  \A t \in Threads :
    /\ pc[t] = "move" => n[t] <= entries[t] /\ entries[t] <= capacity_ + Lag(t)
    /\ Claimed(t) => n[t] <= entries[t] /\ entries[t] <= capacity_
    /\ (pc[t] = "return" /\ (n[t] > 0 \/ max[t] <= capacity_)) =>
         n[t] <= entries[t] /\ entries[t] - n[t] <= capacity_

\* Between the two loads of the only consumer only prod_tail moves, forward.
Counts ==
  single_consumer_ =>
    \A c \in Consumers :
      /\ pc[c] = "count" => Used(entries[c]) <= Used(prod_tail)
      /\ pc[c] = "counted" => entries[c] <= Used(prod_tail)

----------------------------------------------------------------------------
\* Contents.

ContentOfProducer(p) ==
  /\ obj[p] \in Seq(Items)
  /\ Claimed(p) => \A k \in 0..(i[p] - 1) : data_[Slot(old_head[p] + k)] = obj[p][k + 1]
ContentOfConsumer(c) ==
  Claimed(c) => \A k \in 0..(i[c] - 1) : obj[c][k + 1] = data_[Slot(old_head[c] + k)]

LEMMA ContentsSplit ==
  Contents <=> /\ \A p \in Producers : ContentOfProducer(p)
               /\ \A c \in Consumers : ContentOfConsumer(c)
  BY DEF Contents, ContentOfProducer, ContentOfConsumer

\* A step of t that writes no slot leaves the others' contents alone.
LEMMA ContentsFrame ==
  ASSUME Contents, UNCHANGED data_, NEW t \in Threads,
         \A u \in Threads \ {t} :
           pc'[u] = pc[u] /\ obj'[u] = obj[u] /\ i'[u] = i[u] /\ old_head'[u] = old_head[u],
         t \in Producers => ContentOfProducer(t)',
         t \in Consumers => ContentOfConsumer(t)'
  PROVE  Contents'
<1> USE DEF Threads, Claimed
<1>1. ASSUME NEW p \in Producers PROVE ContentOfProducer(p)'
  <2>1. CASE p # t BY <2>1, ContentsSplit DEF ContentOfProducer
  <2> QED BY <2>1
<1>2. ASSUME NEW c \in Consumers PROVE ContentOfConsumer(c)'
  <2>1. CASE c # t BY <2>1, ContentsSplit DEF ContentOfConsumer
  <2> QED BY <2>1
<1> QED BY <1>1, <1>2 DEF Contents, ContentOfProducer, ContentOfConsumer

\* Steps of a producer that write no slot.
LEMMA ContentsProducer ==
  ASSUME IndInv, Contents, NEW p \in Producers,
         \/ DoEnqueue(p) \/ LoadProdHead(p) \/ BoundProducer(p) \/ MoveProdHead(p)
         \/ RetryProdHead(p) \/ UpdateProdTail(p) \/ Return(p)
  PROVE  Contents'
<1> USE ThreadsAssumption DEF Threads, ringVars, locals, Goto
<1>1. TypeOK /\ CopyBounds BY DEF IndInv, IndexInv
<1>2. ContentOfProducer(p) BY ContentsSplit
<1> SUFFICES /\ UNCHANGED data_
             /\ \A u \in Threads \ {p} :
                  pc'[u] = pc[u] /\ obj'[u] = obj[u] /\ i'[u] = i[u] /\ old_head'[u] = old_head[u]
             /\ ContentOfProducer(p)'
    BY ContentsFrame
<1>3. CASE DoEnqueue(p)
  <2>1. PICK batch \in EnqBatches : obj' = [obj EXCEPT ![p] = batch] BY <1>3 DEF DoEnqueue
  <2>2. batch \in Seq(Items) BY BatchAssumption
  <2> QED BY <1>1, <1>3, <2>1, <2>2 DEF DoEnqueue, TypeOK, ContentOfProducer, Claimed
<1>4. CASE LoadProdHead(p) \/ BoundProducer(p) \/ RetryProdHead(p)
  BY <1>1, <1>2, <1>4
     DEF LoadProdHead, BoundProducer, RetryProdHead, TypeOK, ContentOfProducer, Claimed
<1>5. CASE MoveProdHead(p)
  <2>1. i[p] = 0 BY <1>1, <1>5 DEF MoveProdHead, CopyBounds
  <2> QED BY <1>1, <1>2, <1>5, <2>1 DEF MoveProdHead, TypeOK, ContentOfProducer
<1>6. CASE UpdateProdTail(p)
  BY <1>1, <1>2, <1>6 DEF UpdateProdTail, TypeOK, ContentOfProducer, Claimed
<1>7. CASE Return(p)
  BY <1>1, <1>7 DEF Return, TypeOK, ContentOfProducer, Claimed
<1> QED BY <1>3, <1>4, <1>5, <1>6, <1>7

LEMMA ContentsConsumer ==
  ASSUME IndInv, Contents, NEW c \in Consumers,
         DoDequeue(c) \/ RingCountProdTail(c) \/ ConsumerStep(c)
  PROVE  Contents'
<1> USE ThreadsAssumption DEF Threads, ringVars, locals, Goto
<1>1. TypeOK /\ CopyBounds BY DEF IndInv, IndexInv
<1>2. ContentOfConsumer(c) BY ContentsSplit
<1> SUFFICES /\ UNCHANGED data_
             /\ \A u \in Threads \ {c} :
                  pc'[u] = pc[u] /\ obj'[u] = obj[u] /\ i'[u] = i[u] /\ old_head'[u] = old_head[u]
             /\ ContentOfConsumer(c)'
    BY ContentsFrame
<1>3. CASE \/ DoDequeue(c) \/ LoadConsHead(c) \/ BoundConsumer(c) \/ RetryConsHead(c)
           \/ UpdateConsTail(c) \/ RingCountProdTail(c) \/ RingCountConsTail(c) \/ Return(c)
  BY <1>1, <1>3
     DEF DoDequeue, LoadConsHead, BoundConsumer, RetryConsHead, UpdateConsTail,
     RingCountProdTail, RingCountConsTail, Return, TypeOK, ContentOfConsumer, Claimed
<1>4. CASE MoveConsumerHead(c)
  <2>1. i[c] = 0 BY <1>1, <1>4 DEF MoveConsumerHead, CopyBounds
  <2> QED BY <1>1, <1>2, <1>4, <2>1 DEF MoveConsumerHead, TypeOK, ContentOfConsumer
<1>5. CASE DequeueCopy(c)
  <2> DEFINE x == data_[Slot(old_head[c] + i[c])]
  <2>1. obj[c] \in Seq(Items \union {NoItem}) /\ Len(obj[c]) = i[c] /\ i[c] \in Nat
    BY <1>1 DEF TypeOK, CopyBounds
  <2>2. x \in Items \union {NoItem}
    BY <1>1, SlotInSlots DEF TypeOK, Index
  <2>3. obj'[c] = Append(obj[c], x) /\ i'[c] = i[c] + 1
    BY <1>1, <1>5 DEF DequeueCopy, TypeOK
  <2>4. Claimed(c) /\ UNCHANGED <<data_, old_head>> BY <1>5 DEF DequeueCopy, Claimed
  <2> HIDE DEF x
  <2>5. ASSUME NEW k \in 0..(i'[c] - 1) PROVE obj'[c][k + 1] = data_[Slot(old_head[c] + k)]
    <3>1. CASE k = i[c]
      <4>1. obj'[c][k + 1] = x BY <2>1, <2>2, <2>3, <3>1
      <4> QED BY <4>1, <3>1 DEF x
    <3>2. CASE k # i[c]
      <4>1. k \in 0..(i[c] - 1) /\ k + 1 \in 1..Len(obj[c]) BY <2>1, <2>3, <2>5, <3>2
      <4>2. obj'[c][k + 1] = obj[c][k + 1] BY <2>1, <2>2, <2>3, <4>1
      <4> QED BY <4>1, <4>2, <1>2, <2>4 DEF ContentOfConsumer
    <3> QED BY <3>1, <3>2
  <2>6. ContentOfConsumer(c)' BY <2>4, <2>5 DEF ContentOfConsumer
  <2> QED BY <2>6, <1>1, <1>5 DEF DequeueCopy, TypeOK
<1> QED BY <1>3, <1>4, <1>5 DEF ConsumerStep

\* Two slots of the same claim.
LEMMA OwnSlotsDiffer ==
  ASSUME IndInv, NEW t \in Threads, Claimed(t),
         NEW j \in 0..(n[t] - 1), NEW k \in 0..(n[t] - 1), j # k
  PROVE  Slot(old_head[t] + j) # Slot(old_head[t] + k)
<1> DEFINE o == old_head[t]
<1>1. n[t] \in Nat /\ o \in Int /\ n[t] <= capacity_ /\ capacity_ \in Nat
  <2>1. TypeOK BY DEF IndInv
  <2>2. Used(o) + n[t] <= capacity_ BY ClaimBelowCapacity
  <2>3. Used(o) \in Nat /\ n[t] \in Nat /\ capacity_ \in Nat BY <2>1, Distances
  <2>4. o \in Int BY <2>1 DEF TypeOK, Index
  <2> HIDE DEF o
  <2> QED BY <2>2, <2>3, <2>4
<1> HIDE DEF o
<1>2. size_ \in Nat \ {0} /\ capacity_ < size_ BY SizeAssumption, Capacity
<1>3. o + j \in Int /\ o + k \in Int /\ o + j # o + k
      /\ (o + k) - (o + j) \in (1 - size_)..(size_ - 1)
  BY <1>1, <1>2
<1>4. (o + j) % size_ # (o + k) % size_ BY ONLY <1>2, <1>3, ModInjective
<1> QED BY <1>4 DEF Slot, o

LEMMA ContentsEnqueueCopy ==
  ASSUME IndInv, Contents, NEW p \in Producers, EnqueueCopy(p)
  PROVE  Contents'
<1> USE ThreadsAssumption DEF Threads
<1> DEFINE s == Slot(old_head[p] + i[p])
<1>1. TypeOK /\ CopyBounds BY DEF IndInv, IndexInv
<1>2. /\ Claimed(p) /\ i[p] \in 0..(n[p] - 1) /\ i[p] \in Nat /\ n[p] \in Nat
      /\ UNCHANGED <<obj, old_head, n>>
      /\ data_' = [data_ EXCEPT ![s] = obj[p][i[p] + 1]]
      /\ i' = [i EXCEPT ![p] = @ + 1]
      /\ \A u \in Threads : Claimed(u)' <=> Claimed(u)
  BY <1>1 DEF EnqueueCopy, Goto, Claimed, TypeOK, CopyBounds, Index
<1>3. s \in Slots BY <1>1, <1>2, SlotInSlots DEF TypeOK, Index
<1>4. ASSUME NEW u \in Threads, u # p, Claimed(u), NEW k \in 0..(n[u] - 1)
      PROVE  data_'[Slot(old_head[u] + k)] = data_[Slot(old_head[u] + k)]
  <2>1. Slot(old_head[u] + k) # s BY <1>2, <1>4, SlotsDiffer
  <2>2. Slot(old_head[u] + k) \in Slots
    BY <1>1, SlotInSlots DEF TypeOK, Index
  <2> QED BY <2>1, <2>2, <1>1, <1>2 DEF TypeOK
<1>5. ASSUME NEW u \in Threads, Claimed(u) PROVE i[u] \in Nat /\ n[u] \in Nat /\ i[u] <= n[u]
  BY <1>1, <1>5 DEF TypeOK, CopyBounds, Claimed, Index
\* What another thread has copied so far stays where it is.
<1>6. ASSUME NEW u \in Threads, u # p, Claimed(u), NEW k \in 0..(i'[u] - 1)
      PROVE  /\ data_'[Slot(old_head'[u] + k)] = data_[Slot(old_head[u] + k)]
             /\ k \in 0..(i[u] - 1)
  <2>1. i'[u] = i[u] BY <1>1, <1>2, <1>6 DEF TypeOK
  <2>2. k \in 0..(i[u] - 1) /\ k \in 0..(n[u] - 1) BY <2>1, <1>5, <1>6
  <2> QED BY <2>2, <1>2, <1>4, <1>6
<1>7. ASSUME NEW q \in Producers PROVE ContentOfProducer(q)'
  <2>1. CASE q # p
    <3>1. ContentOfProducer(q) BY ContentsSplit
    <3>2. Claimed(q)' <=> Claimed(q) BY <1>2
    <3> QED BY <2>1, <3>1, <3>2, <1>2, <1>6 DEF ContentOfProducer
  <2>2. CASE q = p
    <3>1. ASSUME NEW k \in 0..i[p] PROVE data_'[Slot(old_head[p] + k)] = obj[p][k + 1]
      <4>1. CASE k = i[p] BY <4>1, <1>1, <1>2, <1>3 DEF TypeOK
      <4>2. CASE k # i[p]
        <5>1. k \in 0..(i[p] - 1) /\ k \in 0..(n[p] - 1) BY <4>2, <1>2
        <5>2. Slot(old_head[p] + k) # s BY <5>1, <4>2, <1>2, OwnSlotsDiffer
        <5>3. Slot(old_head[p] + k) \in Slots BY <1>1, SlotInSlots DEF TypeOK, Index
        <5>4. data_[Slot(old_head[p] + k)] = obj[p][k + 1]
          BY <5>1, <1>2, ContentsSplit DEF ContentOfProducer
        <5> QED BY <5>2, <5>3, <5>4, <1>1, <1>2 DEF TypeOK
      <4> QED BY <4>1, <4>2
    <3>2. i'[p] - 1 = i[p] BY <1>1, <1>2 DEF TypeOK
    <3>3. obj[p] \in Seq(Items) BY ContentsSplit DEF ContentOfProducer
    <3> QED BY <2>2, <3>1, <3>2, <3>3, <1>2 DEF ContentOfProducer
  <2> QED BY <2>1, <2>2
<1>8. ASSUME NEW c \in Consumers PROVE ContentOfConsumer(c)'
  <2>1. ContentOfConsumer(c) /\ c # p BY ContentsSplit
  <2>2. Claimed(c)' <=> Claimed(c) BY <1>2
  <2> QED BY <2>1, <2>2, <1>2, <1>6 DEF ContentOfConsumer
<1> QED BY <1>7, <1>8 DEF Contents, ContentOfProducer, ContentOfConsumer

LEMMA ContentsNext == IndInv /\ Contents /\ [Next]_vars => Contents'
<1> SUFFICES ASSUME IndInv, Contents, [Next]_vars PROVE Contents' OBVIOUS
<1>1. ASSUME NEW p \in Producers, DoEnqueue(p) \/ ProducerStep(p) PROVE Contents'
  BY <1>1, ContentsProducer, ContentsEnqueueCopy DEF ProducerStep
<1>2. ASSUME NEW c \in Consumers, DoDequeue(c) \/ RingCountProdTail(c) \/ ConsumerStep(c)
      PROVE  Contents'
  BY <1>2, ContentsConsumer
<1>3. CASE UNCHANGED vars BY <1>3 DEF vars, Contents, Claimed
<1> QED BY <1>1, <1>2, <1>3 DEF Next

----------------------------------------------------------------------------
\* Reports.

ReportOf(t) ==
  /\ pc[t] = "move" => n[t] <= entries[t] /\ entries[t] <= capacity_ + Lag(t)
  /\ Claimed(t) => n[t] <= entries[t] /\ entries[t] <= capacity_
  /\ (pc[t] = "return" /\ (n[t] > 0 \/ max[t] <= capacity_)) =>
       n[t] <= entries[t] /\ entries[t] - n[t] <= capacity_

LEMMA ReportsFrame ==
  ASSUME Reports, UNCHANGED <<prod_head, cons_head>>, NEW t \in Threads,
         \A u \in Threads \ {t} :
           /\ pc'[u] = pc[u] /\ n'[u] = n[u] /\ old_head'[u] = old_head[u]
           /\ entries'[u] = entries[u] /\ max'[u] = max[u],
         ReportOf(t)'
  PROVE  Reports'
<1>1. ASSUME NEW u \in Threads, u # t PROVE ReportOf(u)'
  <2>1. ReportOf(u) BY DEF Reports, ReportOf
  <2> QED BY <2>1, <1>1 DEF ReportOf, Claimed, Lag
<1> QED BY <1>1 DEF Reports, ReportOf

\* What Clip leaves of a claim that got nothing.
LEMMA ClipNothing ==
  ASSUME NEW m \in Nat, NEW avail \in Index, m >= 1, Clip(m, avail) = 0
  PROVE  avail < m
  BY DEF Clip, Index

\* The others of a side see the head move away by a successful claim.
LEMMA LagOfOthers ==
  ASSUME IndInv, NEW t \in Threads, NEW u \in Threads, t # u, Pending(u),
         \/ t \in Producers /\ u \in Producers /\ MoveProdHead(t)
         \/ t \in Consumers /\ u \in Consumers /\ MoveConsumerHead(t)
  PROVE  Lag(u) <= Lag(u)'
<1> USE ThreadsAssumption DEF Threads
<1>1. TypeOK /\ PendingBounds BY DEF IndInv, IndexInv
<1>2. ASSUME NEW h \in Index, NEW o \in Index, NEW k \in Index, Sub(h, o) + k <= MaxLag
      PROVE  Sub(h, o) <= Sub(Add(h, k), o)
  <2>1. Sub(h, o) \in Index BY SubIndex
  <2>2. Sub(h, o) + k < Modulus BY <2>1, <1>2, Capacity, SizeAssumption DEF Index
  <2>3. Sub(Add(h, k), o) = Sub(h, o) + k BY <2>2, SubOfAdd
  <2> QED BY <2>1, <2>3 DEF Index
<1>3. CASE t \in Producers /\ u \in Producers /\ MoveProdHead(t)
  <2>1. old_head[t] = prod_head BY <1>1, <1>3 DEF MoveProdHead, Swings, PendingBounds, Pending
  <2>2. Sub(prod_head, old_head[u]) + n[t] <= MaxLag
    BY <1>3 DEF MoveProdHead, NoLap, Pending
  <2>3. prod_head' = Add(prod_head, n[t]) /\ old_head' = old_head
    BY <1>3, <2>1 DEF MoveProdHead, locals
  <2>4. prod_head \in Index /\ old_head[u] \in Index /\ n[t] \in Index BY <1>1 DEF TypeOK
  <2>5. Sub(prod_head, old_head[u]) <= Sub(prod_head', old_head[u])
    BY <1>2, <2>2, <2>3, <2>4
  <2> QED BY <2>3, <2>5, <1>3 DEF Lag
<1>4. CASE t \in Consumers /\ u \in Consumers /\ MoveConsumerHead(t)
  <2>1. old_head[t] = cons_head
    BY <1>1, <1>4 DEF MoveConsumerHead, Swings, PendingBounds, Pending
  <2>2. Sub(cons_head, old_head[u]) + n[t] <= MaxLag
    BY <1>4 DEF MoveConsumerHead, NoLap, Pending
  <2>3. cons_head' = Add(cons_head, n[t]) /\ old_head' = old_head
    BY <1>4, <2>1 DEF MoveConsumerHead, locals
  <2>4. cons_head \in Index /\ old_head[u] \in Index /\ n[t] \in Index BY <1>1 DEF TypeOK
  <2>5. Sub(cons_head, old_head[u]) <= Sub(cons_head', old_head[u])
    BY <1>2, <2>2, <2>3, <2>4
  <2> QED BY <2>3, <2>5, <1>4 DEF Lag
<1> QED BY <1>3, <1>4

\* A claim that succeeds.
LEMMA ReportsMove ==
  ASSUME IndInv, IndInv', Reports, NEW t \in Threads,
         \/ t \in Producers /\ MoveProdHead(t)
         \/ t \in Consumers /\ MoveConsumerHead(t)
  PROVE  Reports'
<1> USE ThreadsAssumption DEF Threads
<1>1. TypeOK /\ PendingBounds BY DEF IndInv, IndexInv
<1>2. /\ pc[t] = "move" /\ pc' = [pc EXCEPT ![t] = "copy"]
      /\ UNCHANGED <<n, entries, max, old_head>>
      /\ t \in Producers => UNCHANGED cons_head
      /\ t \in Consumers => UNCHANGED prod_head
  BY DEF MoveProdHead, MoveConsumerHead, Goto, locals
<1>3. Lag(t) = 0
  <2>1. old_head[t] = IF t \in Producers THEN prod_head ELSE cons_head
    BY <1>1 DEF MoveProdHead, MoveConsumerHead, Swings, PendingBounds, Pending
  <2> QED BY <2>1, <1>1, SubZero DEF Lag, TypeOK
<1>4. \A u \in Threads : entries[u] \in Nat /\ n[u] \in Nat BY <1>1 DEF TypeOK, Index
<1>5. capacity_ \in Nat BY Capacity DEF Index
<1>6. ReportOf(t)'
  <2>1. n[t] <= entries[t] /\ entries[t] <= capacity_ BY <1>2, <1>3, <1>5 DEF Reports
  <2> QED BY <2>1, <1>1, <1>2 DEF ReportOf, TypeOK, Claimed
<1>7. ASSUME NEW u \in Threads, u # t PROVE ReportOf(u)'
  <2>1. ReportOf(u) /\ pc'[u] = pc[u] BY <1>1, <1>2, <1>7 DEF Reports, ReportOf, TypeOK
  <2>2. CASE pc[u] = "move"
    <3>0. Lag(u) \in Int /\ Lag(u)' \in Int
      <4>1. TypeOK' /\ Index \subseteq Int BY DEF IndInv, Index
      <4>2. Sub(prod_head, old_head[u]) \in Index /\ Sub(cons_head, old_head[u]) \in Index
        BY <1>1, SubIndex DEF TypeOK
      <4>3. Sub(prod_head', old_head'[u]) \in Index /\ Sub(cons_head', old_head'[u]) \in Index
        BY <4>1, SubIndex DEF TypeOK
      <4> QED BY <4>1, <4>2, <4>3 DEF Lag
    <3>1. Lag(u) <= Lag(u)'
      <4>1. CASE t \in Producers /\ u \in Producers BY <4>1, <1>7, <2>2, LagOfOthers DEF Pending
      <4>2. CASE t \in Consumers /\ u \in Consumers BY <4>2, <1>7, <2>2, LagOfOthers DEF Pending
      <4>3. CASE (t \in Producers) # (u \in Producers)
        <5>1. Lag(u)' = Lag(u) BY <4>3, <1>2 DEF Lag
        <5> QED BY <5>1, <3>0
      <4> QED BY <4>1, <4>2, <4>3
    <3>4. entries[u] <= capacity_ + Lag(u)' BY <2>1, <2>2, <3>0, <3>1, <1>4, <1>5 DEF ReportOf
    <3> QED BY <2>1, <2>2, <3>4, <1>2 DEF ReportOf, Claimed
  <2>3. CASE pc[u] # "move" BY <2>1, <2>3, <1>2 DEF ReportOf, Claimed
  <2> QED BY <2>2, <2>3
<1> QED BY <1>6, <1>7 DEF Reports, ReportOf

\* The load of the other side's tail.
LEMMA ReportsBound ==
  ASSUME IndInv, Reports, NEW t \in Threads,
         \/ t \in Producers /\ BoundProducer(t)
         \/ t \in Consumers /\ BoundConsumer(t)
  PROVE  Reports'
<1> USE ThreadsAssumption DEF Threads, ringVars, Goto
<1>1. TypeOK /\ CopyBounds /\ IndexOrder BY DEF IndInv, IndexInv
<1>2. pc[t] = "bound" BY DEF BoundProducer, BoundConsumer
<1> DEFINE avail == IF t \in Producers THEN FreeEntries(old_head[t]) ELSE Entries(old_head[t])
           m == Clip(max[t], avail)
<1>3. /\ entries' = [entries EXCEPT ![t] = avail] /\ n' = [n EXCEPT ![t] = m]
      /\ pc' = [pc EXCEPT ![t] = IF m = 0 THEN "return" ELSE "move"]
      /\ UNCHANGED <<prod_head, cons_head, max, old_head>>
  BY DEF BoundProducer, BoundConsumer
<1>4. avail \in Index /\ avail <= capacity_ + Lag(t)
  <2>1. Used(prod_head) \in Nat /\ Used(prod_tail) \in Nat /\ Used(cons_head) \in Nat
        /\ capacity_ \in Nat /\ Used(prod_head) <= capacity_
    BY <1>1, Distances DEF IndexOrder
  <2>2. CASE t \in Producers
    BY <2>1, <2>2, <1>2, FreeOfStaleHead DEF Pending, Lag
  <2>3. CASE t \in Consumers
    <3>1. Sub(prod_tail, cons_head) = Used(prod_tail) - Used(cons_head)
      BY <1>1, SubDifference DEF TypeOK, Used, IndexOrder
    <3>2. Sub(prod_tail, cons_head) <= capacity_ BY <3>1, <2>1, <1>1 DEF IndexOrder
    <3> QED BY <2>1, <2>3, <3>2, <1>2, EntriesOfStaleHead DEF Pending, Lag
  <2> QED BY <2>2, <2>3
<1>5. max[t] \in Nat /\ max[t] >= 1 /\ capacity_ \in Nat
  BY <1>1, <1>2, Distances DEF TypeOK, CopyBounds
<1>6. m \in Index /\ m <= avail BY <1>4, <1>5, ClipBound
<1>7. m = 0 => avail < max[t] BY <1>4, <1>5, ClipNothing
<1> HIDE DEF m, avail
<1>8. /\ pc'[t] = IF m = 0 THEN "return" ELSE "move"
      /\ n'[t] = m /\ entries'[t] = avail /\ max'[t] = max[t] /\ Lag(t)' = Lag(t)
  BY <1>1, <1>3 DEF TypeOK, Lag
<1>9. ReportOf(t)'
  <2>1. CASE m = 0
    <3>1. max[t] <= capacity_ => avail <= capacity_ BY <2>1, <1>4, <1>5, <1>7 DEF Index
    <3>2. m <= avail /\ avail - m = avail BY <2>1, <1>4, <1>6 DEF Index
    <3> QED BY <2>1, <3>1, <3>2, <1>8 DEF ReportOf, Claimed
  <2>2. CASE m # 0 BY <2>2, <1>4, <1>6, <1>8 DEF ReportOf, Claimed
  <2> QED BY <2>1, <2>2
<1> QED BY <1>9, <1>3, <1>1, ReportsFrame DEF TypeOK

\* The other steps: the call goes on with what it has, or has nothing.
LEMMA ReportsLocal ==
  ASSUME IndInv, Reports, NEW t \in Threads,
         \/ /\ t \in Producers
            /\ \/ DoEnqueue(t) \/ LoadProdHead(t) \/ RetryProdHead(t) \/ Return(t)
               \/ EnqueueCopy(t) \/ UpdateProdTail(t)
         \/ /\ t \in Consumers
            /\ \/ DoDequeue(t) \/ LoadConsHead(t) \/ RetryConsHead(t) \/ Return(t)
               \/ RingCountProdTail(t) \/ RingCountConsTail(t)
               \/ DequeueCopy(t) \/ UpdateConsTail(t)
  PROVE  Reports'
<1> USE ThreadsAssumption DEF Threads, ringVars, locals, Goto
<1>1. TypeOK /\ ReportOf(t) BY DEF IndInv, Reports, ReportOf
<1> DEFINE Quiet == /\ UNCHANGED <<prod_head, cons_head>>
                    /\ \A u \in Threads \ {t} :
                         /\ pc'[u] = pc[u] /\ n'[u] = n[u] /\ old_head'[u] = old_head[u]
                         /\ entries'[u] = entries[u] /\ max'[u] = max[u]
<1> SUFFICES Quiet /\ ReportOf(t)' BY ReportsFrame
<1>2. CASE \/ DoEnqueue(t) \/ LoadProdHead(t) \/ RetryProdHead(t) \/ Return(t)
           \/ DoDequeue(t) \/ LoadConsHead(t) \/ RetryConsHead(t)
           \/ RingCountProdTail(t) \/ RingCountConsTail(t)
  <2>1. Quiet
    BY <1>1, <1>2 DEF DoEnqueue, LoadProdHead, RetryProdHead, Return, DoDequeue, LoadConsHead,
       RetryConsHead, RingCountProdTail, RingCountConsTail, TypeOK
  <2>2. pc'[t] \in {"load", "bound", "idle", "count", "counted"}
    BY <1>1, <1>2 DEF DoEnqueue, LoadProdHead, RetryProdHead, Return, DoDequeue, LoadConsHead,
       RetryConsHead, RingCountProdTail, RingCountConsTail, TypeOK
  <2> QED BY <2>1, <2>2 DEF ReportOf, Claimed
<1>3. CASE (t \in Producers /\ EnqueueCopy(t)) \/ (t \in Consumers /\ DequeueCopy(t))
  <2>1. /\ UNCHANGED <<prod_head, cons_head, max, n, old_head, entries>>
        /\ Claimed(t) /\ pc'[t] \in {"copy", "publish"}
        /\ \A u \in Threads \ {t} : pc'[u] = pc[u]
    BY <1>1, <1>3 DEF EnqueueCopy, DequeueCopy, TypeOK, Claimed
  <2> QED BY <2>1, <1>1 DEF ReportOf, Claimed
<1>4. CASE (t \in Producers /\ UpdateProdTail(t)) \/ (t \in Consumers /\ UpdateConsTail(t))
  <2>1. Quiet /\ pc'[t] = "return" /\ n'[t] = n[t] /\ entries'[t] = entries[t] /\ Claimed(t)
    BY <1>1, <1>4 DEF UpdateProdTail, UpdateConsTail, TypeOK, Claimed
  <2>2. entries[t] - n[t] <= capacity_
    BY <1>1, <2>1, Distances DEF ReportOf, TypeOK, Index
  <2> QED BY <1>1, <2>1, <2>2 DEF ReportOf, Claimed
<1> QED BY <1>2, <1>3, <1>4

LEMMA ReportsNext == IndInv /\ IndInv' /\ Reports /\ [Next]_vars => Reports'
<1> SUFFICES ASSUME IndInv, IndInv', Reports, [Next]_vars PROVE Reports' OBVIOUS
<1>1. ASSUME NEW p \in Producers, DoEnqueue(p) \/ ProducerStep(p) PROVE Reports'
  <2>1. CASE MoveProdHead(p) BY <2>1, ReportsMove DEF Threads
  <2>2. CASE BoundProducer(p) BY <2>2, ReportsBound DEF Threads
  <2>3. CASE \/ DoEnqueue(p) \/ LoadProdHead(p) \/ RetryProdHead(p) \/ Return(p)
             \/ EnqueueCopy(p) \/ UpdateProdTail(p)
    BY <2>3, ReportsLocal DEF Threads
  <2> QED BY <1>1, <2>1, <2>2, <2>3 DEF ProducerStep
<1>2. ASSUME NEW c \in Consumers, DoDequeue(c) \/ RingCountProdTail(c) \/ ConsumerStep(c)
      PROVE  Reports'
  <2>1. CASE MoveConsumerHead(c) BY <2>1, ReportsMove DEF Threads
  <2>2. CASE BoundConsumer(c) BY <2>2, ReportsBound DEF Threads
  <2>3. CASE \/ DoDequeue(c) \/ LoadConsHead(c) \/ RetryConsHead(c) \/ Return(c)
             \/ RingCountProdTail(c) \/ RingCountConsTail(c)
             \/ DequeueCopy(c) \/ UpdateConsTail(c)
    BY <2>3, ReportsLocal DEF Threads
  <2> QED BY <1>2, <2>1, <2>2, <2>3 DEF ConsumerStep
<1>3. CASE UNCHANGED vars BY <1>3 DEF vars, Reports, Claimed, Lag
<1> QED BY <1>1, <1>2, <1>3 DEF Next

----------------------------------------------------------------------------
\* Counts.

\* While the only consumer has no claim, no element is claimed.
LEMMA OnlyConsumerIdle ==
  ASSUME IndInv, single_consumer_, NEW c \in Consumers, ~Claimed(c)
  PROVE  cons_head = cons_tail
<1>1. \A d \in Consumers : d = c BY SingleAssumption
<1> QED BY <1>1 DEF IndInv, IndexInv, ClaimsTile

\* Steps of the producers only move prod_tail forward.
LEMMA CountsProducer ==
  ASSUME IndInv, Counts, single_consumer_, NEW p \in Producers,
         DoEnqueue(p) \/ ProducerStep(p)
  PROVE  Counts'
<1> USE ThreadsAssumption DEF Threads, ringVars, locals, Goto
<1>1. TypeOK /\ Claims /\ PendingBounds BY IndexInvParts DEF IndInv
<1>2. /\ UNCHANGED cons_tail
      /\ \A c \in Consumers : pc'[c] = pc[c] /\ entries'[c] = entries[c]
  BY <1>1 DEF DoEnqueue, ProducerStep, LoadProdHead, BoundProducer, MoveProdHead,
     RetryProdHead, EnqueueCopy, UpdateProdTail, Return, TypeOK
<1>3. Used(prod_tail) <= Used(prod_tail)' /\ Used(prod_tail)' \in Int
  <2>1. Used(prod_tail) \in Nat /\ n[p] \in Nat BY <1>1, Distances
  <2>2. CASE UpdateProdTail(p) BY <1>1, <2>1, <2>2, ProducerPublishes
  <2>3. CASE UNCHANGED prod_tail BY <1>2, <2>1, <2>3 DEF Used
  <2>4. UpdateProdTail(p) \/ UNCHANGED prod_tail
    BY DEF DoEnqueue, ProducerStep, LoadProdHead, BoundProducer, MoveProdHead,
       RetryProdHead, EnqueueCopy, Return
  <2> QED BY <2>2, <2>3, <2>4
<1>4. ASSUME NEW c \in Consumers
      PROVE  /\ entries[c] \in Int /\ Used(entries[c]) \in Int /\ Used(prod_tail) \in Int
             /\ Used(entries[c])' = Used(entries[c])
  <2>1. Used(entries[c]) \in Index /\ entries[c] \in Index /\ Used(prod_tail) \in Index
    BY <1>1, SubIndex DEF TypeOK, Used
  <2>2. Used(entries[c])' = Used(entries[c]) BY <1>2 DEF Used
  <2> QED BY <2>1, <2>2 DEF Index
<1>5. ASSUME NEW c \in Consumers
      PROVE  /\ pc'[c] = "count" => Used(entries[c])' <= Used(prod_tail)'
             /\ pc'[c] = "counted" => entries'[c] <= Used(prod_tail)'
  BY <1>2, <1>3, <1>4 DEF Counts, Used
<1> QED BY <1>5 DEF Counts

LEMMA CountsConsumer ==
  ASSUME IndInv, IndInv', Counts, single_consumer_, NEW c \in Consumers,
         DoDequeue(c) \/ RingCountProdTail(c) \/ ConsumerStep(c)
  PROVE  Counts'
<1> USE DEF Threads, ringVars, locals, Goto
<1>1. TypeOK /\ \A d \in Consumers : d = c BY SingleAssumption DEF IndInv
<1> SUFFICES /\ pc'[c] = "count" => Used(entries[c])' <= Used(prod_tail)'
             /\ pc'[c] = "counted" => entries'[c] <= Used(prod_tail)'
    BY <1>1 DEF Counts
<1>2. CASE RingCountProdTail(c)
  <2>1. entries'[c] = prod_tail /\ pc'[c] = "count" /\ UNCHANGED <<prod_tail, cons_tail>>
    BY <1>1, <1>2 DEF RingCountProdTail, TypeOK
  <2>2. Used(prod_tail) \in Nat BY <1>1, Distances
  <2> QED BY <2>1, <2>2 DEF Used
<1>3. CASE RingCountConsTail(c)
  <2> DEFINE u == Used(entries[c])
             v == Used(prod_tail)
  <2>1. entries'[c] = Slot(u) /\ pc'[c] = "counted" /\ UNCHANGED <<prod_tail, cons_tail>>
    BY <1>1, <1>3 DEF RingCountConsTail, TypeOK, Used
  <2>2. u <= v BY <1>3 DEF RingCountConsTail, Counts
  <2>3. u \in Nat /\ v \in Nat
    <3>1. u \in Index BY <1>1, SubIndex DEF TypeOK, Used
    <3> QED BY <3>1, <1>1, Distances DEF Index
  <2> HIDE DEF u
  <2>4. Slot(u) <= u
    <3>1. u % size_ \in 0..(size_ - 1) /\ u \div size_ \in Int
          /\ u = size_ * (u \div size_) + (u % size_)
      BY <2>3, DivMod, SizeAssumption
    <3>2. u \div size_ >= 0 BY <2>3, SizeAssumption, SMT
    <3>3. size_ * (u \div size_) >= 0 BY <3>1, <3>2, SizeAssumption, SMT
    <3> QED BY <2>3, <3>1, <3>3, SizeAssumption DEF Slot
  <2>5. Slot(u) \in Int BY <2>3, SlotInSlots, SizeAssumption DEF Slots
  <2>6. Slot(u) <= v BY <2>2, <2>3, <2>4, <2>5
  <2> QED BY <2>1, <2>6 DEF Used
<1>4. CASE DoDequeue(c)
  BY <1>1, <1>4 DEF DoDequeue, TypeOK
<1>5. CASE LoadConsHead(c) \/ BoundConsumer(c) \/ MoveConsumerHead(c) \/ RetryConsHead(c)
           \/ DequeueCopy(c) \/ UpdateConsTail(c) \/ Return(c)
  BY <1>1, <1>5 DEF LoadConsHead, BoundConsumer, MoveConsumerHead, RetryConsHead,
     DequeueCopy, UpdateConsTail, Return, TypeOK
<1> QED BY <1>2, <1>3, <1>4, <1>5 DEF ConsumerStep

LEMMA CountsNext == IndInv /\ IndInv' /\ Counts /\ [Next]_vars => Counts'
<1> SUFFICES ASSUME IndInv, IndInv', Counts, [Next]_vars PROVE Counts' OBVIOUS
<1>1. CASE ~single_consumer_ BY <1>1 DEF Counts
<1>2. CASE single_consumer_ /\ Next BY <1>2, CountsProducer, CountsConsumer DEF Next
<1>3. CASE UNCHANGED vars BY <1>3 DEF vars, Counts, Used
<1> QED BY <1>1, <1>2, <1>3

----------------------------------------------------------------------------
\* The invariant of the specification, and what callers are told.

FullInv == IndInv /\ Contents /\ Reports /\ Counts

LEMMA SpecFullInv == Spec => []FullInv
<1>1. Init => Contents /\ Reports /\ Counts
  <2> SUFFICES ASSUME Init PROVE Contents /\ Reports /\ Counts OBVIOUS
  <2>1. \A p \in Producers : obj[p] = <<>> /\ <<>> \in Seq(Items) BY DEF Init, Threads
  <2>2. \A t \in Threads : pc[t] = "idle" BY DEF Init
  <2> QED BY <2>1, <2>2 DEF Contents, Reports, Counts, Claimed, Threads
<1>2. IndInv /\ IndInv' /\ Contents /\ Reports /\ Counts /\ [Next]_vars
        => Contents' /\ Reports' /\ Counts'
  BY ContentsNext, ReportsNext, CountsNext
<1> QED BY <1>1, <1>2, SpecInv, PTL DEF Spec, FullInv

\* *free_space and *available are a number of slots of the ring whenever the
\* call asked for no more than the ring can hold, whatever head it had loaded.
THEOREM ReportsAreSlots == Spec => []ReportInRange
<1>1. FullInv => ReportInRange
  <2> SUFFICES ASSUME FullInv, NEW t \in Threads, pc[t] \in {"publish", "return"},
                      n[t] > 0 \/ max[t] <= capacity_
               PROVE  entries[t] - n[t] \in 0..capacity_
      BY DEF ReportInRange
  <2>1. TypeOK /\ Reports BY DEF FullInv, IndInv
  <2>2. entries[t] \in Nat /\ n[t] \in Nat /\ capacity_ \in Nat
    <3>1. entries \in [Threads -> Index] /\ n \in [Threads -> Index] BY <2>1, Zenon DEF TypeOK
    <3>2. entries[t] \in Index /\ n[t] \in Index BY <3>1
    <3>3. entries[t] \in Nat /\ n[t] \in Nat BY <3>2 DEF Index
    <3> QED BY <2>1, <3>3, Distances
  <2>3. n[t] <= entries[t] /\ entries[t] - n[t] <= capacity_
    BY <2>1, <2>2 DEF Reports, Claimed
  <2> QED BY <2>2, <2>3
<1> QED BY <1>1, SpecFullInv, PTL

\* RingCount tells the only consumer of no element that it cannot take.
THEOREM CountsAreElements == Spec => []CountIsLowerBound
<1>1. FullInv => CountIsLowerBound
  <2> SUFFICES ASSUME FullInv, single_consumer_, NEW c \in Consumers, pc[c] = "counted"
               PROVE  entries[c] <= Sub(prod_tail, cons_head)
      BY DEF CountIsLowerBound
  <2>1. cons_head = cons_tail BY OnlyConsumerIdle DEF FullInv, Claimed
  <2> QED BY <2>1 DEF FullInv, Counts, Used
<1> QED BY <1>1, SpecFullInv, PTL

----------------------------------------------------------------------------
\* The refinement.  A stretch of the ring as a sequence: len slots from the
\* index h on.

Segment(d, h, len) == [k \in 1..len |-> d[Slot(h + k - 1)]]
Values == Items \union {NoItem}

LEMMA SegmentSeq ==
  ASSUME NEW d \in [Slots -> Values], NEW h \in Index, NEW len \in Nat
  PROVE  /\ Segment(d, h, len) \in Seq(Values)
         /\ Len(Segment(d, h, len)) = len
         /\ \A k \in 1..len : Segment(d, h, len)[k] = d[Slot(h + k - 1)]
<1>1. \A k \in 1..len : d[Slot(h + k - 1)] \in Values
  <2> SUFFICES ASSUME NEW k \in 1..len PROVE d[Slot(h + k - 1)] \in Values OBVIOUS
  <2>1. h + k - 1 \in Int BY DEF Index
  <2> QED BY <2>1, SlotInSlots
<1>2. Segment(d, h, len) \in [1..len -> Values] BY <1>1 DEF Segment
<1> QED BY <1>2 DEF Segment

\* The wrap of an index does not move its slot.
LEMMA SlotOfAdd ==
  ASSUME NEW x \in Index, NEW k \in Index, NEW j \in Nat
  PROVE  Slot(Add(x, k) + j) = Slot(x + k + j)
<1> DEFINE K == Modulus \div size_
           s == Add(x, k)
<1>1. size_ \in Nat \ {0} /\ Modulus \in Nat /\ x \in Nat /\ k \in Nat
  BY SizeAssumption DEF Index
<1>2. K \in Nat /\ Modulus = size_ * K
  <2>1. K \in Int /\ Modulus = size_ * K BY DivMod, SizeAssumption
  <2>2. K >= 0 BY SizeAssumption, SMT
  <2> QED BY <2>1, <2>2
<1>3. s \in Nat /\ s = IF x + k < Modulus THEN x + k ELSE x + k - Modulus
  BY AddIndex DEF Index
<1> HIDE DEF s, K
<1>4. CASE s = x + k BY <1>4 DEF s
<1>5. CASE s # x + k
  <2>1. x + k + j = (s + j) + Modulus /\ s + j \in Int BY <1>1, <1>3, <1>5
  <2>2. ((s + j) + size_ * K) % size_ = (s + j) % size_
    BY ONLY <2>1, <1>1, <1>2, ModPeriodic
  <2> QED BY <2>1, <2>2, <1>2 DEF Slot, s
<1> QED BY <1>4, <1>5

\* A stretch is its first a slots followed by the rest.
LEMMA SegmentSplit ==
  ASSUME NEW d \in [Slots -> Values], NEW h \in Index, NEW a \in Index, NEW b \in Nat
  PROVE  /\ Segment(d, h, a + b) = Segment(d, h, a) \o Segment(d, Add(h, a), b)
         /\ SubSeq(Segment(d, h, a + b), 1, a) = Segment(d, h, a)
         /\ SubSeq(Segment(d, h, a + b), a + 1, a + b) = Segment(d, Add(h, a), b)
<1> DEFINE all == Segment(d, h, a + b)
           s == Segment(d, h, a)
           t == Segment(d, Add(h, a), b)
<1>1. a \in Nat /\ a + b \in Nat /\ h \in Nat /\ Add(h, a) \in Index BY AddIndex DEF Index
<1>2. all \in Seq(Values) /\ Len(all) = a + b
      /\ \A k \in 1..(a + b) : all[k] = d[Slot(h + k - 1)]
  BY <1>1, SegmentSeq
<1>3. s \in Seq(Values) /\ Len(s) = a /\ \A k \in 1..a : s[k] = d[Slot(h + k - 1)]
  BY <1>1, SegmentSeq
<1>4. t \in Seq(Values) /\ Len(t) = b /\ \A k \in 1..b : t[k] = d[Slot(Add(h, a) + k - 1)]
  BY <1>1, SegmentSeq
<1>5. ASSUME NEW k \in 1..b PROVE t[k] = d[Slot(h + (a + k) - 1)]
  <2>1. k - 1 \in Nat BY <1>5
  <2>2. Slot(Add(h, a) + (k - 1)) = Slot(h + a + (k - 1)) BY <2>1, SlotOfAdd
  <2>3. h + a + (k - 1) = h + (a + k) - 1 BY <1>1
  <2>4. Add(h, a) + (k - 1) = Add(h, a) + k - 1
    <3>1. Add(h, a) \in Nat BY <1>1 DEF Index
    <3> QED BY <3>1
  <2> QED BY <1>4, <2>2, <2>3, <2>4
<1> HIDE DEF all, s, t
<1>6. all = s \o t
  <2> DEFINE c == s \o t
  <2>1. c \in Seq(Values) /\ Len(c) = a + b
        /\ \A k \in 1..(a + b) : c[k] = IF k <= a THEN s[k] ELSE t[k - a]
    BY <1>3, <1>4, ConcatProperties
  <2> HIDE DEF c
  <2>2. ASSUME NEW k \in 1..(a + b) PROVE all[k] = c[k]
    <3>1. CASE k <= a
      <4>1. k \in 1..a BY <3>1, <1>1
      <4> QED BY <4>1, <3>1, <2>1, <1>2, <1>3
    <3>2. CASE ~(k <= a)
      <4>1. k - a \in 1..b /\ a + (k - a) = k BY <3>2, <1>1
      <4>2. t[k - a] = d[Slot(h + k - 1)] BY <4>1, <1>5
      <4>3. c[k] = t[k - a] BY <3>2, <2>1
      <4> QED BY <4>2, <4>3, <1>2
    <3> QED BY <3>1, <3>2
  <2>3. all = c BY <1>2, <2>1, <2>2, SeqEqual
  <2> QED BY <2>3 DEF c
<1>7. SubSeq(all, 1, a) = s
  <2>1. \A k \in 1..a : all[k] \in Values BY <1>1, <1>2, ElementOfSeq
  <2>2. /\ SubSeq(all, 1, a) \in Seq(Values) /\ Len(SubSeq(all, 1, a)) = a
        /\ \A k \in 1..a : SubSeq(all, 1, a)[k] = all[k]
    BY <2>1, <1>1, SubSeqProperties
  <2>3. \A k \in 1..a : SubSeq(all, 1, a)[k] = s[k] BY <2>2, <1>1, <1>2, <1>3
  <2> QED BY <2>2, <2>3, <1>3, SeqEqual
<1>8. SubSeq(all, a + 1, a + b) = t
  <2> DEFINE u == SubSeq(all, a + 1, a + b)
  <2>1. \A k \in (a + 1)..(a + b) : all[k] \in Values BY <1>1, <1>2, ElementOfSeq
  <2>2. /\ u \in Seq(Values)
        /\ Len(u) = IF a + 1 <= a + b THEN (a + b) - (a + 1) + 1 ELSE 0
        /\ \A k \in 1..((a + b) - (a + 1) + 1) : u[k] = all[(a + 1) + k - 1]
    BY <2>1, <1>1, SubSeqProperties
  <2> HIDE DEF u
  <2>3. Len(u) = b /\ (a + b) - (a + 1) + 1 = b BY <2>2, <1>1
  <2>4. ASSUME NEW k \in 1..b PROVE u[k] = t[k]
    <3>1. (a + 1) + k - 1 = a + k /\ a + k \in 1..(a + b) BY <1>1
    <3>2. u[k] = all[a + k] BY <3>1, <2>2, <2>3
    <3> QED BY <3>1, <3>2, <1>2, <1>5
  <2> QED BY <2>2, <2>3, <2>4, <1>4, SeqEqual DEF u
<1> QED BY <1>6, <1>7, <1>8 DEF all, s, t

\* A write outside a stretch does not change it.
LEMMA SegmentFrame ==
  ASSUME NEW d, NEW e, NEW h, NEW len,
         \A k \in 1..len : e[Slot(h + k - 1)] = d[Slot(h + k - 1)]
  PROVE  Segment(e, h, len) = Segment(d, h, len)
  BY DEF Segment

LEMMA AddSub == ASSUME NEW a \in Index, NEW b \in Index PROVE Add(b, Sub(a, b)) = a
<1> DEFINE k == Sub(a, b)
<1>1. k \in Index /\ k = IF a >= b THEN a - b ELSE a - b + Modulus BY SubIndex
<1> HIDE DEF k
<1>2. Add(b, k) = IF b + k < Modulus THEN b + k ELSE b + k - Modulus BY <1>1, AddIndex
<1>3. Add(b, k) = a BY <1>1, <1>2, SizeAssumption DEF Index
<1> QED BY <1>3 DEF k

\* How many elements are published, and what the mapped variables are.
Ready == Sub(prod_tail, cons_head)

LEMMA ReadyElements ==
  ASSUME IndInv
  PROVE  /\ Ready \in Index /\ Ready \in Nat
         /\ Ready = Used(prod_tail) - Used(cons_head)
         /\ Add(cons_head, Ready) = prod_tail
         /\ Room \in Nat /\ Room <= capacity_
<1>1. TypeOK /\ IndexOrder BY DEF IndInv, IndexInv
<1>2. prod_tail \in Index /\ cons_head \in Index BY <1>1 DEF TypeOK
<1>3. Ready \in Index BY <1>2, SubIndex DEF Ready
<1>4. Add(cons_head, Ready) = prod_tail BY <1>2, AddSub DEF Ready
<1>5. Ready = Used(prod_tail) - Used(cons_head)
  BY <1>1, SubDifference DEF TypeOK, Used, IndexOrder, Ready
<1>6. Room \in Nat /\ Room <= capacity_ BY <1>1, Distances DEF Room, IndexOrder
<1> QED BY <1>3, <1>4, <1>5, <1>6 DEF Index

LEMMA PublishedSegment ==
  /\ Published = Segment(data_, cons_head, Ready)
  /\ Published' = Segment(data_', cons_head', Ready')
  BY DEF Published, Segment, Ready

\* Steps that move no index and write no slot change nothing but what a
\* returning DoDequeue delivers.
LEMMA MapFrame ==
  ASSUME UNCHANGED Indices, UNCHANGED data_,
         \A t \in Threads : Claimed(t)' <=> Claimed(t),
         \A t \in Threads : Claimed(t) => old_head'[t] = old_head[t] /\ n'[t] = n[t],
         \A p \in Producers : Claimed(p) => obj'[p] = obj[p]
  PROVE  UNCHANGED <<Published, Room, Reserved, Taken>>
<1> USE DEF Threads, Indices
<1>1. Published' = Published BY DEF Published
<1>2. Room' = Room BY DEF Room, Used
<1>3. Reserved' = Reserved BY DEF Reserved
<1>4. Taken' = Taken BY DEF Taken
<1> QED BY <1>1, <1>2, <1>3, <1>4

LEMMA MapInit == Init => Abstract!Init
<1> SUFFICES ASSUME Init PROVE Abstract!Init OBVIOUS
<1>1. TypeOK BY InitInv DEF IndInv
<1>2. Used(prod_head) = 0 /\ Ready = 0 BY <1>1, SubZero DEF Init, Used, Ready, TypeOK
<1>3. Published = <<>> BY <1>2 DEF Published, Ready
<1>4. Room = capacity_ BY <1>2, Capacity DEF Room, Index
<1>5. Reserved = [p \in Producers |-> <<>>] BY DEF Init, Reserved, Claimed, Threads
<1>6. Taken = [c \in Consumers |-> <<>>] BY DEF Init, Taken, Claimed, Threads
<1>7. Delivered = [c \in Consumers |-> <<>>] BY DEF Init, Delivered, Threads
<1> QED BY <1>3, <1>4, <1>5, <1>6, <1>7 DEF Abstract!Init

\* Calls, loads, bounds, retries, RingCount and the copying of a consumer.
LEMMA MapQuiet ==
  ASSUME IndInv, NEW t \in Threads,
         \/ /\ t \in Producers
            /\ DoEnqueue(t) \/ LoadProdHead(t) \/ BoundProducer(t) \/ RetryProdHead(t) \/ Return(t)
         \/ /\ t \in Consumers
            /\ \/ DoDequeue(t) \/ LoadConsHead(t) \/ BoundConsumer(t) \/ RetryConsHead(t)
               \/ DequeueCopy(t) \/ RingCountProdTail(t) \/ RingCountConsTail(t)
  PROVE  UNCHANGED Abstract!vars
<1> USE ThreadsAssumption DEF Threads, ringVars, locals, Goto
<1>1. TypeOK /\ CopyBounds BY DEF IndInv, IndexInv
<1>2. UNCHANGED Indices /\ UNCHANGED data_
  BY DEF DoEnqueue, LoadProdHead, BoundProducer, RetryProdHead, Return, DoDequeue, LoadConsHead,
     BoundConsumer, RetryConsHead, DequeueCopy, RingCountProdTail, RingCountConsTail, Indices
<1>3. CASE /\ t \in Producers
           /\ DoEnqueue(t) \/ LoadProdHead(t) \/ BoundProducer(t) \/ RetryProdHead(t) \/ Return(t)
  <2>1. /\ \A u \in Threads : Claimed(u)' <=> Claimed(u)
        /\ \A u \in Threads : Claimed(u) => old_head'[u] = old_head[u] /\ n'[u] = n[u]
        /\ \A p \in Producers : Claimed(p) => obj'[p] = obj[p]
    BY <1>1, <1>3 DEF DoEnqueue, LoadProdHead, BoundProducer, RetryProdHead, Return, Claimed, TypeOK
  <2>2. \A c \in Consumers : pc'[c] = pc[c] /\ obj'[c] = obj[c]
    BY <1>1, <1>3 DEF DoEnqueue, LoadProdHead, BoundProducer, RetryProdHead, Return, TypeOK
  <2>3. Delivered' = Delivered BY <2>2 DEF Delivered
  <2> QED BY <1>2, <2>1, <2>3, MapFrame DEF Abstract!vars
<1>4. CASE /\ t \in Consumers
           /\ \/ DoDequeue(t) \/ LoadConsHead(t) \/ BoundConsumer(t) \/ RetryConsHead(t)
              \/ DequeueCopy(t) \/ RingCountProdTail(t) \/ RingCountConsTail(t)
  <2>1. /\ \A u \in Threads : Claimed(u)' <=> Claimed(u)
        /\ \A u \in Threads : Claimed(u) => old_head'[u] = old_head[u] /\ n'[u] = n[u]
        /\ \A p \in Producers : obj'[p] = obj[p]
    BY <1>1, <1>4 DEF DoDequeue, LoadConsHead, BoundConsumer, RetryConsHead, DequeueCopy,
       RingCountProdTail, RingCountConsTail, Claimed, TypeOK
  <2>2. \A c \in Consumers \ {t} : pc'[c] = pc[c] /\ obj'[c] = obj[c]
    BY <1>1, <1>4 DEF DoDequeue, LoadConsHead, BoundConsumer, RetryConsHead, DequeueCopy,
       RingCountProdTail, RingCountConsTail, TypeOK
  \* A DoDequeue that finds nothing returns with nothing.
  <2>3. pc[t] # "return" /\ (pc'[t] = "return" => obj'[t] = <<>>)
    <3>1. CASE BoundConsumer(t)
      <4>1. Len(obj[t]) = 0 BY <1>4, <3>1 DEF BoundConsumer, IndInv, IndexInv, CopyBounds
      <4>2. obj[t] = <<>> BY <4>1, <1>1, EmptySeq DEF TypeOK
      <4> QED BY <4>2, <3>1 DEF BoundConsumer
    <3>2. CASE \/ DoDequeue(t) \/ LoadConsHead(t) \/ RetryConsHead(t)
               \/ DequeueCopy(t) \/ RingCountProdTail(t) \/ RingCountConsTail(t)
      BY <1>1, <3>2 DEF DoDequeue, LoadConsHead, RetryConsHead, DequeueCopy,
         RingCountProdTail, RingCountConsTail, TypeOK
    <3> QED BY <1>4, <3>1, <3>2
  <2>4. Delivered' = Delivered BY <2>2, <2>3 DEF Delivered
  <2> QED BY <1>2, <2>1, <2>4, MapFrame DEF Abstract!vars
<1> QED BY <1>3, <1>4

\* A producer writes only inside its own claim, which nobody else sees.
LEMMA MapEnqueueCopy ==
  ASSUME IndInv, NEW p \in Producers, EnqueueCopy(p)
  PROVE  UNCHANGED Abstract!vars
<1> USE ThreadsAssumption DEF Threads
<1> DEFINE s == Slot(old_head[p] + i[p])
           v == obj[p][i[p] + 1]
<1>1. TypeOK /\ CopyBounds /\ IndexOrder /\ ClaimBounds BY DEF IndInv, IndexInv
<1>2. /\ Claimed(p) /\ i[p] \in 0..(n[p] - 1) /\ i[p] \in Nat /\ n[p] \in Nat
      /\ UNCHANGED <<prod_head, prod_tail, cons_head, cons_tail, obj, old_head, n>>
      /\ data_' = [data_ EXCEPT ![s] = v]
      /\ \A u \in Threads : Claimed(u)' <=> Claimed(u)
      /\ \A c \in Consumers : pc'[c] = pc[c]
  BY <1>1 DEF EnqueueCopy, Goto, Claimed, TypeOK, CopyBounds, Index
<1>3. data_ \in [Slots -> Values] BY <1>1 DEF TypeOK, Values
<1>4. Room' = Room /\ Reserved' = Reserved /\ Delivered' = Delivered
  BY <1>2 DEF Room, Used, Reserved, Delivered
<1>5. Published' = Published
  <2>1. \A k \in 1..Ready : Slot(cons_head + k - 1) # s
    <3> SUFFICES ASSUME NEW k \in 1..Ready PROVE Slot(cons_head + k - 1) # s OBVIOUS
    <3> DEFINE x == Used(cons_head) + k - 1
               y == Used(old_head[p]) + i[p]
    <3>1. /\ Used(cons_head) \in Nat /\ Used(prod_tail) \in Nat /\ Used(old_head[p]) \in Nat
          /\ Ready \in Nat /\ Ready = Used(prod_tail) - Used(cons_head) /\ capacity_ \in Nat
      BY <1>1, Distances, ReadyElements
    <3>2. Used(prod_tail) <= Used(old_head[p]) /\ Used(old_head[p]) + n[p] <= capacity_
      BY <1>1, <1>2, ClaimBelowCapacity DEF ClaimBounds
    <3>3. x \in Nat /\ y \in Nat /\ x < y /\ y < capacity_ BY <3>1, <3>2, <1>2
    <3>4. cons_head \in Index /\ old_head[p] \in Index /\ cons_tail \in Nat /\ k - 1 \in Nat
      BY <1>1 DEF TypeOK, Index
    <3>5. Slot(cons_head + (k - 1)) = Slot(cons_tail + Used(cons_head) + (k - 1))
      BY <1>1, <3>4, SlotOfDistance
    <3>6. s = Slot(cons_tail + Used(old_head[p]) + i[p])
      BY <1>1, <1>2, <3>4, SlotOfDistance
    <3>7. /\ cons_tail + Used(cons_head) + (k - 1) = cons_tail + x
          /\ cons_tail + Used(old_head[p]) + i[p] = cons_tail + y
          /\ cons_head + k - 1 = cons_head + (k - 1)
      BY <1>2, <3>1, <3>4 DEF Index
    <3> HIDE DEF x, y
    <3>8. size_ \in Nat \ {0} /\ capacity_ < size_ BY SizeAssumption, Capacity
    <3>9. /\ cons_tail + x \in Int /\ cons_tail + y \in Int /\ cons_tail + x # cons_tail + y
          /\ (cons_tail + y) - (cons_tail + x) \in (1 - size_)..(size_ - 1)
      BY <3>1, <3>3, <3>4, <3>8
    <3>10. (cons_tail + x) % size_ # (cons_tail + y) % size_
      BY ONLY <3>8, <3>9, ModInjective
    <3> QED BY <3>5, <3>6, <3>7, <3>10 DEF Slot
  <2>2. cons_head' = cons_head /\ Ready' = Ready BY <1>2 DEF Ready
  <2> HIDE DEF s, v
  <2>3. \A k \in 1..Ready : data_'[Slot(cons_head + k - 1)] = data_[Slot(cons_head + k - 1)]
    <3> SUFFICES ASSUME NEW k \in 1..Ready
                 PROVE  data_'[Slot(cons_head + k - 1)] = data_[Slot(cons_head + k - 1)]
        OBVIOUS
    <3>1. cons_head + k - 1 \in Int BY <1>1 DEF TypeOK, Index
    <3> QED BY <2>1, <3>1, <1>2, <1>3, SlotInSlots
  <2>4. Segment(data_', cons_head, Ready) = Segment(data_, cons_head, Ready)
    BY <2>3, SegmentFrame
  <2> QED BY <2>2, <2>4, PublishedSegment
<1>6. Taken' = Taken
  <2>1. ASSUME NEW c \in Consumers, Claimed(c), NEW k \in 1..n[c]
        PROVE  data_'[Slot(old_head[c] + k - 1)] = data_[Slot(old_head[c] + k - 1)]
    <3>1. n[c] \in Nat /\ old_head[c] \in Nat BY <1>1 DEF TypeOK, Index
    <3>2. k - 1 \in 0..(n[c] - 1) /\ old_head[c] + (k - 1) = old_head[c] + k - 1
          /\ old_head[c] + k - 1 \in Int
      BY <3>1
    <3>3. Slot(old_head[c] + (k - 1)) # s BY <2>1, <1>2, <3>2, SlotsDiffer
    <3>4. Slot(old_head[c] + k - 1) \in Slots BY <3>2, SlotInSlots
    <3> QED BY <3>2, <3>3, <3>4, <1>2, <1>3
  <2>2. ASSUME NEW c \in Consumers
        PROVE  (IF Claimed(c)' THEN [k \in 1..n'[c] |-> data_'[Slot(old_head'[c] + k - 1)]] ELSE <<>>)
             = (IF Claimed(c) THEN [k \in 1..n[c] |-> data_[Slot(old_head[c] + k - 1)]] ELSE <<>>)
    BY <2>1, <1>2
  <2> QED BY <2>2 DEF Taken
<1> QED BY <1>4, <1>5, <1>6 DEF Abstract!vars

\* The claim of a producer reserves room for the part of the batch it claimed.
LEMMA MapReserve ==
  ASSUME FullInv, NEW p \in Producers, MoveProdHead(p)
  PROVE  Abstract!Reserve(p)
<1> USE ThreadsAssumption DEF Threads
<1> DEFINE batch == SubSeq(obj[p], 1, n[p])
<1>1. /\ TypeOK /\ Claims /\ PendingBounds /\ CopyBounds /\ IndInv /\ obj[p] \in Seq(Items)
  BY IndexInvParts DEF FullInv, IndInv, Contents
<1>2. /\ n[p] >= 1 /\ Used(prod_head) + n[p] <= capacity_
      /\ Used(prod_head)' = Used(prod_head) + n[p]
  BY <1>1, ProducerClaims
<1>3. n[p] \in Nat /\ Used(prod_head) \in Nat /\ capacity_ \in Nat BY <1>1, Distances
<1>4. n[p] <= Len(obj[p]) /\ Len(obj[p]) \in Nat BY <1>1 DEF CopyBounds
<1>5. batch \in [1..n[p] -> Items] /\ Len(batch) = n[p]
  <2>1. \A k \in 1..n[p] : obj[p][k] \in Items BY <1>1, <1>3, <1>4, ElementOfSeq
  <2>2. batch \in Seq(Items) /\ Len(batch) = n[p]
    BY <2>1, <1>2, <1>3, SubSeqProperties
  <2> QED BY <2>2, LenProperties
<1> HIDE DEF batch
<1>6. batch # <<>> BY <1>2, <1>3, <1>5, EmptySeq
<1>7. n[p] \in 0..capacity_ BY <1>2, <1>3
<1>8. batch \in Abstract!Batches
  BY <1>5, <1>6, <1>7 DEF Abstract!Batches, Abstract!BoundedSeq, Abstract!SeqOf, BoundedSeq, SeqOf
<1>9. /\ pc[p] = "move" /\ pc' = [pc EXCEPT ![p] = "copy"]
      /\ UNCHANGED <<prod_tail, cons_head, cons_tail, data_, obj, n, old_head>>
  BY DEF MoveProdHead, Goto, locals
<1>10. \A t \in Threads : Claimed(t)' <=> (Claimed(t) \/ t = p)
  BY <1>1, <1>9 DEF Claimed, TypeOK
<1>11. Reserved[p] = <<>> BY <1>9 DEF Reserved, Claimed
<1>12. Len(batch) <= Room /\ Room' = Room - Len(batch)
  BY <1>2, <1>3, <1>5 DEF Room
<1>13. Reserved' = [Reserved EXCEPT ![p] = batch]
  BY <1>9, <1>10 DEF Reserved, batch
<1>14. Published' = Published BY <1>9 DEF Published
<1>15. Taken' = Taken BY <1>9, <1>10 DEF Taken
<1>16. \A c \in Consumers : pc'[c] = pc[c] BY <1>1, <1>9 DEF TypeOK
<1>17. Delivered' = Delivered BY <1>9, <1>16 DEF Delivered
<1> QED
  BY <1>8, <1>11, <1>12, <1>13, <1>14, <1>15, <1>17 DEF Abstract!Reserve, Abstract!ReserveBatch

\* UpdateTail makes the oldest claim visible, whole and in order.
LEMMA MapPublish ==
  ASSUME FullInv, NEW p \in Producers, UpdateProdTail(p)
  PROVE  Abstract!Publish(p)
<1> USE ThreadsAssumption DEF Threads
<1> DEFINE batch == SubSeq(obj[p], 1, n[p])
<1>1. /\ TypeOK /\ Claims /\ PendingBounds /\ CopyBounds /\ IndInv /\ Contents
      /\ IndexOrder /\ ClaimBounds
  BY IndexInvParts DEF FullInv, IndInv, IndexInv
<1>2. /\ Claimed(p) /\ n[p] >= 1 /\ old_head[p] = prod_tail
      /\ Used(old_head[p]) + n[p] <= Used(prod_head)
      /\ Used(prod_tail)' = Used(prod_tail) + n[p]
  BY <1>1, ProducerPublishes
<1>3. /\ pc[p] = "publish" /\ pc' = [pc EXCEPT ![p] = "return"]
      /\ prod_tail' = Add(old_head[p], n[p])
      /\ UNCHANGED <<prod_head, cons_head, cons_tail, data_, obj, n, old_head>>
  BY DEF UpdateProdTail, Goto, locals
<1>4. /\ n[p] \in Nat /\ n[p] \in Index /\ Ready \in Index /\ Ready \in Nat
      /\ cons_head \in Index /\ prod_tail \in Index /\ data_ \in [Slots -> Values]
      /\ Add(cons_head, Ready) = prod_tail
  BY <1>1, ReadyElements, Distances DEF TypeOK, Values
<1>5. Ready' = Ready + n[p]
  <2>1. /\ Used(cons_head) \in Nat /\ Used(prod_tail) \in Nat /\ Used(prod_head) \in Nat
        /\ capacity_ \in Nat /\ capacity_ < Modulus /\ Modulus \in Nat
    BY <1>1, Distances, SizeAssumption
  <2>2. Ready = Used(prod_tail) - Used(cons_head) BY <1>1, ReadyElements
  <2>3. Ready + n[p] < Modulus BY <1>1, <1>2, <1>4, <2>1, <2>2 DEF IndexOrder
  <2>4. Sub(Add(prod_tail, n[p]), cons_head) = Sub(prod_tail, cons_head) + n[p]
    BY <1>4, <2>3, SubOfAdd DEF Ready
  <2> QED BY <1>2, <1>3, <2>4 DEF Ready
\* The slots hold the batch: the copy is complete.
<1>6. Segment(data_, prod_tail, n[p]) = batch
  <2>1. i[p] = n[p] BY <1>1, <1>3 DEF CopyBounds
  <2>2. ASSUME NEW k \in 1..n[p] PROVE data_[Slot(prod_tail + k - 1)] = obj[p][k]
    <3>1. k - 1 \in 0..(i[p] - 1) /\ (k - 1) + 1 = k BY <1>4, <2>1
    <3>2. data_[Slot(old_head[p] + (k - 1))] = obj[p][(k - 1) + 1]
      BY <3>1, <1>1, <1>2 DEF Contents
    <3>3. prod_tail + (k - 1) = prod_tail + k - 1 BY <1>4 DEF Index
    <3> QED BY <3>1, <3>2, <3>3, <1>2
  <2>3. \A k \in 1..n[p] : obj[p][k] \in Values
    <3>1. obj[p] \in Seq(Values) /\ n[p] <= Len(obj[p]) /\ Len(obj[p]) \in Nat
      BY <1>1 DEF TypeOK, CopyBounds, Values
    <3> QED BY <3>1, <1>4, ElementOfSeq
  <2>4. /\ batch \in Seq(Values) /\ Len(batch) = n[p]
        /\ \A k \in 1..n[p] : batch[k] = obj[p][k]
    BY <2>3, <1>2, <1>4, SubSeqProperties
  <2>5. /\ Segment(data_, prod_tail, n[p]) \in Seq(Values)
        /\ Len(Segment(data_, prod_tail, n[p])) = n[p]
        /\ \A k \in 1..n[p] : Segment(data_, prod_tail, n[p])[k] = data_[Slot(prod_tail + k - 1)]
    BY <1>4, SegmentSeq
  <2> HIDE DEF batch
  <2> QED BY <2>2, <2>4, <2>5, SeqEqual
<1>7. Reserved[p] = batch BY <1>2 DEF Reserved
<1>8. batch # <<>>
  <2>1. Len(Segment(data_, prod_tail, n[p])) = n[p] BY <1>4, SegmentSeq
  <2>2. Len(batch) >= 1 BY <2>1, <1>2, <1>6
  <2> HIDE DEF batch
  <2> QED BY <2>2, EmptySeq
<1> HIDE DEF batch
<1>9. Published' = Published \o batch
  <2>1. data_ \in [Slots -> Values] /\ cons_head \in Index /\ Ready \in Index /\ n[p] \in Nat
    BY <1>4
  <2>2. Segment(data_, cons_head, Ready + n[p])
          = Segment(data_, cons_head, Ready) \o Segment(data_, Add(cons_head, Ready), n[p])
    BY ONLY <2>1, SegmentSplit
  <2> QED BY <2>2, <1>3, <1>4, <1>5, <1>6, PublishedSegment
<1>10. \A t \in Threads : Claimed(t)' <=> (Claimed(t) /\ t # p)
  BY <1>1, <1>3 DEF Claimed, TypeOK
<1>11. Reserved' = [Reserved EXCEPT ![p] = <<>>] BY <1>3, <1>10 DEF Reserved
<1>12. Room' = Room BY <1>3 DEF Room, Used
<1>13. Taken' = Taken BY <1>3, <1>10 DEF Taken
<1>14. \A c \in Consumers : pc'[c] = pc[c] BY <1>1, <1>3 DEF TypeOK
<1>15. Delivered' = Delivered BY <1>3, <1>14 DEF Delivered
<1> QED
  BY <1>7, <1>8, <1>9, <1>11, <1>12, <1>13, <1>15 DEF Abstract!Publish

\* The claim of a consumer takes the oldest elements.
LEMMA MapTake ==
  ASSUME FullInv, NEW c \in Consumers, MoveConsumerHead(c)
  PROVE  Abstract!Take(c)
<1> USE ThreadsAssumption DEF Threads
<1> DEFINE m == n[c]
           rest == Ready - m
<1>1. TypeOK /\ Claims /\ PendingBounds /\ IndInv /\ IndexOrder
  BY IndexInvParts DEF FullInv, IndInv, IndexInv
<1>2. /\ old_head[c] = cons_head
      /\ m >= 1 /\ Used(cons_head) + m <= Used(prod_tail)
  BY <1>1, ConsumerClaims
<1>3. /\ pc[c] = "move" /\ pc' = [pc EXCEPT ![c] = "copy"]
      /\ cons_head' = Add(cons_head, m)
      /\ UNCHANGED <<prod_head, prod_tail, cons_tail, data_, obj, n, old_head>>
  BY <1>2 DEF MoveConsumerHead, Goto, locals
<1>4. /\ m \in Nat /\ m \in Index /\ Ready \in Index /\ Ready \in Nat
      /\ cons_head \in Index /\ prod_tail \in Index /\ data_ \in [Slots -> Values]
      /\ Used(cons_head) \in Nat /\ Used(prod_tail) \in Nat
      /\ Ready = Used(prod_tail) - Used(cons_head)
  BY <1>1, ReadyElements, Distances DEF TypeOK, Values
<1>5. m <= Ready /\ rest \in Nat /\ m + rest = Ready BY <1>2, <1>4
<1>6. Ready' = rest
  <2>1. Sub(prod_tail, Add(cons_head, m)) = Sub(prod_tail, cons_head) - m
    BY <1>4, <1>5, SubFromAdd DEF Ready
  <2> QED BY <2>1, <1>3 DEF Ready
<1> HIDE DEF m, rest
<1>7. /\ SubSeq(Published, 1, m) = Segment(data_, cons_head, m)
      /\ SubSeq(Published, m + 1, Len(Published)) = Published'
      /\ Len(Published) = Ready
  <2>1. Published = Segment(data_, cons_head, m + rest) BY <1>5, PublishedSegment
  <2>2. Published' = Segment(data_, Add(cons_head, m), rest) BY <1>3, <1>6, PublishedSegment
  <2>3. Len(Published) = Ready BY <2>1, <1>4, <1>5, SegmentSeq
  <2>4. /\ SubSeq(Segment(data_, cons_head, m + rest), 1, m) = Segment(data_, cons_head, m)
        /\ SubSeq(Segment(data_, cons_head, m + rest), m + 1, m + rest)
             = Segment(data_, Add(cons_head, m), rest)
    <3>1. data_ \in [Slots -> Values] /\ cons_head \in Index /\ m \in Index /\ rest \in Nat
      BY <1>4, <1>5
    <3> QED BY ONLY <3>1, SegmentSplit
  <2> QED BY <2>1, <2>2, <2>3, <2>4, <1>5
<1>8. \A t \in Threads : Claimed(t)' <=> (Claimed(t) \/ t = c)
  BY <1>1, <1>3 DEF Claimed, TypeOK
<1>9. Taken[c] = <<>> BY <1>3 DEF Taken, Claimed
<1>10. Taken' = [Taken EXCEPT ![c] = SubSeq(Published, 1, m)]
  <2>1. SubSeq(Published, 1, m) = [k \in 1..n[c] |-> data_[Slot(old_head[c] + k - 1)]]
    BY <1>2, <1>7 DEF Segment, m
  <2> QED BY <2>1, <1>3, <1>8 DEF Taken
<1>11. Room' = Room BY <1>3 DEF Room, Used
<1>12. Reserved' = Reserved BY <1>3, <1>8 DEF Reserved
<1>13. \A d \in Consumers : (pc'[d] = "return") <=> (pc[d] = "return")
  BY <1>1, <1>3 DEF TypeOK
<1>14. Delivered' = Delivered BY <1>3, <1>13 DEF Delivered
<1>15. m \in 1..Len(Published) BY <1>2, <1>4, <1>5, <1>7 DEF m
<1>16. Abstract!TakeFirst(c, m)
  BY <1>7, <1>9, <1>10, <1>11, <1>12, <1>14 DEF Abstract!TakeFirst
<1> QED BY <1>15, <1>16 DEF Abstract!Take

\* The release hands over what was taken, and its room may be reserved again.
LEMMA MapRelease ==
  ASSUME FullInv, NEW c \in Consumers, UpdateConsTail(c)
  PROVE  Abstract!Release(c)
<1> USE ThreadsAssumption DEF Threads
<1> DEFINE batch == Segment(data_, old_head[c], n[c])
<1>1. /\ TypeOK /\ Claims /\ PendingBounds /\ CopyBounds /\ IndInv /\ Contents /\ IndexOrder
  BY IndexInvParts DEF FullInv, IndInv, IndexInv
<1>2. /\ Claimed(c) /\ n[c] >= 1 /\ n[c] <= Used(cons_head)
      /\ \A x \in Index : n[c] <= Used(x) => Sub(x, cons_tail') = Used(x) - n[c]
  BY <1>1, ConsumerReleases
<1>3. /\ pc[c] = "publish" /\ pc' = [pc EXCEPT ![c] = "return"]
      /\ UNCHANGED <<prod_head, prod_tail, cons_head, data_, obj, n, old_head>>
  BY DEF UpdateConsTail, Goto, locals
<1>4. /\ n[c] \in Nat /\ old_head[c] \in Index /\ prod_head \in Index
      /\ data_ \in [Slots -> Values]
      /\ Used(cons_head) \in Nat /\ Used(prod_tail) \in Nat /\ Used(prod_head) \in Nat
      /\ capacity_ \in Nat
  BY <1>1, Distances DEF TypeOK, Values
<1>5. batch \in Seq(Values) /\ Len(batch) = n[c]
      /\ \A k \in 1..n[c] : batch[k] = data_[Slot(old_head[c] + k - 1)]
  BY <1>4, SegmentSeq
<1>6. Taken[c] = batch BY <1>2 DEF Taken, Segment
\* The caller's array holds the slots: the copy is complete.
<1>7. obj[c] = batch
  <2>1. i[c] = n[c] /\ Len(obj[c]) = n[c] /\ obj[c] \in Seq(Values)
    BY <1>1, <1>3 DEF CopyBounds, TypeOK, Values
  <2>2. ASSUME NEW k \in 1..n[c] PROVE obj[c][k] = data_[Slot(old_head[c] + k - 1)]
    <3>1. k - 1 \in 0..(i[c] - 1) /\ (k - 1) + 1 = k BY <1>4, <2>1
    <3>2. obj[c][(k - 1) + 1] = data_[Slot(old_head[c] + (k - 1))]
      BY <3>1, <1>1, <1>2 DEF Contents
    <3>3. old_head[c] + (k - 1) = old_head[c] + k - 1 BY <1>4 DEF Index
    <3> QED BY <3>1, <3>2, <3>3
  <2> HIDE DEF batch
  <2> QED BY <2>1, <2>2, <1>5, SeqEqual
<1> HIDE DEF batch
<1>8. batch # <<>> BY <1>2, <1>5, EmptySeq
<1>9. \A t \in Threads : Claimed(t)' <=> (Claimed(t) /\ t # c)
  BY <1>1, <1>3 DEF Claimed, TypeOK
<1>10. Delivered' = [Delivered EXCEPT ![c] = Taken[c]]
  BY <1>1, <1>3, <1>6, <1>7 DEF Delivered, TypeOK
<1>11. Taken' = [Taken EXCEPT ![c] = <<>>] BY <1>3, <1>9 DEF Taken
<1>12. Room' = Room + Len(Taken[c])
  <2>1. n[c] <= Used(prod_head) BY <1>1, <1>2, <1>4 DEF IndexOrder
  <2>2. Sub(prod_head, cons_tail') = Used(prod_head) - n[c] BY <2>1, <1>2, <1>4
  <2>3. Room' = capacity_ - (Used(prod_head) - n[c]) BY <2>2, <1>3 DEF Room, Used
  <2> QED BY <2>3, <1>4, <1>5, <1>6 DEF Room
<1>13. Published' = Published BY <1>3 DEF Published
<1>14. Reserved' = Reserved BY <1>3, <1>9 DEF Reserved
<1> QED
  BY <1>6, <1>8, <1>10, <1>11, <1>12, <1>13, <1>14 DEF Abstract!Release

\* DoDequeue returns to its caller.
LEMMA MapReturn ==
  ASSUME IndInv, NEW c \in Consumers, Return(c)
  PROVE  Abstract!Return(c) \/ UNCHANGED Abstract!vars
<1> USE ThreadsAssumption DEF Threads
<1>1. TypeOK BY DEF IndInv
<1>2. /\ pc[c] \in {"return", "counted"} /\ pc' = [pc EXCEPT ![c] = "idle"]
      /\ obj' = [obj EXCEPT ![c] = <<>>]
      /\ UNCHANGED Indices /\ UNCHANGED data_
      /\ \A t \in Threads \ {c} : n'[t] = n[t] /\ old_head'[t] = old_head[t] /\ obj'[t] = obj[t]
  BY <1>1 DEF Return, Goto, ringVars, Indices, TypeOK
<1>3. \A t \in Threads : (Claimed(t)' <=> Claimed(t)) /\ (Claimed(t) => t # c)
  BY <1>1, <1>2 DEF Claimed, TypeOK
<1>4. UNCHANGED <<Published, Room, Reserved, Taken>> BY <1>2, <1>3, MapFrame
<1>5. Delivered' = [Delivered EXCEPT ![c] = <<>>]
  BY <1>1, <1>2 DEF Delivered, TypeOK
<1>6. CASE Delivered[c] = <<>>
  <2>1. Delivered' = Delivered BY <1>5, <1>6 DEF Delivered
  <2> QED BY <1>4, <2>1 DEF Abstract!vars
<1>7. CASE Delivered[c] # <<>> BY <1>4, <1>5, <1>7 DEF Abstract!Return
<1> QED BY <1>6, <1>7

LEMMA MapStep == FullInv /\ [Next]_vars => [Abstract!Next]_Abstract!vars
<1> SUFFICES ASSUME FullInv, [Next]_vars PROVE Abstract!Next \/ UNCHANGED Abstract!vars
  OBVIOUS
<1>1. IndInv BY DEF FullInv
<1>2. ASSUME NEW p \in Producers, DoEnqueue(p) \/ ProducerStep(p)
      PROVE  Abstract!Next \/ UNCHANGED Abstract!vars
  <2>1. CASE \/ DoEnqueue(p) \/ LoadProdHead(p) \/ BoundProducer(p)
             \/ RetryProdHead(p) \/ Return(p)
    BY <2>1, <1>1, MapQuiet DEF Threads
  <2>2. CASE MoveProdHead(p) BY <2>2, MapReserve DEF Abstract!Next
  <2>3. CASE EnqueueCopy(p) BY <2>3, <1>1, MapEnqueueCopy
  <2>4. CASE UpdateProdTail(p) BY <2>4, MapPublish DEF Abstract!Next
  <2> QED BY <1>2, <2>1, <2>2, <2>3, <2>4 DEF ProducerStep
<1>3. ASSUME NEW c \in Consumers, DoDequeue(c) \/ RingCountProdTail(c) \/ ConsumerStep(c)
      PROVE  Abstract!Next \/ UNCHANGED Abstract!vars
  <2>1. CASE \/ DoDequeue(c) \/ LoadConsHead(c) \/ BoundConsumer(c) \/ RetryConsHead(c)
             \/ DequeueCopy(c) \/ RingCountProdTail(c) \/ RingCountConsTail(c)
    BY <2>1, <1>1, MapQuiet DEF Threads
  <2>2. CASE MoveConsumerHead(c) BY <2>2, MapTake DEF Abstract!Next
  <2>3. CASE UpdateConsTail(c) BY <2>3, MapRelease DEF Abstract!Next
  <2>4. CASE Return(c) BY <2>4, <1>1, MapReturn DEF Abstract!Next
  <2> QED BY <1>3, <2>1, <2>2, <2>3, <2>4 DEF ConsumerStep
<1>4. CASE UNCHANGED vars
  BY <1>4 DEF vars, Abstract!vars, Published, Room, Reserved, Taken, Delivered, Claimed, Used
<1> QED BY <1>2, <1>3, <1>4 DEF Next

\* The ring implements the bounded FIFO of batches, for any number of threads
\* on either side, any power-of-two size, any index width and any batches:
\* nothing is lost, duplicated, torn or reordered.
THEOREM RingImplements == Spec => RefinesRingQueue
<1>1. FullInv /\ [Next]_vars => [Abstract!Next]_Abstract!vars BY MapStep
<1> QED BY MapInit, <1>1, SpecFullInv, PTL DEF Spec, RefinesRingQueue, Abstract!Spec
====
