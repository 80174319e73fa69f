---- MODULE RingQueue ----
(***************************************************************************)
(* What the ring of src/buffer_ring.h promises to its callers: a bounded   *)
(* FIFO queue of batches.  DoEnqueue reserves room for a batch, fills it   *)
(* in private and publishes it in one step, contiguous and in order;       *)
(* DoDequeue takes the oldest elements, hands them over, and only then     *)
(* gives their room back.  No index, slot or compare-and-swap appears      *)
(* here: BuffRing implements this module (runs ring_mpsc and ring_mpmc).   *)
(***************************************************************************)
EXTENDS Integers, Sequences, SequencesExt

CONSTANTS Producers, Consumers, Items, Capacity

VARIABLES queue,     \* published elements, oldest first
          room,      \* how many more elements may be reserved
          reserved,  \* per producer: the claimed, unpublished batch
          taken,     \* per consumer: the claimed, unreleased batch
          out        \* per consumer: the batch a returning DoDequeue delivers

vars == <<queue, room, reserved, taken, out>>

Batches == BoundedSeq(Items, Capacity) \ {<<>>}

Init == /\ queue = <<>>
        /\ room = Capacity
        /\ reserved = [p \in Producers |-> <<>>]
        /\ taken = [c \in Consumers |-> <<>>]
        /\ out = [c \in Consumers |-> <<>>]

\* A producer claims room for a whole batch; nobody sees the batch yet.
ReserveBatch(p, batch) ==
  /\ reserved[p] = <<>>
  /\ Len(batch) <= room
  /\ room' = room - Len(batch)
  /\ reserved' = [reserved EXCEPT ![p] = batch]
  /\ UNCHANGED <<queue, taken, out>>
Reserve(p) == \E batch \in Batches : ReserveBatch(p, batch)

\* The batch joins the queue, contiguous and in the caller's order.
Publish(p) == /\ reserved[p] # <<>>
              /\ queue' = queue \o reserved[p]
              /\ reserved' = [reserved EXCEPT ![p] = <<>>]
              /\ UNCHANGED <<room, taken, out>>

\* A consumer claims the oldest n elements.
TakeFirst(c, n) ==
  /\ taken[c] = <<>>
  /\ taken' = [taken EXCEPT ![c] = SubSeq(queue, 1, n)]
  /\ queue' = SubSeq(queue, n + 1, Len(queue))
  /\ UNCHANGED <<room, reserved, out>>
Take(c) == \E n \in 1..Len(queue) : TakeFirst(c, n)

\* The claimed elements, and nothing else, are what the caller gets, and
\* their room may be reserved again.
Release(c) == /\ taken[c] # <<>>
              /\ out' = [out EXCEPT ![c] = taken[c]]
              /\ taken' = [taken EXCEPT ![c] = <<>>]
              /\ room' = room + Len(taken[c])
              /\ UNCHANGED <<queue, reserved>>

\* The caller has its elements.
Return(c) == /\ out[c] # <<>>
             /\ out' = [out EXCEPT ![c] = <<>>]
             /\ UNCHANGED <<queue, room, reserved, taken>>

Next == \/ \E p \in Producers : Reserve(p) \/ Publish(p)
        \/ \E c \in Consumers : Take(c) \/ Release(c) \/ Return(c)

Spec == Init /\ [][Next]_vars
====
