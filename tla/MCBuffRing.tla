---- MODULE MCBuffRing ----
(***************************************************************************)
(* BuffRing for TLC.  The elements of a batch differ, so a batch that is   *)
(* torn, repeated or out of order shows in the content of the queue; with  *)
(* kRingQueueVariable the same batch is also clipped to its first element. *)
(***************************************************************************)
EXTENDS BuffRing

CONSTANTS a, b

Pair == {<<a, b>>}

Symmetry == Permutations(Producers) \union Permutations(Consumers)
====
