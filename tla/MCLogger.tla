---- MODULE MCLogger ----
(***************************************************************************)
(* Logger for TLC: packet threads are interchangeable.                     *)
(***************************************************************************)
EXTENDS Logger

Symmetry == Permutations(PacketThreads)
====
