---- MODULE ReadersWriters ----
(***************************************************************************)
(* What the lock of src/rwlock.h promises to its callers: many readers or  *)
(* one writer, and a trylock is refused only while somebody else writes.   *)
(* RwLock implements this module (run rwlock).                             *)
(***************************************************************************)

CONSTANT Threads

VARIABLES holds,    \* per thread: the lock it holds
          refused   \* threads whose rwlock_read_trylock returned 0

Modes == {"none", "read", "write"}

Init == holds = [t \in Threads |-> "none"] /\ refused = {}

AcquireRead(t) ==
  /\ holds[t] = "none"
  /\ \A u \in Threads : holds[u] # "write"
  /\ holds' = [holds EXCEPT ![t] = "read"]
  /\ UNCHANGED refused

AcquireWrite(t) ==
  /\ \A u \in Threads : holds[u] = "none"
  /\ holds' = [holds EXCEPT ![t] = "write"]
  /\ UNCHANGED refused

Refuse(t) ==
  /\ holds[t] = "none"
  /\ \E u \in Threads : holds[u] = "write"
  /\ refused' = refused \union {t}
  /\ UNCHANGED holds

Release(t) ==
  /\ holds[t] # "none"
  /\ holds' = [holds EXCEPT ![t] = "none"]
  /\ UNCHANGED refused

\* The caller has the answer of its trylock.
Return(t) == refused' = refused \ {t} /\ UNCHANGED holds

Next == \E t \in Threads :
          AcquireRead(t) \/ AcquireWrite(t) \/ Refuse(t) \/ Release(t) \/ Return(t)

Spec == Init /\ [][Next]_<<holds, refused>>
====
