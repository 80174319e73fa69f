---- MODULE RwLock ----
(***************************************************************************)
(* RwLock (rwlock.h): a spinning readers-writer lock in one counter.  A    *)
(* round of a lock loop is two steps, the load of cnt with the test of     *)
(* what was loaded, and the compare-and-swap; an unlock is one atomic add. *)
(* logger.h:26-32 can take it instead of the pthread mutex.  A thread      *)
(* holds at most one lock and gives back only what it holds.               *)
(***************************************************************************)
EXTENDS Integers, FiniteSets

CONSTANT Threads

ASSUME ThreadsAssumption == IsFiniteSet(Threads)

VARIABLES
  cnt,
  pc,    \* per thread: "idle", "load", "cas", "held", "refused"
  op,    \* per thread: the call it is in: "read_lock", "read_trylock", "write_lock"
  x      \* per thread: cnt as loaded

vars == <<cnt, pc, op, x>>

Ops == {"read_lock", "read_trylock", "write_lock"}

Init ==
  /\ cnt = 0
  /\ pc = [t \in Threads |-> "idle"]
  /\ op = [t \in Threads |-> "read_lock"]
  /\ x = [t \in Threads |-> 0]

Goto(t, label) == pc' = [pc EXCEPT ![t] = label]

Call(t) ==
  /\ pc[t] = "idle" /\ Goto(t, "load")
  /\ \E o \in Ops : op' = [op EXCEPT ![t] = o]
  /\ UNCHANGED <<cnt, x>>

\* Mutant of HeldAgainst: a writer waits only for a writer.
HeldAgainstWriter(o, v) == v < 0

\* The test on the value loaded: a writer waits for 0, a reader for no writer.
HeldAgainst(o, v) == IF o = "write_lock" THEN v # 0 ELSE v < 0

\* The load: with the lock held a lock call goes round again, a trylock returns.
Load(t) ==
  /\ pc[t] = "load"
  /\ Goto(t, IF ~HeldAgainst(op[t], cnt) THEN "cas"
             ELSE IF op[t] = "read_trylock" THEN "refused" ELSE "load")
  /\ x' = [x EXCEPT ![t] = cnt]
  /\ UNCHANGED <<cnt, op>>

\* Mutant of CAS: the value loaded is not compared again (the first version of
\* rwlock_read_trylock, rwlock.h:41-45).
CASBlind(t, new) == cnt' = new /\ Goto(t, "held")

\* AtomicCAS: the round is over, or starts again.
CAS(t, new) ==
  IF cnt = x[t] THEN cnt' = new /\ Goto(t, "held")
                ELSE UNCHANGED cnt /\ Goto(t, "load")

ReadCAS(t) ==
  /\ pc[t] = "cas" /\ op[t] # "write_lock"
  /\ CAS(t, x[t] + 1)
  /\ UNCHANGED <<op, x>>

\* x is 0 here.
WriteCAS(t) ==
  /\ pc[t] = "cas" /\ op[t] = "write_lock"
  /\ CAS(t, -1)
  /\ UNCHANGED <<op, x>>

\* Mutant of Unlock: each mode undone by the other's add.
UnlockSwapped(t) ==
  /\ pc[t] = "held" /\ Goto(t, "idle")
  /\ cnt' = IF op[t] = "write_lock" THEN cnt - 1 ELSE cnt + 1
  /\ UNCHANGED <<op, x>>

Unlock(t) ==
  /\ pc[t] = "held" /\ Goto(t, "idle")
  /\ cnt' = IF op[t] = "write_lock" THEN cnt + 1 ELSE cnt - 1
  /\ UNCHANGED <<op, x>>

Refused(t) == pc[t] = "refused" /\ Goto(t, "idle") /\ UNCHANGED <<cnt, op, x>>

Step(t) == Load(t) \/ ReadCAS(t) \/ WriteCAS(t) \/ Unlock(t) \/ Refused(t)
Next == \E t \in Threads : Call(t) \/ Step(t)

Spec == Init /\ [][Next]_vars

\* No thread stops inside a call or with the lock held (logger.cpp unlocks at
\* the end of the same block); none has to start a call.
FairSpec == Spec /\ \A t \in Threads : WF_vars(Step(t))

----------------------------------------------------------------------------
\* Properties.

Readers == {t \in Threads : pc[t] = "held" /\ op[t] # "write_lock"}
Writers == {t \in Threads : pc[t] = "held" /\ op[t] = "write_lock"}

\* Type invariant.
TypeOK ==
  /\ cnt \in -1..Cardinality(Threads)
  /\ pc \in [Threads -> {"idle", "load", "cas", "held", "refused"}]
  /\ op \in [Threads -> Ops]
  /\ x \in [Threads -> -1..Cardinality(Threads)]

\* The comment on cnt, "-1 when W lock held, > 0 when R locks held": the counter
\* is the holders, so nobody is let in, kept out or forgotten by a lost update.
CntMeaning ==
  cnt = IF Writers # {} THEN -1 ELSE Cardinality(Readers)

\* One writer, or readers.
Exclusion ==
  /\ Writers # {} => Readers = {}
  /\ \A t, u \in Writers : t = u

\* Only a value that the test let pass is ever compared and swapped.
LoadedFree == \A t \in Threads : pc[t] = "cas" => ~HeldAgainst(op[t], x[t])

\* The counter and the holders agree; inductive, all parts together.
CounterInv == TypeOK /\ CntMeaning /\ Exclusion /\ LoadedFree

\* The lock is the abstract one: many readers or one writer, and a trylock is
\* refused only while a writer has the lock.
RW == INSTANCE ReadersWriters WITH
        holds <- [t \in Threads |-> IF t \in Readers THEN "read"
                                    ELSE IF t \in Writers THEN "write" ELSE "none"],
        refused <- {t \in Threads : pc[t] = "refused"}
RefinesReadersWriters == RW!Spec

\* A lock that is free and wanted is taken: spinning threads never keep each
\* other out for ever (a writer may wait for ever while readers overlap).  And
\* when the others stop calling, the thread that waits gets its answer: whoever
\* left the lock undid exactly what it did to the counter.
LockProgress ==
  /\ (/\ Readers \union Writers = {} /\ \E t \in Threads : pc[t] \in {"load", "cas"})
       ~> (Readers \union Writers # {})
  /\ \A t \in Threads :
       <>[](\A u \in Threads \ {t} : pc[u] = "idle")
         => (pc[t] = "load" ~> pc[t] \in {"held", "refused"})
====
