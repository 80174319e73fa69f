---- MODULE RwLockProofs ----
(***************************************************************************)
(* Theorems about RwLock, for any finite set of threads: the counter is    *)
(* the holders, and the lock implements ReadersWriters.                    *)
(***************************************************************************)
EXTENDS RwLock, FiniteSetTheorems, TLAPS

----------------------------------------------------------------------------
\* Holders.

LEMMA ReadersFinite ==
  /\ IsFiniteSet(Readers) /\ Cardinality(Readers) \in Nat
  /\ Cardinality(Readers) <= Cardinality(Threads)
  /\ Cardinality(Threads) \in Nat
<1>1. Readers \in SUBSET Threads BY DEF Readers
<1> QED BY <1>1, ThreadsAssumption, FS_Subset, FS_CardinalityType

\* A thread that is not a reader leaves room for one more.
LEMMA RoomForReader ==
  ASSUME NEW t \in Threads, t \notin Readers
  PROVE  Cardinality(Readers) + 1 <= Cardinality(Threads)
<1>1. Readers \union {t} \in SUBSET Threads BY DEF Readers
<1>2. Cardinality(Readers \union {t}) = Cardinality(Readers) + 1
  BY ReadersFinite, FS_AddElement
<1>3. Cardinality(Readers \union {t}) <= Cardinality(Threads)
  BY <1>1, ThreadsAssumption, FS_Subset
<1> QED BY <1>2, <1>3

\* Without readers or writers the counter is 0; with a writer it is -1; with
\* readers it is their number.
LEMMA CounterCases ==
  ASSUME CounterInv
  PROVE  /\ cnt = 0 => Readers = {} /\ Writers = {}
         /\ cnt > 0 => Writers = {}
         /\ cnt < 0 => Writers # {} /\ Readers = {}
         /\ cnt >= 0 => cnt = Cardinality(Readers) /\ Writers = {}
<1>1. CntMeaning /\ Exclusion BY DEF CounterInv
<1>2. Cardinality(Readers) \in Nat BY ReadersFinite
<1>3. CASE Writers # {} BY <1>1, <1>3 DEF CntMeaning, Exclusion
<1>4. CASE Writers = {}
  <2>1. cnt = Cardinality(Readers) BY <1>1, <1>4 DEF CntMeaning
  <2>2. cnt = 0 => Readers = {} BY <2>1, ReadersFinite, FS_EmptySet
  <2> QED BY <2>1, <2>2, <1>2, <1>4
<1> QED BY <1>3, <1>4

----------------------------------------------------------------------------
\* The counter.

LEMMA CounterInit == Init => CounterInv
<1> SUFFICES ASSUME Init PROVE CounterInv OBVIOUS
<1>1. Readers = {} /\ Writers = {} BY DEF Init, Readers, Writers
<1>2. Cardinality(Readers) = 0 BY <1>1, FS_EmptySet
<1>3. TypeOK BY ReadersFinite DEF Init, TypeOK, Ops
<1>4. CntMeaning BY <1>1, <1>2 DEF CntMeaning, Init
<1>5. Exclusion BY <1>1 DEF Exclusion
<1>6. LoadedFree BY DEF LoadedFree, Init
<1> QED BY <1>3, <1>4, <1>5, <1>6 DEF CounterInv

\* A step that neither takes nor leaves the lock keeps the counter and the
\* holders.
LEMMA HoldersFrame ==
  ASSUME CounterInv, cnt' = cnt, Readers' = Readers, Writers' = Writers
  PROVE  CntMeaning' /\ Exclusion'
  BY DEF CounterInv, CntMeaning, Exclusion

LEMMA CallKeeps ==
  ASSUME CounterInv, NEW t \in Threads, Call(t) \/ Refused(t)
  PROVE  CounterInv'
<1>1. TypeOK' BY DEF Call, Refused, Goto, CounterInv, TypeOK, Ops
<1>2. Readers' = Readers /\ Writers' = Writers
  BY DEF Call, Refused, Goto, CounterInv, TypeOK, Readers, Writers
<1>3. CntMeaning' /\ Exclusion' BY <1>2, HoldersFrame DEF Call, Refused
<1>4. LoadedFree'
  BY DEF Call, Refused, Goto, CounterInv, TypeOK, LoadedFree, HeldAgainst
<1> QED BY <1>1, <1>3, <1>4 DEF CounterInv

LEMMA LoadKeeps ==
  ASSUME CounterInv, NEW t \in Threads, Load(t)
  PROVE  CounterInv'
<1> DEFINE next == IF ~HeldAgainst(op[t], cnt) THEN "cas"
                   ELSE IF op[t] = "read_trylock" THEN "refused" ELSE "load"
<1>1. /\ pc[t] = "load" /\ pc' = [pc EXCEPT ![t] = next]
      /\ x' = [x EXCEPT ![t] = cnt] /\ UNCHANGED <<cnt, op>>
  BY DEF Load, Goto
<1>2. next \in {"cas", "refused", "load"} /\ (next = "cas" => ~HeldAgainst(op[t], cnt))
  OBVIOUS
<1> HIDE DEF next
<1>3. TypeOK' BY <1>1, <1>2 DEF CounterInv, TypeOK
<1>4. Readers' = Readers /\ Writers' = Writers
  BY <1>1, <1>2 DEF CounterInv, TypeOK, Readers, Writers
<1>5. CntMeaning' /\ Exclusion' BY <1>1, <1>4, HoldersFrame
<1>6. LoadedFree' BY <1>1, <1>2 DEF CounterInv, TypeOK, LoadedFree, HeldAgainst
<1> QED BY <1>3, <1>5, <1>6 DEF CounterInv

\* A compare-and-swap that fails goes round.
LEMMA CASFails ==
  ASSUME CounterInv, NEW t \in Threads, pc[t] = "cas", cnt' = cnt,
         pc' = [pc EXCEPT ![t] = "load"], UNCHANGED <<op, x>>
  PROVE  CounterInv' /\ Readers' = Readers /\ Writers' = Writers
<1>1. TypeOK' BY DEF CounterInv, TypeOK
<1>2. Readers' = Readers /\ Writers' = Writers
  BY DEF CounterInv, TypeOK, Readers, Writers
<1>3. CntMeaning' /\ Exclusion' BY <1>2, HoldersFrame
<1>4. LoadedFree' BY DEF CounterInv, TypeOK, LoadedFree, HeldAgainst
<1> QED BY <1>1, <1>2, <1>3, <1>4 DEF CounterInv

\* A reader's compare-and-swap that succeeds finds no writer.
LEMMA ReadEnters ==
  ASSUME CounterInv, NEW t \in Threads, ReadCAS(t), cnt = x[t]
  PROVE  /\ CounterInv'
         /\ Writers = {} /\ Writers' = {} /\ Readers' = Readers \union {t} /\ t \notin Readers
<1>1. /\ pc[t] = "cas" /\ op[t] # "write_lock" /\ cnt' = cnt + 1
      /\ pc' = [pc EXCEPT ![t] = "held"] /\ UNCHANGED <<op, x>>
  BY DEF ReadCAS, CAS, Goto
<1>2. TypeOK /\ LoadedFree BY DEF CounterInv
<1>3. cnt >= 0
  BY <1>1, <1>2 DEF LoadedFree, HeldAgainst, TypeOK
<1>4. cnt = Cardinality(Readers) /\ Writers = {} BY <1>3, CounterCases
<1>5. t \notin Readers BY <1>1 DEF Readers
<1>6. Readers' = Readers \union {t}
  BY <1>1, <1>2 DEF TypeOK, Readers
<1>7. Writers' = {}
  BY <1>1, <1>2, <1>4 DEF TypeOK, Writers
<1>8. Cardinality(Readers') = cnt + 1
  BY <1>4, <1>5, <1>6, ReadersFinite, FS_AddElement
<1>9. cnt' \in -1..Cardinality(Threads)
  BY <1>1, <1>3, <1>4, <1>5, RoomForReader, ReadersFinite
<1>10. TypeOK' BY <1>1, <1>2, <1>9 DEF TypeOK
<1>11. CntMeaning' BY <1>1, <1>7, <1>8 DEF CntMeaning
<1>12. Exclusion' BY <1>7 DEF Exclusion
<1>13. LoadedFree' BY <1>1, <1>2 DEF LoadedFree, TypeOK, HeldAgainst
<1> QED BY <1>4, <1>5, <1>6, <1>7, <1>10, <1>11, <1>12, <1>13 DEF CounterInv

\* A writer's compare-and-swap that succeeds finds nobody.
LEMMA WriteEnters ==
  ASSUME CounterInv, NEW t \in Threads, WriteCAS(t), cnt = x[t]
  PROVE  /\ CounterInv'
         /\ Readers = {} /\ Writers = {} /\ Readers' = {} /\ Writers' = {t}
<1>1. /\ pc[t] = "cas" /\ op[t] = "write_lock" /\ cnt' = -1
      /\ pc' = [pc EXCEPT ![t] = "held"] /\ UNCHANGED <<op, x>>
  BY DEF WriteCAS, CAS, Goto
<1>2. TypeOK /\ LoadedFree BY DEF CounterInv
<1>3. cnt = 0 BY <1>1, <1>2 DEF LoadedFree, HeldAgainst, TypeOK
<1>4. Readers = {} /\ Writers = {} BY <1>3, CounterCases
<1>5. Readers' = {} BY <1>1, <1>2, <1>4 DEF TypeOK, Readers
<1>6. Writers' = {t} BY <1>1, <1>2, <1>4 DEF TypeOK, Writers
<1>7. TypeOK' BY <1>1, <1>2, ReadersFinite DEF TypeOK
<1>8. CntMeaning' BY <1>1, <1>6 DEF CntMeaning
<1>9. Exclusion' BY <1>5, <1>6 DEF Exclusion
<1>10. LoadedFree' BY <1>1, <1>2 DEF LoadedFree, TypeOK, HeldAgainst
<1> QED BY <1>4, <1>5, <1>6, <1>7, <1>8, <1>9, <1>10 DEF CounterInv

\* Who leaves was in, and takes away exactly what it had added.
LEMMA Leaves ==
  ASSUME CounterInv, NEW t \in Threads, Unlock(t)
  PROVE  /\ CounterInv'
         /\ t \in Readers \union Writers
         /\ Readers' = Readers \ {t} /\ Writers' = Writers \ {t}
<1>1. /\ pc[t] = "held" /\ pc' = [pc EXCEPT ![t] = "idle"] /\ UNCHANGED <<op, x>>
      /\ cnt' = IF op[t] = "write_lock" THEN cnt + 1 ELSE cnt - 1
  BY DEF Unlock, Goto
<1>2. TypeOK /\ LoadedFree /\ CntMeaning /\ Exclusion BY DEF CounterInv
<1>3. t \in Readers \union Writers BY <1>1 DEF Readers, Writers
<1>4. Readers' = Readers \ {t} /\ Writers' = Writers \ {t}
  BY <1>1, <1>2 DEF TypeOK, Readers, Writers
<1>5. LoadedFree' BY <1>1, <1>2 DEF LoadedFree, TypeOK, HeldAgainst
<1>6. Exclusion' BY <1>2, <1>4 DEF Exclusion
<1>7. cnt' \in -1..Cardinality(Threads) /\ CntMeaning'
  <2>1. CASE op[t] = "write_lock"
    <3>1. Writers = {t} /\ Readers = {} BY <1>1, <1>2, <2>1 DEF Exclusion, Writers
    <3>2. cnt' = 0 BY <1>1, <1>2, <2>1, <3>1 DEF CntMeaning
    <3>3. Readers' = {} /\ Writers' = {} BY <1>4, <3>1
    <3>4. Cardinality(Readers') = 0 BY <3>3, FS_EmptySet
    <3> QED BY <3>2, <3>3, <3>4, ReadersFinite DEF CntMeaning
  <2>2. CASE op[t] # "write_lock"
    <3>1. t \in Readers BY <1>1, <2>2 DEF Readers
    <3>2. Writers = {} BY <1>2, <3>1 DEF Exclusion
    <3>3. cnt' = Cardinality(Readers) - 1 BY <1>1, <1>2, <2>2, <3>2 DEF CntMeaning
    <3>4. Cardinality(Readers') = Cardinality(Readers) - 1
      BY <1>4, <3>1, ReadersFinite, FS_RemoveElement
    <3>5. IsFiniteSet(Readers') /\ Cardinality(Readers') \in Nat
      BY <1>4, ReadersFinite, FS_RemoveElement, FS_CardinalityType
    <3>6. Writers' = {} BY <1>4, <3>2
    <3> QED BY <3>3, <3>4, <3>5, <3>6, ReadersFinite DEF CntMeaning
  <2> QED BY <2>1, <2>2
<1>8. TypeOK' BY <1>1, <1>2, <1>7 DEF TypeOK
<1> QED BY <1>3, <1>4, <1>5, <1>6, <1>7, <1>8 DEF CounterInv

LEMMA CounterStep == CounterInv /\ [Next]_vars => CounterInv'
<1> SUFFICES ASSUME CounterInv, [Next]_vars PROVE CounterInv' OBVIOUS
<1>1. ASSUME NEW t \in Threads, Call(t) \/ Step(t) PROVE CounterInv'
  <2>1. CASE Call(t) \/ Refused(t) BY <2>1, CallKeeps
  <2>2. CASE Load(t) BY <2>2, LoadKeeps
  <2>3. CASE (ReadCAS(t) \/ WriteCAS(t)) /\ cnt # x[t]
    BY <2>3, CASFails DEF ReadCAS, WriteCAS, CAS, Goto
  <2>4. CASE ReadCAS(t) /\ cnt = x[t] BY <2>4, ReadEnters
  <2>5. CASE WriteCAS(t) /\ cnt = x[t] BY <2>5, WriteEnters
  <2>6. CASE Unlock(t) BY <2>6, Leaves
  <2> QED BY <1>1, <2>1, <2>2, <2>3, <2>4, <2>5, <2>6 DEF Step
<1>2. CASE UNCHANGED vars
  BY <1>2 DEF vars, CounterInv, TypeOK, CntMeaning, Exclusion, LoadedFree, HeldAgainst,
              Readers, Writers
<1> QED BY <1>1, <1>2 DEF Next

\* The comment on cnt holds for any number of threads: it is -1 with a writer
\* and else the number of readers, and a writer is alone.
THEOREM CounterIsHolders == Spec => []CounterInv
  BY CounterInit, CounterStep, PTL DEF Spec

----------------------------------------------------------------------------
\* The refinement.  A step of the lock is a step of ReadersWriters exactly when
\* it changes the holders or the answer of a trylock.

HoldsOf == [t \in Threads |-> IF t \in Readers THEN "read"
                              ELSE IF t \in Writers THEN "write" ELSE "none"]
RefusedSet == {t \in Threads : pc[t] = "refused"}
Answers == <<HoldsOf, RefusedSet>>

LEMMA HoldsIs ==
  ASSUME Exclusion
  PROVE  \A t \in Threads : /\ HoldsOf[t] = "read" <=> t \in Readers
                            /\ HoldsOf[t] = "write" <=> t \in Writers
                            /\ HoldsOf[t] = "none" <=> t \notin Readers \union Writers
  BY DEF HoldsOf, Exclusion

LEMMA MapInit == Init => RW!Init
  BY DEF Init, RW!Init, Readers, Writers

LEMMA MapQuiet ==
  ASSUME Readers' = Readers, Writers' = Writers, RefusedSet' = RefusedSet
  PROVE  UNCHANGED Answers
  BY DEF Answers, HoldsOf

LEMMA MapReadEnters ==
  ASSUME CounterInv, NEW t \in Threads, ReadCAS(t), cnt = x[t]
  PROVE  RW!AcquireRead(t)
<1>1. /\ Exclusion /\ CounterInv' /\ Writers = {} /\ Writers' = {}
      /\ Readers' = Readers \union {t} /\ t \notin Readers
  BY ReadEnters DEF CounterInv
<1>2. pc[t] = "cas" /\ pc' = [pc EXCEPT ![t] = "held"] BY DEF ReadCAS, CAS, Goto
<1>3. HoldsOf' = [HoldsOf EXCEPT ![t] = "read"] BY <1>1 DEF HoldsOf
<1>4. RefusedSet' = RefusedSet BY <1>2 DEF RefusedSet, CounterInv, TypeOK
<1>5. HoldsOf[t] = "none" /\ \A u \in Threads : HoldsOf[u] # "write" BY <1>1, HoldsIs
<1> QED BY <1>3, <1>4, <1>5 DEF RW!AcquireRead, HoldsOf, RefusedSet

LEMMA MapWriteEnters ==
  ASSUME CounterInv, NEW t \in Threads, WriteCAS(t), cnt = x[t]
  PROVE  RW!AcquireWrite(t)
<1>1. /\ Exclusion /\ Readers = {} /\ Writers = {} /\ Readers' = {} /\ Writers' = {t}
  BY WriteEnters DEF CounterInv
<1>2. pc[t] = "cas" /\ pc' = [pc EXCEPT ![t] = "held"] BY DEF WriteCAS, CAS, Goto
<1>3. HoldsOf' = [HoldsOf EXCEPT ![t] = "write"] BY <1>1 DEF HoldsOf
<1>4. RefusedSet' = RefusedSet BY <1>2 DEF RefusedSet, CounterInv, TypeOK
<1>5. \A u \in Threads : HoldsOf[u] = "none" BY <1>1, HoldsIs
<1> QED BY <1>3, <1>4, <1>5 DEF RW!AcquireWrite, HoldsOf, RefusedSet

LEMMA MapLeaves ==
  ASSUME CounterInv, NEW t \in Threads, Unlock(t)
  PROVE  RW!Release(t)
<1>1. /\ Exclusion /\ t \in Readers \union Writers
      /\ Readers' = Readers \ {t} /\ Writers' = Writers \ {t}
  BY Leaves DEF CounterInv
<1>2. pc[t] = "held" /\ pc' = [pc EXCEPT ![t] = "idle"] BY DEF Unlock, Goto
<1>3. HoldsOf' = [HoldsOf EXCEPT ![t] = "none"] BY <1>1 DEF HoldsOf
<1>4. RefusedSet' = RefusedSet BY <1>2 DEF RefusedSet, CounterInv, TypeOK
<1>5. HoldsOf[t] # "none" BY <1>1, HoldsIs
<1> QED BY <1>3, <1>4, <1>5 DEF RW!Release, HoldsOf, RefusedSet

\* A trylock is refused by the value it loads, while that value is current.
LEMMA MapLoad ==
  ASSUME CounterInv, NEW t \in Threads, Load(t)
  PROVE  RW!Refuse(t) \/ UNCHANGED Answers
<1> DEFINE next == IF ~HeldAgainst(op[t], cnt) THEN "cas"
                   ELSE IF op[t] = "read_trylock" THEN "refused" ELSE "load"
<1>1. pc[t] = "load" /\ pc' = [pc EXCEPT ![t] = next] /\ UNCHANGED <<cnt, op>>
  BY DEF Load, Goto
<1>2. /\ next \in {"cas", "refused", "load"}
      /\ next = "refused" => op[t] = "read_trylock" /\ HeldAgainst(op[t], cnt)
  OBVIOUS
<1> HIDE DEF next
<1>3. TypeOK /\ Exclusion BY DEF CounterInv
<1>4. Readers' = Readers /\ Writers' = Writers
  BY <1>1, <1>2, <1>3 DEF TypeOK, Readers, Writers
<1>5. CASE next = "refused"
  <2>1. cnt < 0 BY <1>2, <1>3, <1>5 DEF HeldAgainst, TypeOK
  <2>2. Writers # {} BY <2>1, CounterCases
  <2>3. \E u \in Threads : HoldsOf[u] = "write" BY <2>2, <1>3, HoldsIs DEF Writers
  <2>4. HoldsOf[t] = "none" BY <1>1, <1>3, HoldsIs DEF Readers, Writers
  <2>5. HoldsOf' = HoldsOf BY <1>4 DEF HoldsOf
  <2>6. RefusedSet' = RefusedSet \union {t} BY <1>1, <1>3, <1>5 DEF RefusedSet, TypeOK
  <2> QED BY <2>3, <2>4, <2>5, <2>6 DEF RW!Refuse, HoldsOf, RefusedSet
<1>6. CASE next # "refused"
  <2>1. RefusedSet' = RefusedSet BY <1>1, <1>2, <1>3, <1>6 DEF RefusedSet, TypeOK
  <2> QED BY <2>1, <1>4, MapQuiet
<1> QED BY <1>5, <1>6

LEMMA MapReturn ==
  ASSUME CounterInv, NEW t \in Threads, Refused(t)
  PROVE  RW!Return(t)
<1>1. pc[t] = "refused" /\ pc' = [pc EXCEPT ![t] = "idle"] /\ UNCHANGED op
  BY DEF Refused, Goto
<1>2. TypeOK BY DEF CounterInv
<1>3. Readers' = Readers /\ Writers' = Writers BY <1>1, <1>2 DEF TypeOK, Readers, Writers
<1>4. HoldsOf' = HoldsOf BY <1>3 DEF HoldsOf
<1>5. RefusedSet' = RefusedSet \ {t} BY <1>1, <1>2 DEF RefusedSet, TypeOK
<1> QED BY <1>4, <1>5 DEF RW!Return, HoldsOf, RefusedSet

LEMMA MapCall ==
  ASSUME CounterInv, NEW t \in Threads,
         \/ Call(t)
         \/ (ReadCAS(t) \/ WriteCAS(t)) /\ cnt # x[t]
  PROVE  UNCHANGED Answers
<1>1. TypeOK BY DEF CounterInv
<1>2. CASE Call(t)
  <2>1. Readers' = Readers /\ Writers' = Writers
    BY <1>1, <1>2 DEF Call, Goto, TypeOK, Readers, Writers
  <2>2. RefusedSet' = RefusedSet BY <1>1, <1>2 DEF Call, Goto, TypeOK, RefusedSet
  <2> QED BY <2>1, <2>2, MapQuiet
<1>3. CASE (ReadCAS(t) \/ WriteCAS(t)) /\ cnt # x[t]
  <2>1. /\ pc[t] = "cas" /\ pc' = [pc EXCEPT ![t] = "load"] /\ UNCHANGED <<cnt, op, x>>
    BY <1>3 DEF ReadCAS, WriteCAS, CAS, Goto
  <2>2. Readers' = Readers /\ Writers' = Writers BY <2>1, CASFails
  <2>3. RefusedSet' = RefusedSet BY <1>1, <2>1 DEF TypeOK, RefusedSet
  <2> QED BY <2>2, <2>3, MapQuiet
<1> QED BY <1>2, <1>3

LEMMA MapStep == CounterInv /\ [Next]_vars => [RW!Next]_Answers
<1> SUFFICES ASSUME CounterInv, [Next]_vars PROVE RW!Next \/ UNCHANGED Answers
  OBVIOUS
<1>1. ASSUME NEW t \in Threads, Call(t) \/ Step(t)
      PROVE  RW!Next \/ UNCHANGED Answers
  <2>1. CASE Call(t) \/ ((ReadCAS(t) \/ WriteCAS(t)) /\ cnt # x[t]) BY <2>1, MapCall
  <2>2. CASE Load(t) BY <2>2, MapLoad DEF RW!Next
  <2>3. CASE ReadCAS(t) /\ cnt = x[t] BY <2>3, MapReadEnters DEF RW!Next
  <2>4. CASE WriteCAS(t) /\ cnt = x[t] BY <2>4, MapWriteEnters DEF RW!Next
  <2>5. CASE Unlock(t) BY <2>5, MapLeaves DEF RW!Next
  <2>6. CASE Refused(t) BY <2>6, MapReturn DEF RW!Next
  <2> QED BY <1>1, <2>1, <2>2, <2>3, <2>4, <2>5, <2>6 DEF Step
<1>2. CASE UNCHANGED vars
  BY <1>2 DEF vars, Answers, HoldsOf, RefusedSet, Readers, Writers
<1> QED BY <1>1, <1>2 DEF Next

\* The spinning lock keeps the promise of ReadersWriters for any number of
\* threads: many readers or one writer, and no trylock refused without a writer.
THEOREM LockImplements == Spec => RefinesReadersWriters
<1>1. CounterInv /\ [Next]_vars => [RW!Next]_Answers BY MapStep
<1> QED
  BY MapInit, <1>1, CounterIsHolders, PTL
  DEF Spec, RefinesReadersWriters, RW!Spec, Answers, HoldsOf, RefusedSet
====
