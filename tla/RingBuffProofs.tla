---- MODULE RingBuffProofs ----
(***************************************************************************)
(* Theorems about RingBuff: for every number of producers, size and width  *)
(* of the indices.                                                         *)
(***************************************************************************)
EXTENDS RingBuff, CommonLemmas

----------------------------------------------------------------------------
\* The size.

\* Whatever the argument of the constructor, the ring has a power of two of at
\* least two slots, and four such rings fit below the wrap.
LEMMA SizeIsPower == \E m \in 1..(Bits - 2) : size_ = 2 ^ m
<1>1. Bits \in Nat /\ Bits >= 2 /\ Size \in Nat /\ Size >= 2 /\ Size <= 2 ^ (Bits - 2)
  BY PowerPositive, RingBuffAssumption
<1>2. Bits - 2 \in Nat /\ 2 ^ (Bits - 2) \in Nat BY <1>1, PowerPositive
<1>3. 2 ^ (Bits - 1) = 2 * 2 ^ (Bits - 2)
  <2>1. 2 ^ (1 + (Bits - 2)) = 2 ^ 1 * 2 ^ (Bits - 2) BY <1>2, PowerSum
  <2>2. 1 + (Bits - 2) = Bits - 1 BY <1>1
  <2> QED BY <2>1, <2>2, PowersOneTwo
<1>4. CASE is_power_of_2(Size)
  <2>1. PICK k \in 0..(Bits - 1) : Size = 2 ^ k BY <1>4 DEF is_power_of_2
  <2>2. k # 0
    <3> SUFFICES ASSUME k = 0 PROVE FALSE OBVIOUS
    <3>1. Size = 2 ^ 0 BY <2>1, Zenon
    <3> QED BY <3>1, <1>1, PowersOneTwo
  <2>3. k # Bits - 1 BY <2>1, <1>1, <1>2, <1>3
  <2>4. k \in 1..(Bits - 2) BY <2>2, <2>3, <1>1
  <2>5. size_ = 2 ^ k BY <1>4, <2>1 DEF size_, roundup_power_of_2
  <2> QED BY <2>4, <2>5
<1>5. CASE ~is_power_of_2(Size)
  <2> DEFINE S == {k \in 0..(Bits - 1) : Size \div 2 ^ k # 0}
  <2>1. size_ = 2 ^ Cardinality(S) BY <1>5 DEF size_, roundup_power_of_2
  <2>2. Size # 2 ^ (Bits - 2) BY <1>1, <1>5 DEF is_power_of_2
  <2>3. Size \div 2 ^ (Bits - 2) = 0
    BY <1>1, <1>2, <2>2, PowerPositive, QuotientZero
  <2>4. Size \div 2 ^ (Bits - 1) = 0
    <3>1. Size < 2 ^ (Bits - 1) /\ 2 ^ (Bits - 1) \in Nat \ {0} BY <1>1, <1>2, <1>3
    <3> QED BY <3>1, <1>1, QuotientZero
  <2>5. 0 \in S
    <3>1. Size \div 2 ^ 0 = Size BY PowersOneTwo, <1>1
    <3> QED BY <3>1, <1>1
  <2>6. S \subseteq 0..(Bits - 3)
    <3> SUFFICES ASSUME NEW k \in S PROVE k \in 0..(Bits - 3) OBVIOUS
    <3>1. k \in 0..(Bits - 1) /\ Size \div 2 ^ k # 0 OBVIOUS
    <3>2. k # Bits - 1 BY <3>1, <2>4, Zenon
    <3>3. k # Bits - 2 BY <3>1, <2>3, Zenon
    <3> HIDE DEF S
    <3> QED BY <3>1, <3>2, <3>3, <1>1
  <2> HIDE DEF S
  <2>7. IsFiniteSet(0..(Bits - 3)) /\ Cardinality(0..(Bits - 3)) <= Bits - 2
    <3>1. 0 \in Int /\ Bits - 3 \in Int BY <1>1
    <3>2. /\ IsFiniteSet(0..(Bits - 3))
          /\ Cardinality(0..(Bits - 3)) = IF 0 > Bits - 3 THEN 0 ELSE (Bits - 3) - 0 + 1
      BY <3>1, FS_Interval
    <3> QED BY <3>2, <1>1
  <2>8. IsFiniteSet(S) /\ Cardinality(S) <= Cardinality(0..(Bits - 3))
    BY <2>6, <2>7, FS_Subset
  <2>9. Cardinality(S) \in Nat /\ Cardinality(S) # 0
    BY <2>5, <2>8, FS_EmptySet, FS_CardinalityType
  <2>10. Cardinality(0..(Bits - 3)) \in Nat BY <2>7, FS_CardinalityType
  <2>11. Cardinality(S) \in 1..(Bits - 2) BY <2>7, <2>8, <2>9, <2>10, <1>1
  <2> QED BY <2>1, <2>11
<1> QED BY <1>4, <1>5

LEMMA SizeFacts ==
  /\ half_size \in Nat \ {0} /\ size_ = 2 * half_size
  /\ Modulus \in Nat \ {0} /\ 4 * size_ <= Modulus
  /\ \E K \in Nat : Modulus = half_size * K
<1>1. PICK m \in 1..(Bits - 2) : size_ = 2 ^ m BY SizeIsPower
<1>2. Bits \in Nat /\ m \in Nat /\ m - 1 \in Nat /\ Bits - m - 2 \in Nat
  BY <1>1, RingBuffAssumption
<1> DEFINE h == 2 ^ (m - 1)
           R == 2 ^ (Bits - m - 2)
<1>3. h \in Nat \ {0} /\ R \in Nat \ {0} BY <1>2, PowerPositive
<1>4. size_ = 2 * h
  <2>1. 2 ^ (1 + (m - 1)) = 2 ^ 1 * 2 ^ (m - 1) BY <1>2, PowerSum
  <2>2. 1 + (m - 1) = m BY <1>2
  <2> QED BY <2>1, <2>2, <1>1, PowersOneTwo
<1>5. Modulus = 4 * size_ * R
  <2>1. 2 ^ (1 + 1) = 2 ^ 1 * 2 ^ 1 BY PowerSum
  <2>2. 2 ^ 2 = 4 BY <2>1, PowersOneTwo
  <2>3. 2 ^ (2 + (Bits - m - 2)) = 2 ^ 2 * 2 ^ (Bits - m - 2) BY <1>2, PowerSum
  <2>4. 2 + (Bits - m - 2) = Bits - m BY <1>2
  <2>5. 2 ^ (Bits - m) = 4 * R BY <2>2, <2>3, <2>4
  <2>6. 2 ^ (m + (Bits - m)) = 2 ^ m * 2 ^ (Bits - m)
    <3>1. Bits - m \in Nat BY <1>2
    <3> QED BY <3>1, <1>2, PowerSum
  <2>7. m + (Bits - m) = Bits BY <1>2
  <2>8. Modulus = size_ * (4 * R) BY <2>5, <2>6, <2>7, <1>1 DEF Modulus
  <2> HIDE DEF R, h
  <2> QED BY <2>8, <1>3, <1>4
<1> HIDE DEF h, R
<1>6. half_size = h BY <1>3, <1>4 DEF half_size
<1>7. Modulus = h * (8 * R) BY <1>3, <1>4, <1>5
<1>8. 4 * size_ <= Modulus BY <1>3, <1>4, <1>5
<1>9. Modulus \in Nat \ {0} BY <1>3, <1>4, <1>8, <1>5
<1>10. 8 * R \in Nat BY <1>3
<1> QED BY <1>3, <1>4, <1>6, <1>7, <1>8, <1>9, <1>10

----------------------------------------------------------------------------
\* Indices and slots.

LEMMA AddIndex ==
  ASSUME NEW a \in Indices, NEW b \in 0..size_
  PROVE  /\ Add(a, b) \in Indices
         /\ Add(a, b) = IF a + b < Modulus THEN a + b ELSE a + b - Modulus
<1>1. Modulus \in Nat \ {0} /\ size_ \in Nat /\ size_ < Modulus BY SizeFacts
<1> QED BY <1>1, SMT DEF Add, Indices

LEMMA Distance ==
  ASSUME NEW a \in Indices, NEW b \in Indices
  PROVE  /\ (a - b) % Modulus \in Indices
         /\ b <= a => (a - b) % Modulus = a - b
<1>1. Modulus \in Nat \ {0} BY SizeFacts
<1> QED BY <1>1, SMT DEF Indices

LEMMA SlotInSlots == ASSUME NEW x \in Int PROVE Slot(x) \in Slots
  BY DivMod, SizeFacts DEF Slot, Slots

----------------------------------------------------------------------------
\* Types.  The reader starts each call at its first element.

TypeInv == TypeOK /\ (rpc = "idle" => j = 0)

LEMMA TypeInit == Init => TypeInv
  BY SizeFacts DEF Init, TypeInv, TypeOK, Indices, Slots

LEMMA TypeStep ==
  ASSUME TypeInv, [Next]_vars
  PROVE  TypeInv'
<1> USE DEF TypeInv, TypeOK
<1>0. /\ size_ \in Nat /\ half_size \in Nat /\ half_size <= size_ /\ half_size > 0
      /\ Modulus \in Nat /\ size_ < Modulus
  BY SizeFacts
<1>1. ASSUME NEW p \in Producers, PutLoad(p) PROVE TypeInv'
  BY <1>1 DEF PutLoad, Goto, readerVars, history
<1>2. ASSUME NEW p \in Producers, PutTest(p) PROVE TypeInv'
  BY <1>2, <1>0 DEF PutTest, Goto, readerVars, history, Indices
<1>3. ASSUME NEW p \in Producers, PutIndex(p) PROVE TypeInv'
  <2>1. Add(wd_index_, 1) \in Indices BY <1>0, AddIndex
  <2> QED BY <1>3, <2>1 DEF PutIndex, Goto, readerVars
<1>4. ASSUME NEW p \in Producers, PutCopy(p) PROVE TypeInv'
  BY <1>4 DEF PutCopy, Goto, readerVars, history
<1>5. ASSUME NEW p \in Producers, PutDone(p) PROVE TypeInv'
  <2>1. idx[p] \in Indices /\ idx[p] \in Int BY DEF Indices
  <2>2. Slot(idx[p]) \in Slots BY <2>1, SlotInSlots
  <2>3. data_' \in [Slots -> Indices \union {NoItem, Torn}] BY <1>5, <2>1 DEF PutDone
  <2>4. late' \subseteq Slots BY <1>5, <2>2 DEF PutDone
  <2>5. 0 \in Indices BY <1>0 DEF Indices
  <2>6. idx' \in [Producers -> Indices] BY <1>5, <2>5 DEF PutDone
  <2> QED BY <1>5, <2>3, <2>4, <2>6 DEF PutDone, Goto, readerVars
<1>6. CASE GetHalf
  BY <1>6, <1>0 DEF GetHalf, history
<1>7. CASE GetAll
  <2>1. (wd_index_ - rd_index_) % Modulus \in Indices BY Distance
  <2> QED BY <1>7, <1>0, <2>1 DEF GetAll, history
<1>8. CASE Copy \/ CopyOutside
  <2>1. j \in Nat /\ j < ToCopy /\ rpc \in {"half", "all"}
    BY <1>8, <1>0 DEF Copy, CopyOutside, Unfinished
  <2>2. ToCopy = IF rpc = "half" THEN half_size ELSE size_ BY DEF ToCopy
  <2>3. (j + 1) \in 0..(IF rpc = "half" THEN half_size ELSE size_)
    BY <2>1, <2>2, <1>0
  <2>4. CASE rpc' = rpc /\ j' = j + 1
    BY <1>8, <2>3, <2>4, <2>1 DEF Copy, CopyOutside, history
  <2>5. CASE rpc' = "crashed" /\ j' = j
    <3>1. j \in 0..size_ BY <1>0
    <3> QED BY <1>8, <2>5, <3>1 DEF Copy, CopyOutside, history
  <2> QED BY <1>8, <2>4, <2>5 DEF Copy, CopyOutside
<1>9. CASE Advance
  <2>1. Add(rd_index_, half_size) \in Indices BY <1>0, AddIndex
  <2>2. rd_index_' \in Indices BY <1>9, <2>1 DEF Advance
  <2>3. 0 \in Indices BY <1>0 DEF Indices
  <2> QED BY <1>9, <2>2, <2>3, <1>0 DEF Advance
<1>10. CASE UNCHANGED vars
  BY <1>10 DEF vars, history
<1> QED BY <1>1, <1>2, <1>3, <1>4, <1>5, <1>6, <1>7, <1>8, <1>9, <1>10 DEF Next, Put

\* The types are right in every reachable state; in particular the reader never
\* copies more than size_ elements, or half_size of them for GetHalf.
THEOREM Types == Spec => []TypeOK
<1>1. TypeInv => TypeOK BY DEF TypeInv
<1> QED BY <1>1, TypeInit, TypeStep, PTL DEF Spec

----------------------------------------------------------------------------
\* How far Put overruns the ring.  The producers that may still take an index
\* although the ring is full up to T: past the test, or before it with a
\* wd_index_ below T.  Each takes one index and leaves.

Crowd(T) == {p \in Producers : pc[p] = "index" \/ (pc[p] = "test" /\ idx[p] < T)}
CrowdBound(T) == wd_index_ + Cardinality(Crowd(T)) <= T + Cardinality(Producers) - 1

LEMMA CrowdFinite ==
  ASSUME NEW T
  PROVE  /\ IsFiniteSet(Crowd(T)) /\ Cardinality(Crowd(T)) \in Nat
         /\ Cardinality(Producers) \in Nat
         /\ Cardinality(Crowd(T)) <= Cardinality(Producers)
<1>1. Crowd(T) \subseteq Producers BY DEF Crowd
<1>2. IsFiniteSet(Producers) BY RingBuffAssumption
<1> QED BY <1>1, <1>2, FS_Subset, FS_CardinalityType

LEMMA CrowdFiniteNext ==
  ASSUME NEW T
  PROVE  /\ IsFiniteSet(Crowd(T)') /\ Cardinality(Crowd(T)') \in Nat
         /\ Cardinality(Crowd(T)') <= Cardinality(Producers)
<1>1. Crowd(T)' \subseteq Producers BY DEF Crowd
<1>2. IsFiniteSet(Producers) BY RingBuffAssumption
<1> QED BY <1>1, <1>2, FS_Subset, FS_CardinalityType

\* The bound holds as long as Put is refused from T on.
LEMMA CrowdStep ==
  ASSUME TypeInv, [Next]_vars, NEW T \in Nat, CrowdBound(T),
         Add(rd_index_, size_) <= T,
         \A p \in Producers : PutIndex(p) => wd_index_' = wd_index_ + 1
  PROVE  CrowdBound(T)'
<1> USE DEF TypeInv, TypeOK
<1> DEFINE n == Cardinality(Crowd(T))
           m == Cardinality(Crowd(T)')
           P == Cardinality(Producers)
<1>0. /\ n \in Nat /\ m \in Nat /\ P \in Nat /\ n <= P /\ m <= P
      /\ wd_index_ \in Nat /\ wd_index_ + n <= T + P - 1
  BY CrowdFinite, CrowdFiniteNext DEF Indices, CrowdBound
<1>1. SUFFICES wd_index_' + m <= T + P - 1 BY DEF CrowdBound
<1>2. ASSUME Crowd(T)' \subseteq Crowd(T), wd_index_' = wd_index_
      PROVE  wd_index_' + m <= T + P - 1
  <2>1. m <= n BY <1>2, CrowdFinite, CrowdFiniteNext, FS_Subset
  <2> HIDE DEF n, m, P
  <2> QED BY <2>1, <1>2, <1>0
<1>3. ASSUME NEW p \in Producers, PutLoad(p) PROVE wd_index_' + m <= T + P - 1
  <2>1. CASE wd_index_ < T
    <3>1. wd_index_' = wd_index_ BY <1>3 DEF PutLoad
    <3> HIDE DEF n, m, P
    <3> QED BY <2>1, <3>1, <1>0
  <2>2. CASE ~(wd_index_ < T)
    <3>1. wd_index_' = wd_index_ BY <1>3 DEF PutLoad
    <3>2. ASSUME NEW q \in Producers, q \in Crowd(T)' PROVE q \in Crowd(T)
      <4>1. CASE q = p BY <4>1, <1>3, <3>2, <2>2 DEF PutLoad, Goto, Crowd
      <4>2. CASE q # p BY <4>2, <1>3, <3>2 DEF PutLoad, Goto, Crowd
      <4> QED BY <4>1, <4>2
    <3>3. Crowd(T)' \subseteq Crowd(T) BY <3>2 DEF Crowd
    <3> QED BY <3>1, <3>3, <1>2
  <2> QED BY <2>1, <2>2
<1>4. ASSUME NEW p \in Producers, PutTest(p) PROVE wd_index_' + m <= T + P - 1
  <2>1. wd_index_' = wd_index_ BY <1>4 DEF PutTest
  <2>2. ASSUME NEW q \in Producers, q \in Crowd(T)' PROVE q \in Crowd(T)
    <3>1. CASE q = p
      <4>1. pc'[p] = "index" BY <3>1, <1>4, <2>2 DEF PutTest, Goto, Crowd
      <4>2. ~Full(idx[p]) /\ pc[p] = "test" BY <4>1, <1>4 DEF PutTest, Goto
      <4>3. rd_index_ \in Indices /\ size_ \in 0..size_ BY SizeFacts
      <4>4. Add(rd_index_, size_) \in Nat /\ idx[p] \in Nat BY <4>3, AddIndex DEF Indices
      <4>5. idx[p] < T BY <4>2, <4>4 DEF Full
      <4> QED BY <4>2, <4>5, <3>1 DEF Crowd
    <3>2. CASE q # p BY <3>2, <1>4, <2>2 DEF PutTest, Goto, Crowd
    <3> QED BY <3>1, <3>2
  <2>3. Crowd(T)' \subseteq Crowd(T) BY <2>2 DEF Crowd
  <2> QED BY <2>1, <2>3, <1>2
<1>5. ASSUME NEW p \in Producers, PutIndex(p) PROVE wd_index_' + m <= T + P - 1
  <2>1. wd_index_' = wd_index_ + 1 BY <1>5
  <2>2. p \in Crowd(T) BY <1>5 DEF PutIndex, Crowd
  <2>3. Crowd(T)' = Crowd(T) \ {p} BY <1>5 DEF PutIndex, Goto, Crowd
  <2>4. m = n - 1 BY <2>2, <2>3, CrowdFinite, FS_RemoveElement
  <2> HIDE DEF n, m, P
  <2> QED BY <2>1, <2>4, <1>0
<1>6. ASSUME NEW p \in Producers, PutCopy(p) PROVE wd_index_' + m <= T + P - 1
  <2>1. wd_index_' = wd_index_ BY <1>6 DEF PutCopy
  <2>2. Crowd(T)' \subseteq Crowd(T) BY <1>6 DEF PutCopy, Goto, Crowd
  <2> QED BY <2>1, <2>2, <1>2
<1>7. ASSUME NEW p \in Producers, PutDone(p) PROVE wd_index_' + m <= T + P - 1
  <2>1. wd_index_' = wd_index_ BY <1>7 DEF PutDone
  <2>2. Crowd(T)' \subseteq Crowd(T) BY <1>7 DEF PutDone, Goto, Crowd
  <2> QED BY <2>1, <2>2, <1>2
<1>8. ASSUME GetHalf \/ GetAll \/ Copy \/ CopyOutside \/ Advance \/ UNCHANGED vars
      PROVE  wd_index_' + m <= T + P - 1
  <2>1. UNCHANGED <<wd_index_, pc, idx>>
    BY <1>8 DEF GetHalf, GetAll, Copy, CopyOutside, Advance, vars
  <2>2. Crowd(T)' \subseteq Crowd(T) BY <2>1 DEF Crowd
  <2> QED BY <2>1, <2>2, <1>2
<1> QED BY <1>3, <1>4, <1>5, <1>6, <1>7, <1>8 DEF Next, Put

----------------------------------------------------------------------------
\* Before the last lap: the indices compare as the numbers of elements put and
\* got, and the ring is as full as the crowd allows.

Copying(p) == pc[p] \in {"copy", "copying"}

Before ==
  early =>
    /\ wd_index_ + size_ < Modulus /\ rd_index_ <= wd_index_
    /\ rpc = "half" => wd_index_ >= rd_index_ + half_size
    /\ rpc = "all" => size <= wd_index_ - rd_index_
    /\ \A p \in Producers : Copying(p) => idx[p] < wd_index_
    /\ \A T \in Nat : T >= rd_index_ + size_ => CrowdBound(T)

LEMMA BeforeInit == Init => Before
<1> SUFFICES ASSUME Init PROVE Before OBVIOUS
<1>1. size_ \in Nat /\ Modulus \in Nat /\ size_ < Modulus BY SizeFacts
<1>2. ASSUME NEW T \in Nat PROVE CrowdBound(T)
  <2>1. Crowd(T) = {} BY DEF Init, Crowd
  <2>2. Cardinality(Producers) \in Nat /\ Cardinality(Producers) # 0
    BY RingBuffAssumption, FS_CardinalityType, FS_EmptySet
  <2>3. Cardinality(Crowd(T)) = 0 BY <2>1, FS_EmptySet
  <2> QED BY <2>2, <2>3 DEF Init, CrowdBound
<1> QED BY <1>1, <1>2 DEF Init, Before, Copying

\* What a step does to the indices before the last lap: wd_index_ only grows by
\* the index a Put takes, rd_index_ only up to wd_index_.
LEMMA BeforeIndices ==
  ASSUME TypeInv, Before, [Next]_vars, early'
  PROVE  /\ early
         /\ \A p \in Producers : PutIndex(p) => wd_index_' = wd_index_ + 1
         /\ wd_index_' \in {wd_index_, wd_index_ + 1}
         /\ rd_index_ <= rd_index_' /\ rd_index_' <= wd_index_
         /\ wd_index_' + size_ < Modulus
         /\ Add(rd_index_, size_) = rd_index_ + size_
<1> USE DEF TypeInv, TypeOK
<1>0. /\ size_ \in Nat /\ half_size \in Nat /\ half_size <= size_ /\ half_size > 0
      /\ Modulus \in Nat /\ size_ < Modulus /\ 1 <= size_
      /\ wd_index_ \in Nat /\ rd_index_ \in Nat
  BY SizeFacts DEF Indices
<1>1. early
  BY DEF Next, Put, PutLoad, PutTest, PutIndex, PutCopy, PutDone, GetHalf, GetAll,
         Copy, CopyOutside, Advance, vars, history
<1>2. wd_index_ + size_ < Modulus /\ rd_index_ <= wd_index_ BY <1>1 DEF Before
<1>3. /\ Add(wd_index_, 1) = wd_index_ + 1
      /\ Add(rd_index_, size_) = rd_index_ + size_
      /\ Add(rd_index_, half_size) = rd_index_ + half_size
  BY <1>0, <1>2, AddIndex
<1>4. \A p \in Producers : PutIndex(p) => wd_index_' = wd_index_ + 1
  BY <1>3 DEF PutIndex
<1>5. ASSUME UNCHANGED <<wd_index_, rd_index_>>
      PROVE  /\ wd_index_' \in {wd_index_, wd_index_ + 1}
             /\ rd_index_ <= rd_index_' /\ rd_index_' <= wd_index_
             /\ wd_index_' + size_ < Modulus
  BY <1>5, <1>0, <1>2
<1>6. ASSUME NEW p \in Producers, PutIndex(p)
      PROVE  /\ wd_index_' \in {wd_index_, wd_index_ + 1}
             /\ rd_index_ <= rd_index_' /\ rd_index_' <= wd_index_
             /\ wd_index_' + size_ < Modulus
  <2>1. wd_index_' = wd_index_ + 1 /\ rd_index_' = rd_index_ BY <1>6, <1>3 DEF PutIndex
  <2>2. wd_index_' + size_ < Modulus BY <1>6, Zenon DEF PutIndex
  <2> QED BY <2>1, <2>2, <1>0, <1>2
<1>7. ASSUME Advance
      PROVE  /\ wd_index_' \in {wd_index_, wd_index_ + 1}
             /\ rd_index_ <= rd_index_' /\ rd_index_' <= wd_index_
             /\ wd_index_' + size_ < Modulus
  <2>1. wd_index_' = wd_index_ BY <1>7 DEF Advance
  <2>2. CASE rpc = "half"
    <3>1. rd_index_' = rd_index_ + half_size BY <1>7, <2>2, <1>3 DEF Advance
    <3>2. wd_index_ >= rd_index_ + half_size BY <2>2, <1>1 DEF Before
    <3> QED BY <2>1, <3>1, <3>2, <1>0, <1>2
  <2>3. CASE rpc # "half"
    <3>1. rd_index_' = wd_index_ BY <1>7, <2>3 DEF Advance
    <3> QED BY <2>1, <3>1, <1>0, <1>2
  <2> QED BY <2>2, <2>3
<1>8. \/ UNCHANGED <<wd_index_, rd_index_>>
      \/ \E p \in Producers : PutIndex(p)
      \/ Advance
  BY DEF Next, Put, PutLoad, PutTest, PutCopy, PutDone, GetHalf, GetAll, Copy, CopyOutside, vars
<1> QED BY <1>1, <1>3, <1>4, <1>5, <1>6, <1>7, <1>8, <1>2

LEMMA BeforeStep ==
  ASSUME TypeInv, Before, [Next]_vars
  PROVE  Before'
<1> SUFFICES ASSUME early' PROVE Before' BY DEF Before
<1> USE DEF TypeInv, TypeOK
<1>0. /\ size_ \in Nat /\ half_size \in Nat /\ half_size <= size_ /\ half_size > 0
      /\ Modulus \in Nat /\ size_ < Modulus
      /\ wd_index_ \in Nat /\ rd_index_ \in Nat
  BY SizeFacts DEF Indices
<1>1. /\ early
      /\ \A p \in Producers : PutIndex(p) => wd_index_' = wd_index_ + 1
      /\ wd_index_' \in {wd_index_, wd_index_ + 1}
      /\ rd_index_ <= rd_index_' /\ rd_index_' <= wd_index_
      /\ wd_index_' + size_ < Modulus
      /\ Add(rd_index_, size_) = rd_index_ + size_
  BY BeforeIndices
<1>2. rd_index_' \in Nat /\ rd_index_' <= wd_index_'
  <2>1. rd_index_' \in Int BY TypeStep DEF Indices
  <2> QED BY <2>1, <1>0, <1>1
<1>3. /\ rpc = "half" => wd_index_ >= rd_index_ + half_size
      /\ rpc = "all" => size <= wd_index_ - rd_index_
  BY <1>1 DEF Before
<1>4. (rpc = "half" => wd_index_ >= rd_index_ + half_size)'
  <2> SUFFICES ASSUME rpc' = "half" PROVE wd_index_' >= rd_index_' + half_size OBVIOUS
  <2>1. CASE GetHalf
    <3>1. Add(rd_index_, half_size) = rd_index_ + half_size
      <4>1. wd_index_ + size_ < Modulus /\ rd_index_ <= wd_index_ BY <1>1 DEF Before
      <4> QED BY <4>1, <1>0, AddIndex
    <3> QED BY <2>1, <3>1 DEF GetHalf, HalfFull
  <2>2. CASE ~GetHalf
    <3>1. rpc = "half" /\ rd_index_' = rd_index_
      BY <2>2 DEF Next, Put, PutLoad, PutTest, PutIndex, PutCopy, PutDone, GetAll, Copy, CopyOutside,
                  Advance, vars, readerVars
    <3> QED BY <3>1, <1>0, <1>1, <1>3
  <2> QED BY <2>1, <2>2
<1>5. (rpc = "all" => size <= wd_index_ - rd_index_)'
  <2> SUFFICES ASSUME rpc' = "all" PROVE size' <= wd_index_' - rd_index_' OBVIOUS
  <2>1. CASE GetAll
    <3>1. rd_index_ <= wd_index_ BY <1>1 DEF Before
    <3>2. (wd_index_ - rd_index_) % Modulus = wd_index_ - rd_index_ BY <3>1, Distance
    <3>3. size' = wd_index_ - rd_index_ BY <2>1, <3>2 DEF GetAll
    <3> QED BY <2>1, <3>3, <1>0 DEF GetAll
  <2>2. CASE ~GetAll
    <3>1. rpc = "all" /\ rd_index_' = rd_index_ /\ size' = size
      BY <2>2 DEF Next, Put, PutLoad, PutTest, PutIndex, PutCopy, PutDone, GetHalf, Copy, CopyOutside,
                  Advance, vars, readerVars
    <3>2. size \in Int BY DEF Indices
    <3>3. size <= wd_index_ - rd_index_ BY <3>1, <1>3
    <3>4. wd_index_' \in {wd_index_, wd_index_ + 1} BY <1>1
    <3>5. rd_index_' = rd_index_ /\ size' = size BY <3>1
    <3>6. wd_index_ \in Int /\ rd_index_ \in Int /\ wd_index_' >= wd_index_
      BY <3>4, <1>0
    <3>7. wd_index_' \in Int BY <3>4, <1>0
    <3>8. \A a, b, c, d \in Int : a <= b - c /\ d >= b => a <= d - c OBVIOUS
    <3>9. size <= wd_index_' - rd_index_ BY ONLY <3>2, <3>3, <3>6, <3>7, <3>8, Zenon
    <3> QED BY ONLY <3>5, <3>9, Zenon
  <2> QED BY <2>1, <2>2
<1>6. \A p \in Producers : (Copying(p) => idx[p] < wd_index_)'
  <2> SUFFICES ASSUME NEW p \in Producers, Copying(p)'
               PROVE  idx'[p] < wd_index_'
      OBVIOUS
  <2>1. CASE PutIndex(p)
    <3>1. idx'[p] = wd_index_ BY <2>1 DEF PutIndex
    <3>2. wd_index_' = wd_index_ + 1 BY <1>1, <2>1
    <3> QED BY <3>1, <3>2, <1>0
  <2>2. CASE ~PutIndex(p)
    <3>1. Copying(p) /\ idx'[p] = idx[p]
      BY <2>2 DEF Next, Put, PutLoad, PutTest, PutIndex, PutCopy, PutDone, GetHalf, GetAll,
                  Copy, CopyOutside, Advance, vars, Goto, Copying
    <3>2. idx[p] < wd_index_ BY <3>1, <1>1 DEF Before
    <3>3. idx[p] \in Nat BY DEF Indices
    <3> QED BY <3>1, <3>2, <3>3, <1>0, <1>1
  <2> QED BY <2>1, <2>2
<1>7. ASSUME NEW T \in Nat, T >= rd_index_' + size_ PROVE CrowdBound(T)'
  <2>1. T >= rd_index_ + size_
    <3>1. \A a, b, c, d \in Nat : a <= b /\ d >= b + c => d >= a + c OBVIOUS
    <3> QED BY ONLY <3>1, T \in Nat, <1>0, <1>1, <1>2, <1>7, Zenon
  <2>2. CrowdBound(T) BY <2>1, <1>1 DEF Before
  <2> QED BY <2>1, <2>2, <1>1, CrowdStep
<1> QED BY <1>1, <1>2, <1>4, <1>5, <1>6, <1>7 DEF Before

LEMMA SpecBefore == Spec => [](TypeInv /\ Before)
  BY TypeInit, TypeStep, BeforeInit, BeforeStep, PTL DEF Spec

\* Put lets at most all producers but one go past its test with a stale
\* wd_index_, for any number of them.
THEOREM OverrunIsCrowd == Spec => []OverrunBound
<1>1. ASSUME TypeInv, Before PROVE OverrunBound
  <2> SUFFICES ASSUME early
               PROVE  Held <= size_ + Cardinality(Producers) - 1
      BY DEF OverrunBound
  <2>1. /\ rd_index_ <= wd_index_ /\ wd_index_ \in Indices /\ rd_index_ \in Indices
        /\ \A T \in Nat : T >= rd_index_ + size_ => CrowdBound(T)
    BY <1>1 DEF Before, TypeInv, TypeOK
  <2>2. Held = wd_index_ - rd_index_ BY <2>1, Distance DEF Held
  <2> DEFINE T == rd_index_ + size_
             n == Cardinality(Crowd(T))
             P == Cardinality(Producers)
  <2>3. T \in Nat /\ wd_index_ \in Nat /\ rd_index_ \in Nat /\ size_ \in Nat
    BY <2>1, SizeFacts DEF Indices
  <2>4. wd_index_ + n <= T + P - 1 BY <2>1, <2>3 DEF CrowdBound
  <2>5. n \in Nat /\ P \in Nat BY CrowdFinite
  <2>6. wd_index_ - rd_index_ <= size_ + P - 1
    <3> HIDE DEF n, P
    <3> QED BY <2>3, <2>4, <2>5
  <2> QED BY <2>2, <2>6
<1> QED BY <1>1, SpecBefore, PTL

----------------------------------------------------------------------------
\* The end of the index space.  While the reader takes halves, rd_index_ + size_
\* is a multiple of half_size and, as it wraps, at most the last one below
\* Modulus: the crowd that passes the test then has half_size indices left.

LastHalf == Modulus - half_size

HalvesInv == halves => rd_index_ % half_size = 0 /\ CrowdBound(LastHalf)

LEMMA LastHalfNat == LastHalf \in Nat
  BY SizeFacts DEF LastHalf

\* Put is refused from the last half on.
LEMMA TestBound ==
  ASSUME NEW r \in Indices, r % half_size = 0
  PROVE  Add(r, size_) <= LastHalf
<1>1. PICK K \in Nat : Modulus = half_size * K BY SizeFacts
<1> DEFINE h == half_size
           q == r \div h
<1>2. /\ h \in Nat \ {0} /\ size_ = 2 * h /\ r \in Nat /\ r < Modulus
      /\ 4 * size_ <= Modulus /\ Modulus \in Nat
  BY SizeFacts DEF Indices
<1>3. q \in Int /\ r = h * q + (r % h) BY <1>2, DivMod
<1>4. r = h * q BY <1>2, <1>3
<1>5. Add(r, size_) = IF r + size_ < Modulus THEN r + size_ ELSE r + size_ - Modulus
  BY <1>2, AddIndex
<1> HIDE DEF q, h
<1>6. K - q - 2 \in Int /\ h * K - h * q - 2 * h = h * (K - q - 2) BY <1>2, <1>3
<1>7. Modulus - r - size_ = h * (K - q - 2) BY <1>1, <1>2, <1>4, <1>6 DEF h
<1>8. CASE r + size_ < Modulus
  <2>1. K - q - 2 >= 1
    <3>1. h * (K - q - 2) > 0 BY <1>2, <1>7, <1>8
    <3>2. \A x \in Int : h * x > 0 => x >= 1 BY <1>2, SMT
    <3> QED BY <3>1, <3>2, <1>6
  <2>2. h * (K - q - 2) >= h
    <3>1. \A x \in Int : x >= 1 => h * x >= h BY <1>2, SMT
    <3> QED BY <3>1, <2>1, <1>6
  <2>3. r + size_ <= Modulus - h BY <2>2, <1>2, <1>7
  <2> QED BY <2>3, <1>5, <1>8 DEF LastHalf, h
<1>9. CASE ~(r + size_ < Modulus)
  <2>1. r + size_ - Modulus <= Modulus - h BY <1>2
  <2> QED BY <2>1, <1>5, <1>9 DEF LastHalf, h
<1> QED BY <1>8, <1>9

\* One index more still fits below the wrap, for as many producers as half_size.
LEMMA IndexFits ==
  ASSUME TypeInv, HalvesInv, halves, Cardinality(Producers) <= half_size,
         NEW p \in Producers, PutIndex(p)
  PROVE  wd_index_' = wd_index_ + 1
<1> DEFINE n == Cardinality(Crowd(LastHalf))
           P == Cardinality(Producers)
           M == Modulus
           h == half_size
<1>1. /\ M \in Nat /\ h \in Nat \ {0} /\ size_ = 2 * h /\ wd_index_ \in Nat
      /\ wd_index_ \in Indices
  BY SizeFacts DEF TypeInv, TypeOK, Indices
<1>2. wd_index_ + n <= M - h + P - 1 BY DEF HalvesInv, CrowdBound, LastHalf
<1>3. n \in Nat /\ P \in Nat /\ P <= h BY CrowdFinite
<1>4. n # 0
  <2>1. p \in Crowd(LastHalf) BY DEF PutIndex, Crowd
  <2> QED BY <2>1, CrowdFinite, FS_EmptySet
<1>5. wd_index_ + 1 < M
  <2> HIDE DEF n, P, M, h
  <2> QED BY ONLY <1>1, <1>2, <1>3, <1>4
<1>6. Add(wd_index_, 1) = wd_index_ + 1 BY <1>1, <1>5, AddIndex
<1> QED BY <1>6 DEF PutIndex

LEMMA HalvesInit == Init => HalvesInv
<1> SUFFICES ASSUME Init PROVE HalvesInv OBVIOUS
<1>1. Crowd(LastHalf) = {} BY DEF Init, Crowd
<1>2. Cardinality(Producers) \in Nat /\ Cardinality(Producers) # 0
  BY RingBuffAssumption, FS_CardinalityType, FS_EmptySet
<1>3. Cardinality(Crowd(LastHalf)) = 0 BY <1>1, FS_EmptySet
<1>4. CrowdBound(LastHalf) BY <1>2, <1>3, LastHalfNat DEF Init, CrowdBound
<1>5. 0 % half_size = 0 BY SizeFacts
<1> QED BY <1>4, <1>5 DEF Init, HalvesInv

LEMMA HalvesStep ==
  ASSUME TypeInv, HalvesInv, [Next]_vars, Cardinality(Producers) <= half_size
  PROVE  HalvesInv' /\ (halves => wd_index_' >= wd_index_)
<1>0. wd_index_ \in Nat /\ rd_index_ \in Indices BY DEF TypeInv, TypeOK, Indices
<1>1. halves' => halves
  BY DEF Next, Put, PutLoad, PutTest, PutIndex, PutCopy, PutDone, GetHalf, GetAll, Copy, CopyOutside,
         Advance, vars, history
<1>2. ASSUME halves PROVE \A p \in Producers : PutIndex(p) => wd_index_' = wd_index_ + 1
  BY <1>2, IndexFits
<1>3. ASSUME halves PROVE CrowdBound(LastHalf)'
  <2>1. CrowdBound(LastHalf) /\ rd_index_ % half_size = 0 BY <1>3 DEF HalvesInv
  <2>2. Add(rd_index_, size_) <= LastHalf BY <2>1, <1>0, TestBound
  <2> HIDE DEF LastHalf
  <2> QED BY <2>1, <2>2, <1>2, <1>3, LastHalfNat, CrowdStep
<1>4. ASSUME halves' PROVE rd_index_' % half_size = 0
  <2>1. CASE Advance BY <2>1, <1>4 DEF Advance
  <2>2. CASE ~Advance
    <3>1. rd_index_' = rd_index_
      BY <2>2 DEF Next, Put, PutLoad, PutTest, PutIndex, PutCopy, PutDone, GetHalf, GetAll,
                  Copy, CopyOutside, vars
    <3> QED BY <3>1, <1>1, <1>4 DEF HalvesInv
  <2> QED BY <2>1, <2>2
<1>5. ASSUME halves PROVE wd_index_' >= wd_index_
  <2>1. CASE \E p \in Producers : PutIndex(p) BY <2>1, <1>5, <1>2, <1>0
  <2>2. CASE ~\E p \in Producers : PutIndex(p)
    <3>1. wd_index_' = wd_index_
      BY <2>2 DEF Next, Put, PutLoad, PutTest, PutCopy, PutDone, GetHalf, GetAll, Copy, CopyOutside,
                  Advance, vars
    <3> QED BY <3>1, <1>0
  <2> QED BY <2>1, <2>2
<1> QED BY <1>1, <1>3, <1>4, <1>5 DEF HalvesInv

\* A ring read by halves never wraps its wd_index_, for any size and width and
\* up to half_size producers: near the wrap it refuses every Put for good.
THEOREM IndexNeverWraps ==
  ASSUME Cardinality(Producers) <= half_size
  PROVE  Spec => NeverWraps
<1>1. TypeInv /\ HalvesInv /\ [Next]_vars => HalvesInv' BY HalvesStep
<1>2. TypeInv /\ HalvesInv /\ [Next]_vars => [halves => wd_index_' >= wd_index_]_vars
  BY HalvesStep
<1>3. TypeInv /\ [Next]_vars => TypeInv' BY TypeStep
<1> QED BY <1>1, <1>2, <1>3, TypeInit, HalvesInit, PTL DEF Spec, NeverWraps

----------------------------------------------------------------------------
\* What the slots hold before the last lap: the last size_ elements put, but
\* for the slots a producer is copying into and those written a lap late.

Explained(k) ==
  \/ data_[Slot(k)] = k
  \/ \E p \in Producers : Copying(p) /\ Slot(idx[p]) = Slot(k)
  \/ Slot(k) \in late

DataInv ==
  early => \A k \in Nat : k < wd_index_ /\ wd_index_ <= k + size_ => Explained(k)

LEMMA DataInit == Init => DataInv
  BY DEF Init, DataInv

\* A copy that ends leaves its own element, or one a lap late.
LEMMA DoneExplains ==
  ASSUME TypeInv, Before, early, NEW k \in Nat, NEW p \in Producers, PutDone(p),
         k < wd_index_, wd_index_ <= k + size_, Explained(k)
  PROVE  Explained(k)'
<1> DEFINE i == idx[p]
           s == Slot(i)
<1>1. /\ i \in Nat /\ i < wd_index_ /\ i \in Int /\ k \in Int
      /\ wd_index_ \in Nat /\ size_ \in Nat \ {0}
      /\ pc \in [Producers -> {"idle", "test", "index", "copy", "copying"}]
      /\ idx \in [Producers -> Indices]
      /\ data_ \in [Slots -> Indices \union {NoItem, Torn}]
  <2>1. i < wd_index_ BY DEF Before, PutDone, Copying
  <2> QED BY <2>1, SizeFacts DEF TypeInv, TypeOK, Indices
<1>2. s \in Slots /\ Slot(k) \in Slots BY <1>1, SlotInSlots
<1>3. /\ data_' = [data_ EXCEPT ![s] = i]
      /\ pc' = [pc EXCEPT ![p] = "idle"] /\ idx' = [idx EXCEPT ![p] = 0]
      /\ late' = IF wd_index_ > i + size_ THEN late \union {s} ELSE late \ {s}
  BY DEF PutDone, Goto
<1> HIDE DEF s, i
<1>4. CASE Slot(k) = s
  <2>1. CASE k = i
    <3>1. data_'[Slot(k)] = k BY <1>2, <1>3, <1>4, <2>1, <1>1
    <3> QED BY <3>1 DEF Explained
  <2>2. CASE k # i
    <3>1. i % size_ = k % size_ BY <1>4 DEF Slot, s
    <3>2. ~(k - i \in (1 - size_)..(size_ - 1))
      BY ONLY <3>1, <1>1, <2>2, ModInjective
    <3>3. wd_index_ > i + size_ BY ONLY <3>2, <1>1, k \in Nat, k < wd_index_, wd_index_ <= k + size_, SMT
    <3>4. Slot(k) \in late' BY <3>3, <1>3, <1>4
    <3> QED BY <3>4 DEF Explained
  <2> QED BY <2>1, <2>2
<1>5. CASE Slot(k) # s
  <2>1. CASE data_[Slot(k)] = k
    <3>1. data_'[Slot(k)] = k BY <2>1, <1>1, <1>2, <1>3, <1>5
    <3> QED BY <3>1 DEF Explained
  <2>2. ASSUME NEW q \in Producers, Copying(q), Slot(idx[q]) = Slot(k)
        PROVE  Explained(k)'
    <3>1. q # p BY <2>2, <1>5 DEF s, i
    <3>2. idx'[q] = idx[q] /\ pc'[q] = pc[q] BY <3>1, <1>1, <1>3
    <3>3. Copying(q)' /\ Slot(idx'[q]) = Slot(k) BY <2>2, <3>2 DEF Copying, Slot
    <3> QED BY <3>3 DEF Explained, Slot
  <2>3. CASE Slot(k) \in late
    <3>1. Slot(k) \in late' BY <2>3, <1>3, <1>5
    <3> QED BY <3>1 DEF Explained
  <2> QED BY <2>1, <2>2, <2>3 DEF Explained
<1> QED BY <1>4, <1>5

LEMMA DataStep ==
  ASSUME TypeInv, Before, DataInv, [Next]_vars
  PROVE  DataInv'
<1> SUFFICES ASSUME early', NEW k \in Nat, k < wd_index_', wd_index_' <= k + size_
             PROVE  Explained(k)'
    BY DEF DataInv
<1>1. /\ early
      /\ \A p \in Producers : PutIndex(p) => wd_index_' = wd_index_ + 1
      /\ wd_index_' \in {wd_index_, wd_index_ + 1}
  BY BeforeIndices
<1>2. /\ wd_index_ \in Nat /\ size_ \in Nat \ {0}
      /\ pc \in [Producers -> {"idle", "test", "index", "copy", "copying"}]
      /\ idx \in [Producers -> Indices]
      /\ data_ \in [Slots -> Indices \union {NoItem, Torn}]
  BY SizeFacts DEF TypeInv, TypeOK, Indices
<1>3. ASSUME NEW p \in Producers, PutIndex(p) PROVE Explained(k)'
  <2>1. /\ pc' = [pc EXCEPT ![p] = "copy"] /\ idx' = [idx EXCEPT ![p] = wd_index_]
        /\ data_' = data_ /\ late' = late /\ pc[p] = "index"
    BY <1>3 DEF PutIndex, Goto
  <2>2. wd_index_' = wd_index_ + 1 BY <1>1, <1>3
  <2>3. CASE k = wd_index_
    <3>1. Copying(p)' /\ idx'[p] = k BY <2>1, <2>3, <1>2 DEF Copying
    <3>2. Copying(p)' /\ Slot(idx'[p]) = Slot(k) BY <3>1
    <3> QED BY <3>2 DEF Explained, Slot
  <2>4. CASE k # wd_index_
    <3>1. k < wd_index_ /\ wd_index_ <= k + size_ BY <2>2, <2>4, <1>2
    <3>2. Explained(k) BY <3>1, <1>1 DEF DataInv
    <3>3. \A q \in Producers : Copying(q) => Copying(q)' /\ idx'[q] = idx[q]
      BY <2>1, <1>2 DEF Copying
    <3> QED BY <3>2, <3>3, <2>1 DEF Explained, Slot
  <2> QED BY <2>3, <2>4
<1>4. ASSUME ~\E p \in Producers : PutIndex(p)
      PROVE  Explained(k) /\ k < wd_index_ /\ wd_index_ <= k + size_
  <2>1. wd_index_' = wd_index_
    BY <1>4 DEF Next, Put, PutLoad, PutTest, PutCopy, PutDone, GetHalf, GetAll, Copy, CopyOutside,
                Advance, vars
  <2> QED BY <2>1, <1>1 DEF DataInv
<1>5. ASSUME NEW p \in Producers, PutCopy(p), Explained(k) PROVE Explained(k)'
  <2>1. /\ pc' = [pc EXCEPT ![p] = "copying"] /\ idx' = idx /\ late' = late
        /\ data_' = [data_ EXCEPT ![Slot(idx[p])] = Torn] /\ pc[p] = "copy"
    BY <1>5 DEF PutCopy, Goto, history
  <2>2. \A q \in Producers : Copying(q) => Copying(q)' BY <2>1, <1>2 DEF Copying
  <2>3. CASE Slot(idx[p]) = Slot(k)
    <3>1. Copying(p)' BY <2>1, <1>2 DEF Copying
    <3> QED BY <3>1, <2>1, <2>3 DEF Explained, Slot
  <2>4. CASE Slot(idx[p]) # Slot(k)
    <3>1. Slot(k) \in Slots BY SlotInSlots
    <3>2. data_'[Slot(k)] = data_[Slot(k)] BY <2>1, <2>4, <3>1, <1>2
    <3> QED BY <1>5, <3>2, <2>1, <2>2 DEF Explained, Slot
  <2> QED BY <2>3, <2>4
<1>6. ASSUME NEW p \in Producers, PutDone(p), Explained(k), k < wd_index_, wd_index_ <= k + size_
      PROVE  Explained(k)'
  BY <1>1, <1>6, DoneExplains
<1>7. ASSUME NEW p \in Producers, PutLoad(p) \/ PutTest(p), Explained(k) PROVE Explained(k)'
  <2>1. data_' = data_ /\ late' = late
    BY <1>7 DEF PutLoad, PutTest, history
  <2>2. \A q \in Producers : Copying(q) => Copying(q)' /\ idx'[q] = idx[q]
    BY <1>7, <1>2 DEF PutLoad, PutTest, Goto, Copying
  <2> QED BY <1>7, <2>1, <2>2 DEF Explained, Slot
<1>8. ASSUME GetHalf \/ GetAll \/ Copy \/ CopyOutside \/ Advance \/ UNCHANGED vars, Explained(k)
      PROVE  Explained(k)'
  <2>1. UNCHANGED <<data_, late, pc, idx>>
    BY <1>8 DEF GetHalf, GetAll, Copy, CopyOutside, Advance, vars, history
  <2> QED BY <1>8, <2>1 DEF Explained, Copying, Slot
<1> QED BY <1>3, <1>4, <1>5, <1>6, <1>7, <1>8 DEF Next, Put

\* The reader of halves stays on the boundaries of the halves.
HalfAligned == halves => rd_index_ % half_size = 0

LEMMA AlignedInit == Init => HalfAligned
  BY SizeFacts DEF Init, HalfAligned

LEMMA AlignedStep == HalfAligned /\ [Next]_vars => HalfAligned'
<1> SUFFICES ASSUME HalfAligned, [Next]_vars, halves' PROVE rd_index_' % half_size = 0
    BY DEF HalfAligned
<1>1. CASE Advance BY <1>1 DEF Advance
<1>2. CASE ~Advance
  <2>1. rd_index_' = rd_index_ /\ halves' = halves
    BY <1>2 DEF Next, Put, PutLoad, PutTest, PutIndex, PutCopy, PutDone, GetHalf, GetAll,
                Copy, CopyOutside, vars, history
  <2> QED BY <2>1 DEF HalfAligned
<1> QED BY <1>1, <1>2

\* A half that starts on such a boundary ends inside data_.
LEMMA HalfInside ==
  ASSUME TypeInv, HalfAligned, halves, rpc = "half", j < half_size
  PROVE  Position < size_
<1> DEFINE r == rd_index_
           h == half_size
           s == Slot(r)
           q == r \div size_
<1>1. /\ h \in Nat \ {0} /\ size_ = 2 * h /\ size_ \in Nat \ {0} /\ r \in Int /\ r % h = 0
      /\ j \in Nat
  BY SizeFacts DEF TypeInv, TypeOK, Indices, HalfAligned
<1>2. q \in Int /\ s \in 0..(size_ - 1) /\ r = size_ * q + s
  BY <1>1, DivMod DEF Slot
<1>3. r \div h \in Int /\ r = h * (r \div h) + (r % h) BY <1>1, DivMod
<1> DEFINE t == r \div h
<1>4. t \in Int /\ r = h * t BY <1>1, <1>3
<1> HIDE DEF s, q, r, h, t
<1>5. s = h * (t - 2 * q) /\ t - 2 * q \in Int
  BY <1>1, <1>2, <1>4, SMT
<1>6. t - 2 * q <= 1
  <2>1. \A x \in Int : x >= 2 => h * x >= 2 * h BY <1>1, SMT
  <2> QED BY <2>1, <1>1, <1>2, <1>5
<1>7. s <= h
  <2>1. \A x \in Int : x <= 1 => h * x <= h BY <1>1, SMT
  <2> QED BY <2>1, <1>5, <1>6
<1>8. j < h BY DEF h
<1>9. s + j < size_ BY <1>1, <1>2, <1>7, <1>8
<1> QED BY <1>9 DEF Position, s, r

\* Inside data_ the reader is at the slot of the index it asks for.
LEMMA PositionIsSlot ==
  ASSUME TypeInv, Position < size_
  PROVE  Position = Slot(rd_index_ + j)
<1> DEFINE r == rd_index_
           s == Slot(r)
           q == r \div size_
<1>1. /\ size_ \in Nat \ {0} /\ r \in Int /\ j \in Nat
  BY SizeFacts DEF TypeInv, TypeOK, Indices
<1>2. q \in Int /\ s \in 0..(size_ - 1) /\ r = size_ * q + s
  BY <1>1, DivMod DEF Slot
<1>3. s + j < size_ BY DEF Position
<1> HIDE DEF s, q, r
<1>4. s + j \in 0..(size_ - 1) /\ r + j = size_ * q + (s + j) BY <1>1, <1>2, <1>3
<1>5. (r + j) % size_ = s + j BY ONLY <1>1, <1>2, <1>4, SMT
<1> QED BY <1>5 DEF Position, Slot, s, r

\* Whatever the interleaving, the reader gets the element it asks for unless its
\* producer is still copying, finished a lap late, was overrun, or the reader is
\* past the end of data_, where GetHalf never is in a ring read by halves only.
THEOREM ReadsAreExplained == Spec => ReadExplained
<1> DEFINE
  Asked == (Copy \/ CopyOutside) /\ j < (IF rpc = "half" THEN half_size ELSE size) /\ early
  Got == LET k == rd_index_ + j
         IN /\ k < wd_index_
            /\ \/ Position < size_ /\ data_[Position] = k
               \/ Position >= size_ /\ (rpc = "half" => ~halves)
               \/ \E p \in Producers : pc[p] \in {"copy", "copying"}
                                      /\ Slot(idx[p]) = Slot(k)
               \/ Slot(k) \in late
               \/ Held > size_ + j
<1>1. ASSUME TypeInv, Before, DataInv, HalfAligned, Asked PROVE Got
  <2> DEFINE k == rd_index_ + j
  <2>1. /\ wd_index_ \in Nat /\ rd_index_ \in Nat /\ j \in Nat /\ size \in Nat
        /\ size_ \in Nat /\ half_size \in Nat /\ k \in Nat
        /\ wd_index_ \in Indices /\ rd_index_ \in Indices
    BY <1>1, SizeFacts DEF TypeInv, TypeOK, Indices
  <2>2. rpc \in {"half", "all"} BY <1>1 DEF Copy, CopyOutside, Unfinished
  <2>3. /\ rd_index_ <= wd_index_
        /\ rpc = "half" => wd_index_ >= rd_index_ + half_size
        /\ rpc = "all" => size <= wd_index_ - rd_index_
    BY <1>1 DEF Before
  <2>4. k < wd_index_
    <3>1. CASE rpc = "half" BY <3>1, <2>1, <2>3, <1>1
    <3>2. CASE rpc = "all" BY <3>2, <2>1, <2>3, <1>1
    <3> QED BY <3>1, <3>2, <2>2
  <2>5. Held = wd_index_ - rd_index_ BY <2>1, <2>3, Distance DEF Held
  <2>6. CASE Held > size_ + j BY <2>4, <2>6
  <2>7. CASE ~(Held > size_ + j)
    <3>1. wd_index_ <= k + size_ BY <2>1, <2>5, <2>7
    <3>2. Explained(k) BY <1>1, <2>1, <2>4, <3>1 DEF DataInv
    <3>3. CASE Position < size_
      <4>1. Position = Slot(k) BY <1>1, <3>3, PositionIsSlot
      <4> QED BY <2>4, <3>2, <3>3, <4>1 DEF Explained, Copying
    <3>4. CASE ~(Position < size_)
      <4>1. rpc = "half" => ~halves BY <1>1, <3>4, HalfInside
      <4>2. Position >= size_
        <5>1. Position \in Int
          <6>1. Slot(rd_index_) \in Slots BY <2>1, SlotInSlots
          <6> QED BY <6>1, <2>1 DEF Position, Slots
        <5> QED BY <5>1, <3>4, <2>1
      <4> QED BY <2>4, <4>1, <4>2
    <3> QED BY <3>3, <3>4
  <2> QED BY <2>6, <2>7
<1>2. Spec => [](TypeInv /\ Before /\ DataInv /\ HalfAligned)
  BY SpecBefore, DataInit, DataStep, AlignedInit, AlignedStep, TypeInit, TypeStep,
     BeforeInit, BeforeStep, PTL DEF Spec
<1>3. TypeInv /\ Before /\ DataInv /\ HalfAligned => [Asked => Got]_vars BY <1>1
<1> QED BY <1>2, <1>3, PTL DEF ReadExplained

----------------------------------------------------------------------------
\* The rounding.  The shifts that leave something of a are the first ones, as
\* many as the exponent of the least power of two above a.

\* A finite set of numbers with every number below each of its members.
LEMMA DownwardIsInterval ==
  ASSUME NEW S \in SUBSET Nat, IsFiniteSet(S), \A s \in S : 0..s \subseteq S
  PROVE  S = 0..(Cardinality(S) - 1)
<1> DEFINE m == Cardinality(S)
<1>1. m \in Nat BY FS_CardinalityType
<1>2. S \subseteq 0..(m - 1)
  <2> SUFFICES ASSUME NEW s \in S, s >= m PROVE FALSE BY <1>1
  <2>1. 0 \in Int /\ s \in Int /\ s \in Nat OBVIOUS
  <2>2. Cardinality(0..s) = IF 0 > s THEN 0 ELSE s - 0 + 1 BY <2>1, FS_Interval
  <2>3. Cardinality(0..s) <= m BY FS_Subset
  <2> HIDE DEF m
  <2> QED BY <1>1, <2>1, <2>2, <2>3
<1>3. /\ IsFiniteSet(0..(m - 1))
      /\ Cardinality(0..(m - 1)) = m
  <2>1. 0 \in Int /\ m - 1 \in Int BY <1>1
  <2>2. /\ IsFiniteSet(0..(m - 1))
        /\ Cardinality(0..(m - 1)) = IF 0 > m - 1 THEN 0 ELSE (m - 1) - 0 + 1
    BY <2>1, FS_Interval
  <2>3. (IF 0 > m - 1 THEN 0 ELSE (m - 1) - 0 + 1) = m
    <3> HIDE DEF m
    <3> QED BY <1>1
  <2> QED BY <2>2, <2>3
<1> QED BY <1>2, <1>3, FS_Subset

LEMMA RoundupFacts ==
  ASSUME NEW a \in 0..(2 ^ (Bits - 1))
  PROVE  \E m \in 0..(Bits - 1) :
           /\ roundup_power_of_2(a) = 2 ^ m /\ a <= 2 ^ m
           /\ \A k \in Nat : 2 ^ k >= a => m <= k
<1>1. Bits \in Nat /\ Bits >= 2 /\ Bits - 1 \in Nat BY RingBuffAssumption
<1>2. a \in Nat /\ a <= 2 ^ (Bits - 1) /\ 2 ^ (Bits - 1) \in Nat
  BY <1>1, PowerPositive
<1>3. CASE is_power_of_2(a)
  <2>1. PICK m \in 0..(Bits - 1) : a = 2 ^ m BY <1>3 DEF is_power_of_2
  <2>2. m \in Nat /\ 2 ^ m \in Nat BY <1>1, PowerPositive
  <2>3. roundup_power_of_2(a) = 2 ^ m BY <1>3, <2>1 DEF roundup_power_of_2
  <2>4. ASSUME NEW k \in Nat, 2 ^ k >= a PROVE m <= k
    <3>1. k < m => 2 ^ k < 2 ^ m BY <2>2, PowerMonotone
    <3>2. 2 ^ k \in Nat BY PowerPositive
    <3> QED BY <3>1, <3>2, <2>1, <2>2, <2>4
  <2> QED BY <2>1, <2>2, <2>3, <2>4
<1>4. CASE ~is_power_of_2(a)
  <2> DEFINE S == {k \in 0..(Bits - 1) : a \div 2 ^ k # 0}
             m == Cardinality(S)
  <2>1. roundup_power_of_2(a) = 2 ^ m BY <1>4 DEF roundup_power_of_2
  <2>2. ASSUME NEW k \in 0..(Bits - 1) PROVE k \in S <=> 2 ^ k <= a
    <3>1. k \in Nat /\ 2 ^ k \in Nat \ {0} BY <1>1, PowerPositive
    <3>2. CASE 2 ^ k <= a BY <3>1, <3>2, <1>2, QuotientPositive
    <3>3. CASE ~(2 ^ k <= a)
      <4>1. a < 2 ^ k BY <3>1, <3>3, <1>2
      <4>2. a \div 2 ^ k = 0 BY <4>1, <3>1, <1>2, QuotientZero
      <4> QED BY <4>2, <3>3
    <3> QED BY <3>2, <3>3
  <2>3. S \subseteq 0..(Bits - 1) OBVIOUS
  <2> HIDE DEF S
  <2>4. S \in SUBSET Nat /\ IsFiniteSet(S) /\ m \in Nat
    <3>1. 0 \in Int /\ Bits - 1 \in Int BY <1>1
    <3>2. IsFiniteSet(0..(Bits - 1)) BY <3>1, FS_Interval
    <3>3. IsFiniteSet(S) BY <3>2, <2>3, FS_Subset
    <3>4. 0..(Bits - 1) \subseteq Nat BY <1>1
    <3> QED BY <3>3, <3>4, <2>3, FS_CardinalityType
  <2>5. \A s \in S : 0..s \subseteq S
    <3> SUFFICES ASSUME NEW s \in S, NEW k \in 0..s PROVE k \in S OBVIOUS
    <3>1. s \in 0..(Bits - 1) /\ k \in 0..(Bits - 1) /\ k \in Nat /\ s \in Nat /\ k <= s
      BY <2>3, <1>1
    <3>2. 2 ^ s <= a BY <3>1, <2>2
    <3>3. 2 ^ k <= 2 ^ s /\ 2 ^ k \in Nat /\ 2 ^ s \in Nat
      BY <3>1, PowerMonotone, PowerPositive
    <3>4. 2 ^ k <= a BY <3>2, <3>3, <1>2
    <3> QED BY <3>1, <3>4, <2>2
  <2>6. S = 0..(m - 1) BY <2>4, <2>5, DownwardIsInterval
  <2> HIDE DEF m
  <2>7. m <= Bits - 1
    <3> SUFFICES ASSUME m > Bits - 1 PROVE FALSE BY <2>4, <1>1
    <3>1. Bits - 1 \in S /\ Bits - 1 \in 0..(Bits - 1) BY <2>4, <2>6, <1>1
    <3>2. 2 ^ (Bits - 1) <= a BY <3>1, <2>2
    <3>3. a = 2 ^ (Bits - 1) BY <3>2, <1>2
    <3> QED BY <3>1, <3>3, <1>4 DEF is_power_of_2
  <2>8. m \in 0..(Bits - 1) /\ m \notin S BY <2>4, <2>6, <2>7, <1>1
  <2>9. a <= 2 ^ m
    <3>1. ~(2 ^ m <= a) BY <2>8, <2>2
    <3>2. 2 ^ m \in Nat BY <2>4, PowerPositive
    <3> QED BY <3>1, <3>2, <1>2
  <2>10. ASSUME NEW k \in Nat, 2 ^ k >= a PROVE m <= k
    <3> SUFFICES ASSUME k < m PROVE FALSE BY <2>4
    <3>1. k \in S /\ k \in 0..(Bits - 1) BY <2>4, <2>6, <2>7, <1>1
    <3>2. 2 ^ k <= a BY <3>1, <2>2
    <3>3. a = 2 ^ k
      <4>1. 2 ^ k \in Nat BY PowerPositive
      <4> QED BY <3>2, <2>10, <4>1, <1>2
    <3> QED BY <3>1, <3>3, <1>4 DEF is_power_of_2
  <2> QED BY <2>1, <2>8, <2>9, <2>10
<1> QED BY <1>3, <1>4

\* The constructor's rounding is the least power of two that is enough, for
\* every width, and data_ has exactly that many slots.
THEOREM RoundupIsRight == Spec => []RoundupIsLeast
<1>1. ASSUME TypeInv PROVE RoundupIsLeast
  <2> SUFFICES ASSUME NEW a \in 0..(2 ^ (Bits - 1))
               PROVE  /\ roundup_power_of_2(a)
                           = Min({2 ^ k : k \in {k \in 0..(Bits - 1) : 2 ^ k >= a}})
                      /\ a = Size => DOMAIN data_ = 0..(roundup_power_of_2(a) - 1)
      BY DEF RoundupIsLeast
  <2>1. PICK m \in 0..(Bits - 1) :
          /\ roundup_power_of_2(a) = 2 ^ m /\ a <= 2 ^ m
          /\ \A k \in Nat : 2 ^ k >= a => m <= k
    BY RoundupFacts
  <2> DEFINE T == {2 ^ k : k \in {k \in 0..(Bits - 1) : 2 ^ k >= a}}
  <2>2. /\ m \in Nat /\ a \in Nat /\ 2 ^ m \in Nat
        /\ \A k \in 0..(Bits - 1) : k \in Nat
    <3>1. Bits \in Nat /\ Bits - 1 \in Nat BY RingBuffAssumption
    <3> QED BY <3>1, PowerPositive
  <2>3. 2 ^ m \in T BY <2>1, <2>2
  <2>4. ASSUME NEW y \in T PROVE y \in Nat /\ 2 ^ m <= y
    <3>1. PICK k \in 0..(Bits - 1) : y = 2 ^ k /\ 2 ^ k >= a OBVIOUS
    <3>2. k \in Nat /\ m <= k BY <3>1, <2>1, <2>2
    <3> QED BY <3>1, <3>2, <2>2, PowerMonotone, PowerPositive
  <2> HIDE DEF T
  <2>5. Min(T) = 2 ^ m
    <3>1. \A x \in T : (\A y \in T : x <= y) => x = 2 ^ m
      <4> SUFFICES ASSUME NEW x \in T, \A y \in T : x <= y PROVE x = 2 ^ m OBVIOUS
      <4>1. x <= 2 ^ m /\ 2 ^ m <= x /\ x \in Nat BY <2>3, <2>4
      <4> QED BY <4>1, <2>2
    <3>2. \A y \in T : 2 ^ m <= y BY <2>4
    <3> QED BY <2>3, <3>1, <3>2, Zenon DEF Min
  <2>6. DOMAIN data_ = 0..(size_ - 1) BY <1>1 DEF TypeInv, TypeOK, Slots
  <2> QED BY <2>1, <2>5, <2>6 DEF T, size_
<1> QED BY <1>1, TypeInit, TypeStep, PTL DEF Spec
====
