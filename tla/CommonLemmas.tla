---- MODULE CommonLemmas ----
(***************************************************************************)
(* Quotients, remainders, powers of two, parts of sequences, induction up  *)
(* to a number and FlattenSeq, as the proofs about several components use  *)
(* them.                                                                   *)
(***************************************************************************)
EXTENDS Integers, Sequences, SequencesExt, FiniteSetTheorems, FunctionTheorems,
        SequenceTheorems, TLAPS

\* What division with remainder gives.
LEMMA DivMod ==
  ASSUME NEW m \in Nat \ {0}, NEW a \in Int
  PROVE  /\ a % m \in 0..(m - 1)
         /\ a \div m \in Int
         /\ a = m * (a \div m) + (a % m)
  BY SMT

\* The only multiple of m closer to 0 than m is 0.
LEMMA SmallMultiple ==
  ASSUME NEW m \in Nat \ {0}, NEW k \in Int, m * k \in (1 - m)..(m - 1)
  PROVE  k = 0
<1>1. CASE k >= 1
  <2>1. m * k >= m BY <1>1, SMT
  <2> QED BY <2>1, SMT
<1>2. CASE k <= -1
  <2>1. m * k <= -m BY <1>2, SMT
  <2> QED BY <2>1, SMT
<1> QED BY <1>1, <1>2, SMT

\* Numbers closer to each other than S have different remainders.
LEMMA ModInjective ==
  ASSUME NEW S \in Nat \ {0}, NEW x \in Int, NEW y \in Int,
         x % S = y % S, y - x \in (1 - S)..(S - 1)
  PROVE  x = y
<1> DEFINE p == x \div S
           q == y \div S
           r == x % S
<1>1. p \in Int /\ q \in Int /\ r \in Int /\ x = S * p + r /\ y = S * q + r BY DivMod
<1> HIDE DEF p, q, r
<1>2. y - x = S * q - S * p BY <1>1, SMT
<1>3. S * q - S * p = S * (q - p) BY <1>1, SMT
<1>4. q - p \in Int BY <1>1
<1>5. S * (q - p) \in (1 - S)..(S - 1) BY <1>2, <1>3
<1>6. q - p = 0 BY ONLY <1>5, <1>4, SmallMultiple
<1> QED BY <1>6, <1>1, SMT

\* Adding a multiple of S keeps the remainder.
LEMMA ModPeriodic ==
  ASSUME NEW S \in Nat \ {0}, NEW K \in Nat, NEW x \in Int
  PROVE  (x + S * K) % S = x % S
<1> DEFINE p == x \div S
           r == x % S
           z == x + S * K
           w == z \div S
           t == z % S
<1>1. z \in Int OBVIOUS
<1>2. r \in 0..(S - 1) /\ p \in Int /\ x = S * p + r BY DivMod
<1>3. t \in 0..(S - 1) /\ w \in Int /\ z = S * w + t BY <1>1, DivMod
<1> HIDE DEF w, t, p, r
<1>4. z = S * p + S * K + r BY <1>2 DEF z
<1>5. S * p + S * K = S * (p + K) BY <1>2, SMT
<1>6. S * (p + K) - S * w = S * (p + K - w) BY <1>2, <1>3, SMT
<1>7. S * (p + K - w) = t - r BY <1>1, <1>2, <1>3, <1>4, <1>5, <1>6, SMT
<1>8. p + K - w \in Int BY <1>2, <1>3
<1>9. S * (p + K - w) \in (1 - S)..(S - 1) BY <1>2, <1>3, <1>7
<1>10. p + K - w = 0 BY ONLY <1>8, <1>9, SmallMultiple
<1>11. t = r BY <1>2, <1>3, <1>7, <1>10
<1> QED BY <1>11 DEF t, r, z

\* A quotient is 0 just below the divisor.
LEMMA QuotientZero ==
  ASSUME NEW a \in Nat, NEW d \in Nat \ {0}, a < d
  PROVE  a \div d = 0
<1>1. a % d \in 0..(d - 1) /\ a \div d \in Int /\ a = d * (a \div d) + (a % d) BY DivMod
<1> DEFINE q == a \div d
           r == a % d
<1> HIDE DEF q, r
<1>2. q \in Int /\ r \in 0..(d - 1) /\ a = d * q + r BY <1>1 DEF q, r
<1>3. d * q \in (1 - d)..(d - 1) BY <1>2, SMT
<1>4. q = 0 BY ONLY <1>2, <1>3, d \in Nat \ {0}, SmallMultiple
<1> QED BY <1>4 DEF q

LEMMA QuotientPositive ==
  ASSUME NEW a \in Nat, NEW d \in Nat \ {0}, d <= a
  PROVE  a \div d # 0
<1> DEFINE q == a \div d
           r == a % d
<1>1. q \in Int /\ r \in 0..(d - 1) /\ a = d * q + r BY DivMod
<1> HIDE DEF q, r
<1>2. q # 0 BY <1>1
<1> QED BY <1>2 DEF q

\* A number between two multiples has the quotient of the lower.
LEMMA QuotientIs ==
  ASSUME NEW m \in Nat \ {0}, NEW q \in Nat, NEW r \in 0..(m - 1)
  PROVE  (q * m + r) \div m = q
<1> DEFINE x == q * m + r
           p == x \div m
           t == x % m
<1>1. q * m \in Nat /\ x \in Int BY SMT
<1>2. t \in 0..(m - 1) /\ p \in Int /\ x = m * p + t BY <1>1, DivMod
<1> HIDE DEF p, t
<1>3. m * (p - q) = r - t BY <1>2
<1>4. r - t \in (1 - m)..(m - 1) BY <1>2
<1>5. p - q = 0 BY <1>2, <1>3, <1>4, SmallMultiple
<1> QED BY <1>2, <1>5 DEF p

----------------------------------------------------------------------------
\* Powers of two.  2 ^ n is the number of sets of n numbers, and a set of m + k
\* numbers is a set of the first m and a set of the others.

LEMMA PowerCounts ==
  ASSUME NEW S, IsFiniteSet(S)
  PROVE  IsFiniteSet(SUBSET S) /\ Cardinality(SUBSET S) = 2 ^ Cardinality(S)
  BY FS_SUBSET

LEMMA PowerPositive == ASSUME NEW m \in Nat PROVE 2 ^ m \in Nat \ {0}
<1>1. IsFiniteSet(1..m) /\ Cardinality(1..m) = m BY FS_Interval
<1>2. IsFiniteSet(SUBSET (1..m)) /\ Cardinality(SUBSET (1..m)) = 2 ^ m
  BY <1>1, PowerCounts
<1>3. SUBSET (1..m) # {} OBVIOUS
<1>4. Cardinality(SUBSET (1..m)) \in Nat /\ Cardinality(SUBSET (1..m)) # 0
  BY <1>2, <1>3, FS_CardinalityType, FS_EmptySet
<1> QED BY <1>2, <1>4

LEMMA PowerSum ==
  ASSUME NEW m \in Nat, NEW k \in Nat
  PROVE  2 ^ (m + k) = 2 ^ m * 2 ^ k
<1> DEFINE A == 1..m
           B == (m + 1)..(m + k)
           C == 1..(m + k)
           f == [X \in SUBSET C |-> <<X \intersect A, X \intersect B>>]
<1>1. /\ IsFiniteSet(A) /\ Cardinality(A) = m
      /\ IsFiniteSet(B) /\ Cardinality(B) = k
      /\ IsFiniteSet(C) /\ Cardinality(C) = m + k
  <2>1. m \in Int /\ k \in Int /\ m + 1 \in Int /\ m + k \in Int /\ 1 \in Int OBVIOUS
  <2>2. IsFiniteSet(A) /\ Cardinality(A) = m BY <2>1, FS_Interval
  <2>3. IsFiniteSet(C) /\ Cardinality(C) = m + k
    <3>1. /\ IsFiniteSet(C)
          /\ Cardinality(C) = IF 1 > m + k THEN 0 ELSE (m + k) - 1 + 1
      BY <2>1, FS_Interval
    <3>2. (IF 1 > m + k THEN 0 ELSE (m + k) - 1 + 1) = m + k OBVIOUS
    <3> QED BY <3>1, <3>2
  <2>4. /\ IsFiniteSet(B)
        /\ Cardinality(B) = IF m + 1 > m + k THEN 0 ELSE (m + k) - (m + 1) + 1
    BY <2>1, FS_Interval
  <2>5. (IF m + 1 > m + k THEN 0 ELSE (m + k) - (m + 1) + 1) = k OBVIOUS
  <2> QED BY <2>2, <2>3, <2>4, <2>5
<1>2. C = A \union B /\ A \intersect B = {} OBVIOUS
<1> HIDE DEF A, B, C
<1>3. f \in [SUBSET C -> (SUBSET A) \X (SUBSET B)] OBVIOUS
<1>4. \A X, Y \in SUBSET C : f[X] = f[Y] => X = Y
  <2> SUFFICES ASSUME NEW X \in SUBSET C, NEW Y \in SUBSET C, f[X] = f[Y] PROVE X = Y OBVIOUS
  <2>1. X \intersect A = Y \intersect A /\ X \intersect B = Y \intersect B OBVIOUS
  <2> QED BY <2>1, <1>2
<1>5. \A z \in (SUBSET A) \X (SUBSET B) : \E X \in SUBSET C : f[X] = z
  <2> SUFFICES ASSUME NEW Y \in SUBSET A, NEW Z \in SUBSET B
               PROVE  \E X \in SUBSET C : f[X] = <<Y, Z>>
    <3> TAKE z \in (SUBSET A) \X (SUBSET B)
    <3>1. PICK Y \in SUBSET A, Z \in SUBSET B : z = <<Y, Z>> OBVIOUS
    <3> HIDE DEF f
    <3> QED BY <3>1
  <2>1. Y \union Z \in SUBSET C BY <1>2
  <2>2. (Y \union Z) \intersect A = Y /\ (Y \union Z) \intersect B = Z BY <1>2
  <2>3. f[Y \union Z] = <<Y, Z>> BY <2>1, <2>2
  <2> QED BY <2>1, <2>3
<1>6. ExistsBijection(SUBSET C, (SUBSET A) \X (SUBSET B))
  <2> HIDE DEF f
  <2>1. f \in Bijection(SUBSET C, (SUBSET A) \X (SUBSET B)) BY <1>3, <1>4, <1>5, Fun_IsBij
  <2> QED BY <2>1 DEF ExistsBijection
<1>7. /\ IsFiniteSet(SUBSET A) /\ Cardinality(SUBSET A) = 2 ^ m
      /\ IsFiniteSet(SUBSET B) /\ Cardinality(SUBSET B) = 2 ^ k
      /\ IsFiniteSet(SUBSET C) /\ Cardinality(SUBSET C) = 2 ^ (m + k)
  BY <1>1, PowerCounts
<1>8. Cardinality((SUBSET A) \X (SUBSET B)) = Cardinality(SUBSET C)
  BY <1>6, <1>7, FS_Bijection
<1>9. Cardinality((SUBSET A) \X (SUBSET B)) = Cardinality(SUBSET A) * Cardinality(SUBSET B)
  BY <1>7, FS_Product
<1> QED BY <1>7, <1>8, <1>9

LEMMA PowersOneTwo == 2 ^ 0 = 1 /\ 2 ^ 1 = 2
<1>1. Cardinality(SUBSET {}) = 2 ^ 0 BY FS_EmptySet, PowerCounts
<1>2. SUBSET {} = {{}} OBVIOUS
<1>3. 2 ^ 0 = 1 BY <1>1, <1>2, FS_Singleton
<1>4. IsFiniteSet({1}) /\ Cardinality({1}) = 1 BY FS_Singleton
<1>5. Cardinality(SUBSET {1}) = 2 ^ 1 BY <1>4, PowerCounts
<1>6. SUBSET {1} = {{}} \union {{1}} /\ {1} # {} OBVIOUS
<1>7. Cardinality({{}} \union {{1}}) = 2
  <2>1. IsFiniteSet({{}}) /\ Cardinality({{}}) = 1 BY FS_Singleton
  <2>2. {1} \notin {{}} BY <1>6
  <2>3. Cardinality({{}} \union {{1}}) = Cardinality({{}}) + 1
    BY <2>1, <2>2, FS_AddElement
  <2>4. 1 + 1 = 2 OBVIOUS
  <2> QED BY <2>1, <2>3, <2>4, Zenon
<1> QED BY <1>3, <1>5, <1>6, <1>7

LEMMA PowerMonotone ==
  ASSUME NEW m \in Nat, NEW k \in Nat
  PROVE  /\ m <= k => 2 ^ m <= 2 ^ k
         /\ m < k => 2 ^ m < 2 ^ k
<1>1. 2 ^ m \in Nat \ {0} BY PowerPositive
<1>2. ASSUME m <= k PROVE 2 ^ m <= 2 ^ k
  <2>1. k - m \in Nat /\ m + (k - m) = k BY <1>2
  <2>2. 2 ^ k = 2 ^ m * 2 ^ (k - m)
    <3>1. 2 ^ (m + (k - m)) = 2 ^ m * 2 ^ (k - m) BY <2>1, PowerSum
    <3> QED BY <2>1, <3>1
  <2>3. 2 ^ (k - m) \in Nat \ {0} BY <2>1, PowerPositive
  <2>4. \A x, y \in Nat \ {0} : x <= x * y BY SMT
  <2> QED BY <2>2, <2>3, <2>4, <1>1
<1>3. ASSUME m < k PROVE 2 ^ m < 2 ^ k
  <2>1. k - m - 1 \in Nat /\ (m + 1) + (k - m - 1) = k /\ m + 1 \in Nat BY <1>3
  <2>2. 2 ^ (m + 1) = 2 ^ m * 2 BY PowerSum, PowersOneTwo
  <2>3. 2 ^ k = 2 ^ (m + 1) * 2 ^ (k - m - 1)
    <3>1. 2 ^ ((m + 1) + (k - m - 1)) = 2 ^ (m + 1) * 2 ^ (k - m - 1) BY <2>1, PowerSum
    <3> QED BY <2>1, <3>1
  <2>4. 2 ^ (k - m - 1) \in Nat \ {0} BY <2>1, PowerPositive
  <2>5. \A x, y \in Nat \ {0} : x < (x * 2) * y BY SMT
  <2> QED BY <2>2, <2>3, <2>4, <2>5, <1>1
<1> QED BY <1>2, <1>3

----------------------------------------------------------------------------
\* The first n elements of a sequence, and those behind them.

LEMMA PrefixOfSeq ==
  ASSUME NEW S, NEW s \in Seq(S), NEW n \in 0..Len(s)
  PROVE  /\ SubSeq(s, 1, n) \in Seq(S) /\ Len(SubSeq(s, 1, n)) = n
         /\ \A k \in 1..n : SubSeq(s, 1, n)[k] = s[k]
<1>1. n \in Nat /\ \A k \in 1..n : s[k] \in S BY LenProperties
<1>2. 1 \in Int /\ n \in Int /\ (IF 1 <= n THEN n - 1 + 1 ELSE 0) = n BY <1>1
<1>3. /\ SubSeq(s, 1, n) \in Seq(S)
      /\ Len(SubSeq(s, 1, n)) = IF 1 <= n THEN n - 1 + 1 ELSE 0
      /\ \A k \in 1..(n - 1 + 1) : SubSeq(s, 1, n)[k] = s[1 + k - 1]
  BY <1>1, <1>2, SubSeqProperties
<1>4. \A k \in 1..n : k \in 1..(n - 1 + 1) /\ 1 + k - 1 = k BY <1>1
<1> QED BY <1>2, <1>3, <1>4

LEMMA SuffixOfSeq ==
  ASSUME NEW S, NEW s \in Seq(S), NEW n \in 0..Len(s)
  PROVE  /\ SubSeq(s, n + 1, Len(s)) \in Seq(S)
         /\ Len(SubSeq(s, n + 1, Len(s))) = Len(s) - n
         /\ \A k \in 1..(Len(s) - n) : SubSeq(s, n + 1, Len(s))[k] = s[n + k]
<1> DEFINE m == Len(s)
<1>1. m \in Nat /\ n \in Nat /\ n <= m /\ \A k \in (n + 1)..m : s[k] \in S
  BY LenProperties
<1> HIDE DEF m
<1>2. /\ n + 1 \in Int /\ m \in Int
      /\ (IF n + 1 <= m THEN m - (n + 1) + 1 ELSE 0) = m - n
  BY <1>1
<1>3. /\ SubSeq(s, n + 1, m) \in Seq(S)
      /\ Len(SubSeq(s, n + 1, m)) = IF n + 1 <= m THEN m - (n + 1) + 1 ELSE 0
      /\ \A k \in 1..(m - (n + 1) + 1) : SubSeq(s, n + 1, m)[k] = s[n + 1 + k - 1]
  BY <1>1, <1>2, SubSeqProperties
<1>4. \A k \in 1..(m - n) : k \in 1..(m - (n + 1) + 1) /\ n + 1 + k - 1 = n + k BY <1>1
<1> QED BY <1>2, <1>3, <1>4 DEF m

\* A sequence without its k-th element.
LEMMA DropProperties ==
  ASSUME NEW S, NEW s \in Seq(S), NEW k \in 1..Len(s)
  PROVE  LET Drop == SubSeq(s, 1, k - 1) \o SubSeq(s, k + 1, Len(s))
         IN /\ Drop \in Seq(S) /\ Len(Drop) = Len(s) - 1
            /\ \A i \in 1..(Len(s) - 1) :
                 Drop[i] = s[IF i < k THEN i ELSE i + 1]
<1> DEFINE m == Len(s)
           u == SubSeq(s, 1, k - 1)
           v == SubSeq(s, k + 1, m)
<1>1. m \in Nat /\ k \in 1..m /\ k - 1 \in 0..m /\ k \in 0..m BY LenProperties
<1>2. u \in Seq(S) /\ Len(u) = k - 1 /\ \A i \in 1..(k - 1) : u[i] = s[i]
  BY <1>1, PrefixOfSeq
<1>3. v \in Seq(S) /\ Len(v) = m - k /\ \A i \in 1..(m - k) : v[i] = s[k + i]
  BY <1>1, SuffixOfSeq
<1>4. SubSeq(s, 1, k - 1) \o SubSeq(s, k + 1, Len(s)) = u \o v OBVIOUS
<1> HIDE DEF m, u, v
<1>5. /\ u \o v \in Seq(S) /\ Len(u \o v) = Len(u) + Len(v)
      /\ \A i \in 1..(Len(u) + Len(v)) :
           (u \o v)[i] = IF i <= Len(u) THEN u[i] ELSE v[i - Len(u)]
  BY <1>2, <1>3, ConcatProperties
<1>6. ASSUME NEW i \in 1..(m - 1)
      PROVE  (u \o v)[i] = s[IF i < k THEN i ELSE i + 1]
  <2>1. i \in 1..(Len(u) + Len(v)) BY <1>1, <1>2, <1>3
  <2>2. CASE i < k
    <3>1. i \in 1..(k - 1) /\ i <= Len(u) BY <1>1, <1>2, <2>2
    <3>2. (u \o v)[i] = u[i] BY <1>5, <2>1, <3>1
    <3> QED BY <1>2, <2>2, <3>1, <3>2
  <2>3. CASE ~(i < k)
    <3>1. /\ i - Len(u) \in 1..(m - k) /\ ~(i <= Len(u))
          /\ k + (i - Len(u)) = i + 1
      BY <1>1, <1>2, <2>3
    <3>2. (u \o v)[i] = v[i - Len(u)] BY <1>5, <2>1, <3>1
    <3>3. v[i - Len(u)] = s[k + (i - Len(u))] BY <1>3, <3>1
    <3> QED BY <2>3, <3>1, <3>2, <3>3
  <2> QED BY <2>2, <2>3
<1>7. Len(u) + Len(v) = m - 1 BY <1>1, <1>2, <1>3
<1> QED BY <1>4, <1>5, <1>6, <1>7 DEF m

\* A sequence is its two parts.
LEMMA SplitSeq ==
  ASSUME NEW S, NEW s \in Seq(S), NEW n \in 0..Len(s)
  PROVE  SubSeq(s, 1, n) \o SubSeq(s, n + 1, Len(s)) = s
<1>1. Len(s) \in Nat /\ 1 \in 1..(Len(s) + 1) /\ n \in (1 - 1)..Len(s) /\ Len(s) \in n..Len(s)
  BY LenProperties
<1>2. SubSeq(s, 1, n) \o SubSeq(s, n + 1, Len(s)) = SubSeq(s, 1, Len(s))
  BY <1>1, ConcatAdjacentSubSeq
<1>3. SubSeq(s, 1, Len(s)) = s
  <2>1. /\ SubSeq(s, 1, Len(s)) \in Seq(S) /\ Len(SubSeq(s, 1, Len(s))) = Len(s)
        /\ \A k \in 1..Len(s) : SubSeq(s, 1, Len(s))[k] = s[k]
    BY <1>1, PrefixOfSeq
  <2> QED BY <2>1, SeqEqual
<1> QED BY <1>2, <1>3
----------------------------------------------------------------------------
\* Induction.  The library's induction theorems have an operator parameter, so
\* the least counterexample takes their place: the sets 1..n are finite, and
\* finite sets have no infinite descent.

LEMMA LeastNat ==
  ASSUME NEW T \in SUBSET Nat, T # {}
  PROVE  \E m \in T : \A n \in T : m <= n
<1> DEFINE R == StrictSubsetOrdering(Nat)
           F == {1..n : n \in T}
<1>1. F \subseteq FiniteSubsetsOf(Nat)
  <2> SUFFICES ASSUME NEW n \in T PROVE 1..n \in FiniteSubsetsOf(Nat) OBVIOUS
  <2>1. n \in Int /\ 1 \in Int /\ 1..n \in SUBSET Nat OBVIOUS
  <2>2. IsFiniteSet(1..n) BY <2>1, FS_Interval
  <2> QED BY <2>1, <2>2 DEF FiniteSubsetsOf
<1>2. F # {} OBVIOUS
<1>3. IsWellFoundedOn(R, FiniteSubsetsOf(Nat)) BY FS_StrictSubsetOrderingWellFounded
<1> HIDE DEF R
<1>4. \E x \in F : \A y \in F : ~(<<y, x>> \in R)
  <2> HIDE DEF F
  <2> QED BY <1>1, <1>2, <1>3, WFMin
<1>5. PICK m \in T : \A n \in T : <<1..n, 1..m>> \notin R BY <1>4
<1>6. ASSUME NEW n \in T, n < m PROVE FALSE
  <2>1. n \in Nat /\ m \in Nat OBVIOUS
  <2>2. 1..n \subseteq 1..m /\ m \in 1..m /\ m \notin 1..n BY <1>6, <2>1
  <2>3. 1..n \in SUBSET Nat /\ 1..m \in SUBSET Nat BY <2>1
  <2>4. <<1..n, 1..m>> \in R BY <2>2, <2>3 DEF R, StrictSubsetOrdering
  <2> QED BY <1>5, <2>4
<1>7. \A n \in T : m <= n BY <1>6
<1> QED BY <1>7

\* A set of numbers that holds 0, and n + 1 with every n < N it holds, holds
\* every number up to N.
LEMMA UpTo ==
  ASSUME NEW N \in Nat, NEW P, 0 \in P, \A n \in 0..(N - 1) : n \in P => n + 1 \in P
  PROVE  \A n \in 0..N : n \in P
<1> SUFFICES ASSUME NEW x \in 0..N, x \notin P PROVE FALSE OBVIOUS
<1> DEFINE T == {n \in 0..N : n \notin P}
<1>1. T \in SUBSET Nat /\ T # {} OBVIOUS
<1> HIDE DEF T
<1>2. PICK m \in T : \A n \in T : m <= n BY <1>1, LeastNat
<1>3. m \in 0..N /\ m \notin P BY <1>2 DEF T
<1>4. m # 0 BY <1>3
<1>5. m - 1 \in 0..(N - 1) /\ m - 1 \in 0..N /\ ~(m <= m - 1) /\ (m - 1) + 1 = m BY <1>3, <1>4
<1>6. m - 1 \notin T BY <1>2, <1>5
<1>7. m - 1 \in P BY <1>5, <1>6 DEF T
<1> QED BY <1>3, <1>5, <1>7

\* A bounded set of numbers has a greatest one.
LEMMA GreatestNat ==
  ASSUME NEW T \in SUBSET Nat, T # {}, NEW b \in Nat, \A n \in T : n <= b
  PROVE  \E m \in T : \A n \in T : n <= m
<1> DEFINE U == {b - n : n \in T}
<1>1. U \in SUBSET Nat /\ U # {} OBVIOUS
<1> HIDE DEF U
<1>2. PICK u \in U : \A v \in U : u <= v BY <1>1, LeastNat
<1>3. PICK m \in T : u = b - m BY DEF U
<1>4. ASSUME NEW n \in T PROVE n <= m
  <2>1. b - n \in U BY DEF U
  <2>2. b - m <= b - n BY <1>2, <1>3, <2>1
  <2> QED BY <2>2
<1> QED BY <1>4

\* So have the values of a function on the first N numbers.
LEMMA ValuesBounded ==
  ASSUME NEW N \in Nat, NEW f, \A k \in 1..N : f[k] \in Nat
  PROVE  \E b \in Nat : \A k \in 1..N : f[k] <= b
<1> DEFINE P == {n \in 0..N : \E b \in Nat : \A k \in 1..n : f[k] <= b}
<1>1. 0 \in P OBVIOUS
<1>2. ASSUME NEW n \in 0..(N - 1), n \in P PROVE n + 1 \in P
  <2>1. PICK b \in Nat : \A k \in 1..n : f[k] <= b BY <1>2
  <2>2. n + 1 \in 1..N /\ f[n + 1] \in Nat /\ n + 1 \in 0..N OBVIOUS
  <2>3. b + f[n + 1] \in Nat BY <2>2
  <2>4. ASSUME NEW k \in 1..(n + 1) PROVE f[k] <= b + f[n + 1]
    <3>1. CASE k \in 1..n BY <3>1, <2>1, <2>2
    <3>2. CASE k = n + 1 BY <3>2, <2>2
    <3> QED BY <3>1, <3>2
  <2> QED BY <2>2, <2>3, <2>4
<1> HIDE DEF P
<1>3. \A n \in 0..N : n \in P BY <1>1, <1>2, UpTo
<1>4. N \in P BY <1>3
<1> QED BY <1>4 DEF P
----------------------------------------------------------------------------
\* FlattenSeq.

\* FlattenSeq is a recursive function, which exists: a prefix of it does, and
\* each prefix can be made longer by one.
LEMMA FlattenDef ==
  ASSUME NEW s, NEW n \in Nat \ {0}, Len(s) = n
  PROVE  \E fl : /\ fl = [i \in 1..n |-> IF i = 1 THEN s[i] ELSE fl[i - 1] \o s[i]]
                 /\ FlattenSeq(s) = fl[n]
<1> DEFINE Step(fl, m) == [i \in 1..m |-> IF i = 1 THEN s[i] ELSE fl[i - 1] \o s[i]]
           P == {m \in 0..n : \E fl : fl = Step(fl, m)}
           flatten[i \in 1..n] == IF i = 1 THEN s[i] ELSE flatten[i - 1] \o s[i]
<1>1. 0 \in P
  <2> DEFINE g == [i \in 1..0 |-> s[i]]
  <2>1. g = Step(g, 0) OBVIOUS
  <2>2. \E fl : fl = Step(fl, 0) BY <2>1, Zenon
  <2>3. 0 \in 0..n OBVIOUS
  <2> QED BY <2>2, <2>3, Zenon
<1>2. ASSUME NEW m \in 0..(n - 1), m \in P PROVE m + 1 \in P
  <2>1. PICK fl : fl = Step(fl, m) BY <1>2
  <2> DEFINE g == [i \in 1..(m + 1) |-> IF i = 1 THEN s[i] ELSE fl[i - 1] \o s[i]]
  <2>2. \A i \in 1..m : i \in 1..(m + 1) /\ g[i] = fl[i]
    <3>1. \A i \in 1..m : fl[i] = IF i = 1 THEN s[i] ELSE fl[i - 1] \o s[i] BY <2>1, Zenon
    <3>2. \A i \in 1..m : i \in 1..(m + 1) OBVIOUS
    <3> QED BY <3>1, <3>2, Zenon
  <2>3. \A i \in 1..(m + 1) : i = 1 \/ i - 1 \in 1..m OBVIOUS
  <2>4. \A i \in 1..(m + 1) : i = 1 \/ g[i - 1] = fl[i - 1]
    <3> HIDE DEF g
    <3> QED BY <2>2, <2>3
  <2>5. g = [i \in 1..(m + 1) |-> IF i = 1 THEN s[i] ELSE g[i - 1] \o s[i]]
    <3>1. \A i \in 1..(m + 1) : (IF i = 1 THEN s[i] ELSE fl[i - 1] \o s[i])
                               = (IF i = 1 THEN s[i] ELSE g[i - 1] \o s[i])
      <4> HIDE DEF g
      <4> QED BY <2>4
    <3> DEFINE h == [i \in 1..(m + 1) |-> IF i = 1 THEN s[i] ELSE g[i - 1] \o s[i]]
    <3>2. \A i \in 1..(m + 1) : g[i] = h[i] BY <3>1, Zenon
    <3> QED BY <3>2, Zenon
  <2>6. m + 1 \in 0..n OBVIOUS
  <2> HIDE DEF g
  <2> QED BY <2>5, <2>6
<1>3. n \in P
  <2> HIDE DEF P
  <2>1. \A m \in 0..n : m \in P BY <1>1, <1>2, UpTo
  <2> QED BY <2>1
<1>4. \E fl : fl = Step(fl, n) BY <1>3
<1>5. flatten = Step(flatten, n) BY <1>4, Zenon DEF flatten
<1>6. FlattenSeq(s) = flatten[n] BY Zenon DEF FlattenSeq
<1> QED BY <1>5, <1>6

LEMMA FlattenProperties ==
  ASSUME NEW S, NEW s \in Seq(Seq(S))
  PROVE  /\ FlattenSeq(s) \in Seq(S)
         /\ (s # <<>> /\ \A k \in 1..Len(s) : s[k] # <<>>) => FlattenSeq(s) # <<>>
<1> DEFINE n == Len(s)
           Filled == \A k \in 1..n : s[k] # <<>>
<1>1. n \in Nat /\ \A k \in 1..n : s[k] \in Seq(S) BY LenProperties
<1>2. CASE s = <<>>
  <2>1. Len(s) = 0 BY <1>2, EmptySeq
  <2>2. FlattenSeq(s) = <<>> BY <1>2, <2>1 DEF FlattenSeq
  <2> QED BY <1>2, <2>2, EmptySeq
<1>3. CASE s # <<>>
  <2>1. n \in Nat \ {0} BY <1>3, EmptySeq
  <2>2. PICK fl : /\ fl = [i \in 1..n |-> IF i = 1 THEN s[i] ELSE fl[i - 1] \o s[i]]
                  /\ FlattenSeq(s) = fl[n]
    BY <2>1, FlattenDef
  <2>3. \A i \in 1..n : fl[i] = IF i = 1 THEN s[i] ELSE fl[i - 1] \o s[i] BY <2>2, Zenon
  <2> HIDE DEF n
  <2> DEFINE P == {m \in 0..n : m = 0 \/ (fl[m] \in Seq(S) /\ (Filled => fl[m] # <<>>))}
  <2>4. 0 \in P BY <1>1
  <2>5. ASSUME NEW m \in 0..(n - 1), m \in P PROVE m + 1 \in P
    <3>1. m + 1 \in 1..n /\ m + 1 \in 0..n /\ (m + 1) - 1 = m /\ m \in Nat BY <1>1
    <3>2. s[m + 1] \in Seq(S) /\ (Filled => s[m + 1] # <<>>) BY <1>1, <3>1
    <3>3. CASE m = 0
      <4>1. fl[m + 1] = s[m + 1] BY <2>3, <3>1, <3>3
      <4> QED BY <3>1, <3>2, <4>1, Zenon
    <3>4. CASE m # 0
      <4>0. m + 1 # 1 BY <3>1, <3>4
      <4>1. fl[m + 1] = fl[m] \o s[m + 1]
        <5>1. fl[m + 1] = IF m + 1 = 1 THEN s[m + 1] ELSE fl[(m + 1) - 1] \o s[m + 1]
          BY <2>3, <3>1, Zenon
        <5> QED BY <5>1, <4>0, <3>1, Zenon
      <4>2. fl[m] \in Seq(S) BY <2>5, <3>4
      <4>3. fl[m] \o s[m + 1] \in Seq(S) BY <3>2, <4>2, ConcatProperties
      <4>4. fl[m] \o s[m + 1] = <<>> => s[m + 1] = <<>>
        BY <3>2, <4>2, ConcatEqualIffEmpty
      <4> QED BY <3>1, <3>2, <4>1, <4>3, <4>4, Zenon
    <3> QED BY <3>3, <3>4
  <2>6. n \in P
    <3> HIDE DEF P
    <3>1. \A m \in 0..n : m \in P BY <1>1, <2>4, <2>5, UpTo
    <3> QED BY <1>1, <3>1
  <2> QED BY <2>1, <2>2, <2>6 DEF n
<1> QED BY <1>2, <1>3

\* Parts of one element each.
LEMMA FlattenSingles ==
  ASSUME NEW S, NEW s \in Seq(Seq(S)), \A k \in 1..Len(s) : Len(s[k]) = 1
  PROVE  /\ FlattenSeq(s) \in Seq(S) /\ Len(FlattenSeq(s)) = Len(s)
         /\ \A k \in 1..Len(s) : FlattenSeq(s)[k] = s[k][1]
<1> DEFINE n == Len(s)
<1>1. n \in Nat /\ \A k \in 1..n : s[k] \in Seq(S) /\ Len(s[k]) = 1 BY LenProperties
<1>2. CASE s = <<>>
  <2>1. Len(s) = 0 BY <1>2, EmptySeq
  <2>2. FlattenSeq(s) = <<>> BY <1>2, <2>1 DEF FlattenSeq
  <2>3. 1..Len(s) = {} BY <2>1
  <2> QED BY <1>2, <2>1, <2>2, <2>3, EmptySeq, Zenon
<1>3. CASE s # <<>>
  <2>1. n \in Nat \ {0} BY <1>3, EmptySeq
  <2>2. PICK fl : /\ fl = [i \in 1..n |-> IF i = 1 THEN s[i] ELSE fl[i - 1] \o s[i]]
                  /\ FlattenSeq(s) = fl[n]
    BY <2>1, FlattenDef
  <2>3. \A i \in 1..n : fl[i] = IF i = 1 THEN s[i] ELSE fl[i - 1] \o s[i] BY <2>2, Zenon
  <2> HIDE DEF n
  <2> DEFINE Good(m) == fl[m] \in Seq(S) /\ Len(fl[m]) = m /\ \A k \in 1..m : fl[m][k] = s[k][1]
             P == {m \in 0..n : m = 0 \/ Good(m)}
  <2>4. 0 \in P BY <1>1
  <2>5. ASSUME NEW m \in 0..(n - 1), m \in P PROVE m + 1 \in P
    <3>1. m + 1 \in 1..n /\ m + 1 \in 0..n /\ (m + 1) - 1 = m /\ m \in Nat BY <1>1
    <3>2. s[m + 1] \in Seq(S) /\ Len(s[m + 1]) = 1 BY <1>1, <3>1
    <3>3. CASE m = 0
      <4>1. fl[m + 1] = s[m + 1] BY <2>3, <3>1, <3>3
      <4>2. \A k \in 1..(m + 1) : k = 1 /\ m + 1 = 1 BY <3>3
      <4>3. \A k \in 1..(m + 1) : fl[m + 1][k] = s[k][1] BY <4>1, <4>2
      <4>4. Len(fl[m + 1]) = m + 1 BY <3>2, <3>3, <4>1
      <4> QED BY <3>1, <3>2, <4>1, <4>3, <4>4, Zenon
    <3>4. CASE m # 0
      <4>0. m + 1 # 1 BY <3>1, <3>4
      <4>1. fl[m + 1] = fl[m] \o s[m + 1]
        <5>1. fl[m + 1] = IF m + 1 = 1 THEN s[m + 1] ELSE fl[(m + 1) - 1] \o s[m + 1]
          BY <2>3, <3>1, Zenon
        <5> QED BY <5>1, <4>0, <3>1, Zenon
      <4>2. fl[m] \in Seq(S) /\ Len(fl[m]) = m /\ \A k \in 1..m : fl[m][k] = s[k][1]
        BY <2>5, <3>4
      <4> DEFINE u == fl[m]
                 v == s[m + 1]
      <4>3. u \in Seq(S) /\ v \in Seq(S) /\ Len(u) = m /\ Len(v) = 1 BY <4>2, <3>2
      <4> HIDE DEF u, v
      <4>4. /\ u \o v \in Seq(S) /\ Len(u \o v) = m + 1
            /\ \A i \in 1..(m + 1) : (u \o v)[i] = IF i <= m THEN u[i] ELSE v[i - m]
        <5>1. /\ u \o v \in Seq(S) /\ Len(u \o v) = Len(u) + Len(v)
              /\ \A i \in 1..(Len(u) + Len(v)) :
                   (u \o v)[i] = IF i <= Len(u) THEN u[i] ELSE v[i - Len(u)]
          BY <4>3, ConcatProperties
        <5>2. Len(u) + Len(v) = m + 1 BY <4>3
        <5> QED BY <4>3, <5>1, <5>2, Zenon
      <4>5. ASSUME NEW k \in 1..(m + 1) PROVE (u \o v)[k] = s[k][1]
        <5>1. CASE k <= m
          <6>1. k \in 1..m BY <5>1
          <6> QED BY <4>2, <4>4, <5>1, <6>1 DEF u
        <5>2. CASE ~(k <= m)
          <6>1. k = m + 1 /\ k - m = 1 BY <5>2, <3>1
          <6> QED BY <4>4, <5>2, <6>1 DEF v
        <5> QED BY <5>1, <5>2
      <4>6. fl[m + 1] = u \o v BY <4>1 DEF u, v
      <4>7. Good(m + 1)
        <5>1. fl[m + 1] \in Seq(S) BY <4>4, <4>6
        <5>2. Len(fl[m + 1]) = m + 1 BY <4>4, <4>6
        <5>3. \A k \in 1..(m + 1) : fl[m + 1][k] = s[k][1] BY <4>5, <4>6
        <5> QED BY <5>1, <5>2, <5>3, Zenon
      <4> HIDE DEF Good
      <4> QED BY <3>1, <4>7
    <3> QED BY <3>3, <3>4
  <2>6. n \in P
    <3> HIDE DEF P
    <3>1. \A m \in 0..n : m \in P BY <1>1, <2>4, <2>5, UpTo
    <3> QED BY <1>1, <3>1
  <2>7. Good(n)
    <3> HIDE DEF Good
    <3> QED BY <2>1, <2>6
  <2> QED BY <2>2, <2>7 DEF n
<1> QED BY <1>2, <1>3

\* One more part.
LEMMA FlattenAppend ==
  ASSUME NEW S, NEW s \in Seq(Seq(S)), NEW x \in Seq(S)
  PROVE  FlattenSeq(Append(s, x)) = FlattenSeq(s) \o x
<1> DEFINE n == Len(s)
           t == Append(s, x)
<1>1. n \in Nat /\ \A k \in 1..n : s[k] \in Seq(S) BY LenProperties
<1>2. t \in Seq(Seq(S)) /\ Len(t) = n + 1 /\ t[n + 1] = x /\ \A k \in 1..n : t[k] = s[k]
  BY AppendProperties
<1> HIDE DEF t
<1>3. Len(t) \in Nat \ {0} /\ n + 1 \in Nat \ {0} BY <1>1, <1>2
<1>4. PICK g : /\ g = [i \in 1..(n + 1) |-> IF i = 1 THEN t[i] ELSE g[i - 1] \o t[i]]
               /\ FlattenSeq(t) = g[n + 1]
  BY <1>2, <1>3, FlattenDef
<1>5. \A i \in 1..(n + 1) : g[i] = IF i = 1 THEN t[i] ELSE g[i - 1] \o t[i] BY <1>4, Zenon
<1>6. CASE n = 0
  <2>1. s = <<>> BY <1>6, EmptySeq
  <2>2. FlattenSeq(s) = <<>> BY <1>6, <2>1 DEF FlattenSeq
  <2>3. g[n + 1] = t[n + 1] BY <1>5, <1>6
  <2>4. <<>> \o x = x BY ConcatEmptySeq
  <2> QED BY <1>2, <1>4, <2>2, <2>3, <2>4, Zenon DEF t
<1>7. CASE n # 0
  <2>1. n \in Nat \ {0} BY <1>1, <1>7
  <2>2. PICK f : /\ f = [i \in 1..n |-> IF i = 1 THEN s[i] ELSE f[i - 1] \o s[i]]
                 /\ FlattenSeq(s) = f[n]
    BY <2>1, FlattenDef
  <2>3. \A i \in 1..n : f[i] = IF i = 1 THEN s[i] ELSE f[i - 1] \o s[i] BY <2>2, Zenon
  <2> HIDE DEF n
  <2> DEFINE P == {m \in 0..n : m = 0 \/ g[m] = f[m]}
  <2>4. 0 \in P BY <1>1
  <2>5. ASSUME NEW m \in 0..(n - 1), m \in P PROVE m + 1 \in P
    <3>1. m + 1 \in 1..n /\ m + 1 \in 0..n /\ m + 1 \in 1..(n + 1) /\ (m + 1) - 1 = m
      BY <1>1
    <3>2. t[m + 1] = s[m + 1] BY <1>2, <3>1
    <3>3. m # 0 => m + 1 # 1 /\ g[m] = f[m] BY <2>5
    <3>4. /\ g[m + 1] = IF m + 1 = 1 THEN t[m + 1] ELSE g[(m + 1) - 1] \o t[m + 1]
          /\ f[m + 1] = IF m + 1 = 1 THEN s[m + 1] ELSE f[(m + 1) - 1] \o s[m + 1]
      BY <1>5, <2>3, <3>1, Zenon
    <3>5. m = 0 => m + 1 = 1 OBVIOUS
    <3>6. g[m + 1] = f[m + 1]
      <4>1. CASE m = 0 BY <3>2, <3>4, <3>5, <4>1, Zenon
      <4>2. CASE m # 0 BY <3>1, <3>2, <3>3, <3>4, <4>2, Zenon
      <4> QED BY <4>1, <4>2
    <3> QED BY <3>1, <3>6
  <2>6. n \in P
    <3> HIDE DEF P
    <3>1. \A m \in 0..n : m \in P BY <1>1, <2>4, <2>5, UpTo
    <3> QED BY <1>1, <3>1
  <2>7. g[n] = f[n] BY <2>1, <2>6
  <2>8. n + 1 # 1 /\ (n + 1) - 1 = n /\ n + 1 \in 1..(n + 1) BY <2>1
  <2>9. g[n + 1] = g[n] \o t[n + 1]
    <3>1. g[n + 1] = IF n + 1 = 1 THEN t[n + 1] ELSE g[(n + 1) - 1] \o t[n + 1]
      BY <1>5, <2>8, Zenon
    <3> QED BY <2>8, <3>1, Zenon
  <2> QED BY <1>2, <1>4, <2>2, <2>7, <2>9, Zenon DEF t
<1> QED BY <1>6, <1>7
====
