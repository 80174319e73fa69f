---- MODULE CmdLineProofs ----
(***************************************************************************)
(* Theorems about CmdLine: for every alphabet, list of hints, length of    *)
(* history, number of entries kept, any keys, saves and deaths of the      *)
(* program, and any length of line (of which the one about the terminal    *)
(* speaks only for a line that fits in one of its rows).                   *)
(***************************************************************************)
EXTENDS CmdLine, CommonLemmas

----------------------------------------------------------------------------
\* Max and Min.

LEMMA MaxIs ==
  ASSUME NEW T \in SUBSET Nat, T # {}, NEW b \in Nat, \A n \in T : n <= b
  PROVE  Max(T) \in T /\ \A n \in T : n <= Max(T)
<1>1. PICK m \in T : \A n \in T : n <= m BY GreatestNat
<1>2. \A n \in T : m >= n BY <1>1
<1>3. Max(T) \in T /\ \A n \in T : Max(T) >= n BY <1>2, Zenon DEF Max
<1> QED BY <1>3

LEMMA MinIs ==
  ASSUME NEW T \in SUBSET Nat, T # {}
  PROVE  Min(T) \in T /\ \A n \in T : Min(T) <= n
<1>1. \E m \in T : \A n \in T : m <= n BY LeastNat
<1> QED BY <1>1, Zenon DEF Min

LEMMA OfTwo ==
  ASSUME NEW a \in Int, NEW b \in Int
  PROVE  /\ Max({a, b}) = IF a >= b THEN a ELSE b
         /\ Min({a, b}) = IF a <= b THEN a ELSE b
  BY DEF Max, Min

----------------------------------------------------------------------------
\* Sizes.

Longest == Max({Len(Hints[h]) : h \in DOMAIN Hints} \union {Len(Help)})

\* The terminal row has room for the longest hint or line, and a space.
LEMMA Sizes ==
  /\ Longest \in Nat /\ Len(Help) <= Longest
  /\ \A h \in DOMAIN Hints : Hints[h] \in Lines /\ Len(Hints[h]) <= Longest
  /\ DOMAIN Hints = 1..Len(Hints) /\ Len(Hints) \in Nat
  /\ Width = MaxLine + Longest + 2 /\ Width \in Nat /\ MaxLine \in Nat
<1> DEFINE T == {Len(Hints[h]) : h \in DOMAIN Hints} \union {Len(Help)}
           N == Len(Hints)
           f == [h \in 1..N |-> Len(Hints[h])]
<1>1. DOMAIN Hints = 1..N /\ N \in Nat BY KeysAssumption, LenProperties
<1>2. \A h \in 1..N : Hints[h] \in Lines BY KeysAssumption, ElementOfSeq
<1>3. Len(Help) \in Nat BY KeysAssumption, LenProperties DEF Lines
<1>4. \A h \in 1..N : Len(Hints[h]) \in Nat BY <1>2, LenProperties DEF Lines
<1>5. \A h \in 1..N : f[h] \in Nat BY <1>4
<1>6. PICK b \in Nat : \A h \in 1..N : f[h] <= b
  <2> HIDE DEF f, N
  <2> QED BY <1>1, <1>5, ValuesBounded
<1>7. T \in SUBSET Nat /\ T # {} BY <1>1, <1>3, <1>4
<1>8. \A n \in T : n <= b + Len(Help)
  <2> SUFFICES ASSUME NEW n \in T PROVE n <= b + Len(Help) OBVIOUS
  <2>1. CASE n = Len(Help) BY <2>1, <1>3
  <2>2. ASSUME NEW h \in 1..N, n = Len(Hints[h]) PROVE n <= b + Len(Help)
    <3>1. f[h] <= b /\ f[h] = n BY <1>6, <2>2
    <3> QED BY <3>1, <1>3, <1>4, <2>2
  <2> QED BY <2>1, <2>2, <1>1
<1>9. b + Len(Help) \in Nat BY <1>3
<1>10. Max(T) \in T /\ \A n \in T : n <= Max(T)
  <2> HIDE DEF T
  <2> QED BY <1>7, <1>8, <1>9, MaxIs
<1>11. Longest = Max(T) BY Zenon DEF Longest
<1>12. Longest \in Nat /\ \A n \in T : n <= Longest BY <1>7, <1>10, <1>11
<1>13. Len(Help) \in T /\ \A h \in 1..N : Len(Hints[h]) \in T BY <1>1
<1>14. Width = MaxLine + Longest + 2 BY Zenon DEF Width, Longest
<1> HIDE DEF T, f, N
<1>15. Len(Help) <= Longest /\ \A h \in 1..N : Len(Hints[h]) <= Longest BY <1>12, <1>13
<1>16. MaxLine \in Nat /\ Width \in Nat BY <1>12, <1>14, SizesAssumption
<1> QED BY <1>1, <1>2, <1>12, <1>14, <1>15, <1>16 DEF N

----------------------------------------------------------------------------
\* RTrim and Trim.

LEMMA RTrimIs ==
  ASSUME NEW S, NEW l \in Seq(S)
  PROVE  \E n \in 0..Len(l) :
           /\ RTrim(l) = SubSeq(l, 1, n)
           /\ n = 0 \/ l[n] \notin Blanks
           /\ \A k \in (n + 1)..Len(l) : l[k] \in Blanks
<1> DEFINE T == {k \in DOMAIN l : l[k] \notin Blanks} \union {0}
<1>1. DOMAIN l = 1..Len(l) /\ Len(l) \in Nat BY LenProperties
<1>2. T \in SUBSET Nat /\ T # {} /\ \A n \in T : n <= Len(l) BY <1>1
<1>3. Max(T) \in T /\ \A n \in T : n <= Max(T)
  <2> HIDE DEF T
  <2> QED BY <1>1, <1>2, MaxIs
<1>4. RTrim(l) = SubSeq(l, 1, Max(T)) BY DEF RTrim
<1> DEFINE m == Max(T)
<1> HIDE DEF m
<1>5. m \in T /\ RTrim(l) = SubSeq(l, 1, m) /\ \A n \in T : n <= m BY <1>3, <1>4 DEF m
<1>6. m \in 0..Len(l) /\ (m = 0 \/ l[m] \notin Blanks) BY <1>5, <1>1
<1>7. ASSUME NEW k \in (m + 1)..Len(l) PROVE l[k] \in Blanks
  <2>1. k \in DOMAIN l /\ ~(k <= m) BY <1>1, <1>6
  <2>2. k \notin T BY <2>1, <1>5
  <2> QED BY <2>1, <2>2
<1> QED BY <1>5, <1>6, <1>7

\* What RTrim leaves ends in something that can be seen.
Trimmed(l) == l = <<>> \/ l[Len(l)] \notin Blanks

LEMMA RTrimTrimmed ==
  ASSUME NEW S, NEW l \in Seq(S)
  PROVE  /\ RTrim(l) \in Seq(S) /\ Len(RTrim(l)) <= Len(l) /\ Trimmed(RTrim(l))
         /\ \A k \in 1..Len(RTrim(l)) : RTrim(l)[k] = l[k]
<1>1. PICK n \in 0..Len(l) : RTrim(l) = SubSeq(l, 1, n) /\ (n = 0 \/ l[n] \notin Blanks)
  BY RTrimIs
<1> DEFINE r == RTrim(l)
<1>2. r \in Seq(S) /\ Len(r) = n /\ \A k \in 1..n : r[k] = l[k] BY <1>1, PrefixOfSeq
<1> HIDE DEF r
<1>3. n \in Nat /\ Len(l) \in Nat /\ n <= Len(l) BY LenProperties
<1>4. Trimmed(r)
  <2>1. CASE n = 0 BY <2>1, <1>2, EmptySeq DEF Trimmed
  <2>2. CASE n # 0
    <3>1. n \in 1..n BY <2>2, <1>3
    <3> QED BY <1>1, <1>2, <2>2, <3>1 DEF Trimmed
  <2> QED BY <2>1, <2>2
<1> QED BY <1>2, <1>3, <1>4 DEF r

LEMMA TrimTrimmed ==
  ASSUME NEW S, NEW l \in Seq(S)
  PROVE  Trim(l) \in Seq(S) /\ Len(Trim(l)) <= Len(l) /\ Trimmed(Trim(l))
<1> DEFINE T == {k \in DOMAIN l : l[k] # " "} \union {Len(l) + 1}
           r == RTrim(l)
           a == Min(T)
           n == Len(r)
<1>1. DOMAIN l = 1..Len(l) /\ Len(l) \in Nat BY LenProperties
<1>2. T \in SUBSET (Nat \ {0}) /\ T # {}
  <2>1. Len(l) + 1 \in Nat \ {0} /\ \A k \in DOMAIN l : k \in Nat \ {0} BY <1>1
  <2> QED BY <2>1, Zenon
<1>3. a \in T /\ \A k \in T : a <= k
  <2> HIDE DEF T
  <2>1. T \in SUBSET Nat BY <1>2
  <2> QED BY <1>2, <2>1, MinIs
<1>4. Trim(l) = SubSeq(r, a, n) BY Zenon DEF Trim
<1>5. r \in Seq(S) /\ n <= Len(l) /\ Trimmed(r) /\ \A k \in 1..n : r[k] = l[k]
  BY RTrimTrimmed
<1>6. n \in Nat /\ \A k \in 1..n : r[k] \in S
  <2> HIDE DEF r
  <2> QED BY <1>5, LenProperties
<1>7. r = <<>> => n = 0 BY EmptySeq
<1>8. a \in Nat \ {0} BY <1>2, <1>3
<1>9. n = 0 \/ a <= n
  <2> SUFFICES ASSUME n # 0 PROVE a <= n OBVIOUS
  <2>1. r[n] \notin Blanks BY <1>5, <1>7 DEF Trimmed
  <2>2. n \in 1..n /\ n \in DOMAIN l BY <1>1, <1>5, <1>6
  <2>3. l[n] # " " BY <1>5, <2>1, <2>2, Zenon DEF Blanks
  <2>4. n \in T BY <2>2, <2>3
  <2> QED BY <1>3, <2>4
<1> HIDE DEF r, a, n, T
<1>10. \A k \in a..n : r[k] \in S BY <1>6, <1>8
<1>11. /\ SubSeq(r, a, n) \in Seq(S)
       /\ Len(SubSeq(r, a, n)) = IF a <= n THEN n - a + 1 ELSE 0
       /\ \A k \in 1..(n - a + 1) : SubSeq(r, a, n)[k] = r[a + k - 1]
  <2>1. a \in Int /\ n \in Int BY <1>6, <1>8
  <2> QED BY <1>10, <2>1, SubSeqProperties
<1>12. Len(SubSeq(r, a, n)) <= Len(l) BY <1>1, <1>5, <1>6, <1>8, <1>11
<1>13. Trimmed(SubSeq(r, a, n))
  <2>1. CASE n = 0
    <3>1. ~(a <= n) BY <2>1, <1>8
    <3>2. Len(SubSeq(r, a, n)) = 0 BY <3>1, <1>11
    <3> QED BY <3>2, <1>11, EmptySeq DEF Trimmed
  <2>2. CASE n # 0
    <3>1. a <= n /\ n - a + 1 \in 1..(n - a + 1) /\ a + (n - a + 1) - 1 = n
      BY <2>2, <1>6, <1>8, <1>9
    <3>2. SubSeq(r, a, n)[n - a + 1] = r[n] BY <3>1, <1>11
    <3>3. r[n] \notin Blanks BY <2>2, <1>5, <1>7 DEF Trimmed, r, n
    <3> QED BY <3>1, <3>2, <3>3, <1>11 DEF Trimmed
  <2> QED BY <2>1, <2>2
<1> QED BY <1>4, <1>11, <1>12, <1>13

----------------------------------------------------------------------------
\* The lines of the program: a line of the editor, an entry of the history,
\* a line of the history file.

Text == {l \in Lines : Len(l) <= Width - 1}
Entry == {l \in Text : Trimmed(l)}
FileChars == Chars \union {"\n"}
FileLine == {l \in Seq(FileChars) : l # <<>> /\ \E x \in Text : l = x \/ l = Append(x, "\n")}

\* fgets and RTrim: pieces of a line of the file are entries, at least one.
LEMMA PieceCount ==
  ASSUME NEW L \in Nat \ {0}
  PROVE  /\ (L + kBuf - 2) \div (kBuf - 1) \in Nat \ {0}
         /\ L < kBuf => (L + kBuf - 2) \div (kBuf - 1) = 1
<1> DEFINE q == kBuf - 1
           a == L + kBuf - 2
<1>1. q \in Nat \ {0} /\ a \in Nat /\ q <= a /\ kBuf \in Nat BY SizesAssumption
<1>2. a \div q \in Nat
  <2> HIDE DEF a, q
  <2>1. a % q \in 0..(q - 1) /\ a \div q \in Int /\ a = q * (a \div q) + (a % q) BY <1>1, DivMod
  <2> DEFINE d == a \div q
             r == a % q
  <2> HIDE DEF d, r
  <2>2. r \in 0..(q - 1) /\ d \in Int /\ a = q * d + r BY <2>1 DEF d, r
  <2>3. d >= 0
    <3> SUFFICES ASSUME d <= -1 PROVE FALSE BY <2>2
    <3>1. q * d <= -q BY <2>2, <1>1, SMT
    <3> QED BY <3>1, <2>2, <1>1
  <2> QED BY <2>2, <2>3 DEF d
<1>3. a \div q # 0
  <2> HIDE DEF a, q
  <2> QED BY <1>1, QuotientPositive
<1>4. ASSUME L < kBuf PROVE a \div q = 1
  <2>1. L - 1 \in 0..(q - 1) /\ a = 1 * q + (L - 1) /\ 1 \in Nat BY <1>1, <1>4
  <2> HIDE DEF a, q
  <2>2. (1 * q + (L - 1)) \div q = 1 BY <1>1, <2>1, QuotientIs
  <2> QED BY <2>1, <2>2
<1> QED BY <1>2, <1>3, <1>4, Zenon DEF a, q

LEMMA PieceOfLine ==
  ASSUME NEW line \in FileLine, NEW a \in Nat \ {0}, NEW b \in Nat, b <= Len(line)
  PROVE  RTrim(SubSeq(line, a, b)) \in Entry
<1> DEFINE s == SubSeq(line, a, b)
           r == RTrim(s)
           n == Len(r)
<1>1. PICK x \in Text : line = x \/ line = Append(x, "\n") BY DEF FileLine
<1>2. /\ line \in Seq(FileChars) /\ Len(line) \in Nat
      /\ \A k \in 1..Len(line) : line[k] \in FileChars
  BY LenProperties DEF FileLine
<1>3. x \in Seq(Chars) /\ Len(x) <= Width - 1 /\ Len(x) \in Nat /\ Width \in Nat
  BY LenProperties, Sizes DEF Text, Lines
<1>4. /\ Len(line) = Len(x) \/ (Len(line) = Len(x) + 1 /\ line[Len(x) + 1] = "\n")
      /\ \A k \in 1..Len(x) : line[k] \in Chars
  <2>1. \A k \in 1..Len(x) : x[k] \in Chars BY <1>3, ElementOfSeq
  <2>2. CASE line = x BY <2>1, <2>2
  <2>3. CASE line = Append(x, "\n")
    <3>1. x \in Seq(FileChars) /\ "\n" \in FileChars BY <1>3, SeqMonotonic DEF FileChars
    <3>2. /\ Len(line) = Len(x) + 1 /\ line[Len(x) + 1] = "\n"
          /\ \A k \in 1..Len(x) : line[k] = x[k]
      BY <2>3, <3>1, AppendProperties
    <3> QED BY <2>1, <3>2
  <2> QED BY <1>1, <2>2, <2>3
<1>5. /\ s \in Seq(FileChars) /\ Len(s) = IF a <= b THEN b - a + 1 ELSE 0
      /\ \A k \in 1..(b - a + 1) : s[k] = line[a + k - 1]
  <2>1. a \in Int /\ b \in Int /\ \A k \in a..b : line[k] \in FileChars BY <1>2
  <2> QED BY <2>1, SubSeqProperties
<1> HIDE DEF s
<1>6. /\ r \in Seq(FileChars) /\ n <= Len(s) /\ Trimmed(r)
      /\ \A k \in 1..n : r[k] = s[k]
  BY <1>5, RTrimTrimmed
<1> HIDE DEF r
<1>7. n \in Nat /\ (n = 0 => r = <<>>) /\ (r = <<>> => n = 0) BY <1>6, LenProperties, EmptySeq
<1> HIDE DEF n
<1>8. \A k \in 1..n : k \in 1..(b - a + 1) /\ a + k - 1 \in 1..Len(line) /\ a + k - 1 >= k
  BY <1>2, <1>5, <1>6, <1>7
<1>9. \A k \in 1..n : r[k] = line[a + k - 1] BY <1>5, <1>6, <1>8
<1>10. ASSUME NEW k \in 1..n PROVE a + k - 1 <= Len(x)
  <2> SUFFICES ASSUME ~(a + k - 1 <= Len(x)) PROVE FALSE OBVIOUS
  <2>1. Len(line) = Len(x) + 1 /\ line[Len(x) + 1] = "\n" /\ a + k - 1 = Len(x) + 1
    BY <1>3, <1>4, <1>8
  <2>2. a + n - 1 \in 1..Len(line) /\ n \in 1..n BY <1>7, <1>8
  <2>3. k = n BY <2>1, <2>2, <1>7
  <2>4. r[n] = "\n" BY <1>9, <2>1, <2>3
  <2>5. r[n] \notin Blanks BY <1>6, <1>7, <2>2 DEF Trimmed, n
  <2> QED BY <2>4, <2>5 DEF Blanks
<1>11. \A k \in 1..n : r[k] \in Chars
  <2>1. \A k \in 1..n : a + k - 1 \in 1..Len(x) BY <1>3, <1>8, <1>10
  <2> QED BY <1>4, <1>9, <2>1
<1>12. n <= Width - 1
  <2>1. CASE n = 0
    <3>1. 0 <= Width - 1 BY <1>3
    <3> QED BY <2>1, <3>1
  <2>2. CASE n # 0
    <3>1. n \in 1..n BY <2>2, <1>7
    <3>2. a + n - 1 <= Len(x) /\ a + n - 1 >= n BY <3>1, <1>8, <1>10
    <3> QED BY <3>2, <1>3, <1>7
  <2> QED BY <2>1, <2>2
<1>13. r \in Seq(Chars)
  <2>1. r \in [1..n -> FileChars] BY <1>6, LenProperties DEF n
  <2>2. r = [k \in 1..n |-> r[k]] BY <2>1
  <2>3. [k \in 1..n |-> r[k]] \in Seq(Chars) BY <1>7, <1>11, IsASeq
  <2> QED BY <2>2, <2>3
<1> QED BY <1>6, <1>12, <1>13 DEF Entry, Text, Lines, r, n, s

LEMMA PiecesOfLine ==
  ASSUME NEW line \in FileLine
  PROVE  Pieces(line) \in Seq(Entry) /\ Pieces(line) # <<>>
<1> DEFINE n == (Len(line) + kBuf - 2) \div (kBuf - 1)
           e(k) == RTrim(SubSeq(line, (k - 1) * (kBuf - 1) + 1, Min({k * (kBuf - 1), Len(line)})))
<1>1. Len(line) \in Nat \ {0} BY EmptySeq DEF FileLine
<1>2. n \in Nat \ {0} BY <1>1, PieceCount
<1>3. ASSUME NEW k \in 1..n PROVE e(k) \in Entry
  <2> DEFINE a == (k - 1) * (kBuf - 1) + 1
             b == Min({k * (kBuf - 1), Len(line)})
  <2>1. k - 1 \in Nat /\ k \in Nat /\ kBuf - 1 \in Nat BY <1>2, SizesAssumption
  <2>2. (k - 1) * (kBuf - 1) \in Nat /\ k * (kBuf - 1) \in Nat BY <2>1, SMT
  <2>3. a \in Nat \ {0} BY <2>2
  <2>4. b = IF k * (kBuf - 1) <= Len(line) THEN k * (kBuf - 1) ELSE Len(line)
    <3>1. k * (kBuf - 1) \in Int /\ Len(line) \in Int BY <1>1, <2>2
    <3> QED BY <3>1, OfTwo, Zenon
  <2>5. b \in Nat /\ b <= Len(line)
    <3> DEFINE c == k * (kBuf - 1)
    <3> HIDE DEF c
    <3>1. c \in Nat /\ b = IF c <= Len(line) THEN c ELSE Len(line) BY <2>2, <2>4 DEF c
    <3> HIDE DEF b
    <3> QED BY <3>1, <1>1
  <2> HIDE DEF a, b
  <2>6. RTrim(SubSeq(line, a, b)) \in Entry BY <2>3, <2>5, PieceOfLine
  <2> QED BY <2>6 DEF a, b
<1>4. Pieces(line) = [k \in 1..n |-> e(k)] BY Zenon DEF Pieces
<1> HIDE DEF n, e
<1>5. [k \in 1..n |-> e(k)] \in Seq(Entry) BY <1>2, <1>3, IsASeq
<1>6. DOMAIN Pieces(line) = 1..n /\ 1 \in 1..n BY <1>2, <1>4
<1>7. DOMAIN <<>> = {} OBVIOUS
<1> QED BY <1>4, <1>5, <1>6, <1>7, Zenon

\* A line that fgets reads whole is one piece.
LEMMA PiecesOfShort ==
  ASSUME NEW line \in FileLine, Len(line) < kBuf
  PROVE  Len(Pieces(line)) = 1 /\ Pieces(line)[1] = RTrim(line)
<1> DEFINE L == Len(line)
           n == (L + kBuf - 2) \div (kBuf - 1)
           e(k) == RTrim(SubSeq(line, (k - 1) * (kBuf - 1) + 1, Min({k * (kBuf - 1), L})))
<1>1. L \in Nat \ {0} /\ line \in Seq(FileChars) BY EmptySeq DEF FileLine
<1>2. n = 1 BY <1>1, PieceCount
<1>3. Pieces(line) = [k \in 1..n |-> e(k)] BY Zenon DEF Pieces
<1>4. (1 - 1) * (kBuf - 1) + 1 = 1 /\ 1 * (kBuf - 1) = kBuf - 1 /\ kBuf - 1 \in Int
  BY SizesAssumption
<1>5. Min({1 * (kBuf - 1), L}) = L
  <2>1. 1 * (kBuf - 1) \in Int /\ L \in Int BY <1>1, <1>4
  <2>2. Min({1 * (kBuf - 1), L}) = IF 1 * (kBuf - 1) <= L THEN 1 * (kBuf - 1) ELSE L
    BY <2>1, OfTwo, Zenon
  <2>3. L <= kBuf - 1 BY <1>1, SizesAssumption
  <2>4. 1 * (kBuf - 1) <= L => 1 * (kBuf - 1) = L
    <3> HIDE DEF L
    <3> QED BY <1>1, <1>4, <2>3
  <2> QED BY <2>2, <2>4, Zenon
<1>6. e(1) = RTrim(SubSeq(line, 1, L)) BY <1>4, <1>5
<1>7. SubSeq(line, 1, L) = line BY <1>1, SubSeqFull
<1>8. e(1) = RTrim(line) BY <1>6, <1>7
<1> HIDE DEF n, e, L
<1>9. Pieces(line) = [k \in 1..1 |-> e(k)] BY <1>2, <1>3
<1>10. Len([k \in 1..1 |-> e(k)]) = 1 /\ [k \in 1..1 |-> e(k)][1] = e(1) OBVIOUS
<1> QED BY <1>8, <1>9, <1>10

\* What readHistory gives for a file of lines.
LEMMA ReadTyped ==
  ASSUME NEW f \in Seq(FileLine), f # Missing
  PROVE  /\ readHistory(f) \in Seq(Entry)
         /\ f # <<>> => readHistory(f) # <<>>
<1> DEFINE n == Len(f)
           ps == [k \in DOMAIN f |-> Pieces(f[k])]
           tmp == FlattenSeq(ps)
           m == Len(tmp)
           b == Min({kKept, m})
<1>1. n \in Nat /\ DOMAIN f = 1..n /\ \A k \in 1..n : f[k] \in FileLine BY LenProperties
<1>2. \A k \in 1..n : Pieces(f[k]) \in Seq(Entry) /\ Pieces(f[k]) # <<>> BY <1>1, PiecesOfLine
<1>3. ps = [k \in 1..n |-> Pieces(f[k])] BY <1>1
<1>4. ps \in Seq(Seq(Entry))
  <2> DEFINE e(k) == Pieces(f[k])
  <2>1. \A k \in 1..n : e(k) \in Seq(Entry) BY <1>2
  <2> HIDE DEF e, n
  <2>2. [k \in 1..n |-> e(k)] \in Seq(Seq(Entry)) BY <1>1, <2>1, IsASeq
  <2> QED BY <1>3, <2>2 DEF e
<1>5. Len(ps) = n /\ \A k \in 1..n : ps[k] # <<>> BY <1>1, <1>2, <1>3
<1>6. tmp \in Seq(Entry) /\ (n # 0 => tmp # <<>>)
  <2> HIDE DEF ps, n
  <2>1. tmp \in Seq(Entry) /\ ((ps # <<>> /\ \A k \in 1..Len(ps) : ps[k] # <<>>) => tmp # <<>>)
    BY <1>4, FlattenProperties
  <2>2. n # 0 => ps # <<>> BY <1>5, EmptySeq
  <2> QED BY <1>5, <2>1, <2>2
<1>7. readHistory(f) = SubSeq(Reverse(tmp), 1, b) BY Zenon DEF readHistory
<1> HIDE DEF tmp
<1>8. m \in Nat /\ (n # 0 => m # 0) /\ \A k \in 1..m : tmp[k] \in Entry
  BY <1>6, LenProperties, EmptySeq
<1>9. Reverse(tmp) \in Seq(Entry) /\ Len(Reverse(tmp)) = m
  <2> DEFINE e(k) == tmp[m - k + 1]
  <2>1. \A k \in 1..m : m - k + 1 \in 1..m BY <1>8
  <2>2. \A k \in 1..m : e(k) \in Entry BY <1>8, <2>1
  <2>3. Reverse(tmp) = [k \in 1..m |-> e(k)] BY Zenon DEF Reverse
  <2> HIDE DEF e, m
  <2>4. [k \in 1..m |-> e(k)] \in Seq(Entry) BY <1>8, <2>2, IsASeq
  <2>5. Len([k \in 1..m |-> e(k)]) = m BY <1>8
  <2> QED BY <2>3, <2>4, <2>5
<1>10. b = IF kKept <= m THEN kKept ELSE m
  <2>1. kKept \in Int /\ m \in Int BY <1>8, SizesAssumption
  <2> QED BY <2>1, OfTwo, Zenon
<1> HIDE DEF m, b
<1>11. b \in 0..m /\ (n # 0 => b # 0) BY <1>8, <1>10, SizesAssumption
<1>12. SubSeq(Reverse(tmp), 1, b) \in Seq(Entry) /\ Len(SubSeq(Reverse(tmp), 1, b)) = b
  BY <1>9, <1>11, PrefixOfSeq
<1>13. f # <<>> => n # 0 BY EmptySeq
<1> HIDE DEF n
<1>14. n # 0 => SubSeq(Reverse(tmp), 1, b) # <<>> BY <1>11, <1>12, EmptySeq
<1> QED BY <1>7, <1>12, <1>13, <1>14

\* A file with lines, or none, is not a missing one.
LEMMA NotMissing ==
  ASSUME NEW f \in Seq(FileLine)
  PROVE  f # Missing
<1> SUFFICES ASSUME f = Missing PROVE FALSE OBVIOUS
<1> DEFINE x == f[1]
<1>1. Len(f) = 1 /\ x = <<"no file">> BY DEF Missing
<1> HIDE DEF x
<1>2. x \in FileLine
  <2>0. 1 \in 1..1 OBVIOUS
  <2>1. 1 \in 1..Len(f) BY <1>1, <2>0, Zenon
  <2> QED BY <2>1, ElementOfSeq DEF x
<1>3. x \in Seq(FileChars) BY <1>2 DEF FileLine
<1>4. Len(x) = 1 /\ x[1] = "no file" BY <1>1
<1>5. 1 \in 1..Len(x)
  <2>1. 1 \in 1..1 OBVIOUS
  <2> QED BY <1>4, <2>1, Zenon
<1>6. x[1] \in FileChars BY <1>3, <1>5, ElementOfSeq
<1> QED BY <1>4, <1>6, FileAssumption DEF FileChars

\* An entry with its end of line, and the entry fgets and RTrim make of it.
LEMMA LineOfEntry ==
  ASSUME NEW x \in Entry
  PROVE  /\ Append(x, "\n") \in FileLine /\ Len(Append(x, "\n")) = Len(x) + 1
         /\ Len(x) \in Nat /\ x \in Seq(FileChars)
         /\ \A k \in 1..Len(x) : Append(x, "\n")[k] = x[k]
         /\ RTrim(Append(x, "\n")) = x
<1> DEFINE l == Append(x, "\n")
<1>1. x \in Text /\ x \in Seq(Chars) /\ Trimmed(x) BY DEF Entry, Text, Lines
<1>2. x \in Seq(FileChars) /\ "\n" \in FileChars /\ Len(x) \in Nat
  BY <1>1, SeqMonotonic, LenProperties DEF FileChars
<1>3. /\ l \in Seq(FileChars) /\ l # <<>> /\ Len(l) = Len(x) + 1
      /\ \A k \in 1..Len(x) : l[k] = x[k]
      /\ l[Len(x) + 1] = "\n"
  BY <1>2, AppendProperties
<1>4. l \in FileLine BY <1>1, <1>3 DEF FileLine
<1> HIDE DEF l
<1>5. PICK n \in 0..Len(l) : /\ RTrim(l) = SubSeq(l, 1, n)
                             /\ n = 0 \/ l[n] \notin Blanks
                             /\ \A k \in (n + 1)..Len(l) : l[k] \in Blanks
  BY <1>3, RTrimIs
<1>6. n <= Len(x)
  <2> SUFFICES ASSUME n = Len(x) + 1 PROVE FALSE BY <1>2, <1>3
  <2>1. n # 0 /\ l[n] = "\n" BY <1>2, <1>3
  <2> QED BY <1>5, <2>1 DEF Blanks
<1>7. n >= Len(x)
  <2> SUFFICES ASSUME n < Len(x) PROVE FALSE BY <1>2
  <2>1. Len(x) \in (n + 1)..Len(l) /\ Len(x) \in 1..Len(x) BY <1>2, <1>3
  <2>2. x[Len(x)] \in Blanks BY <1>3, <1>5, <2>1
  <2>3. x # <<>> BY <2>1, EmptySeq
  <2> QED BY <1>1, <2>2, <2>3 DEF Trimmed
<1>8. n = Len(x) BY <1>2, <1>6, <1>7
<1>9. SubSeq(l, 1, n) = x
  <2>1. /\ SubSeq(l, 1, n) \in Seq(FileChars) /\ Len(SubSeq(l, 1, n)) = n
        /\ \A k \in 1..n : SubSeq(l, 1, n)[k] = l[k]
    BY <1>3, PrefixOfSeq
  <2> QED BY <1>2, <1>3, <1>8, <2>1, SeqEqual
<1> QED BY <1>2, <1>3, <1>4, <1>5, <1>9 DEF l

\* A beginning of an entry is a line of the file.
LEMMA CutLine ==
  ASSUME NEW x \in Entry, NEW j \in 1..Len(x)
  PROVE  SubSeq(Append(x, "\n"), 1, j) \in FileLine /\ Len(SubSeq(Append(x, "\n"), 1, j)) = j
<1> DEFINE l == Append(x, "\n")
           c == SubSeq(l, 1, j)
           d == SubSeq(x, 1, j)
<1>1. x \in Seq(Chars) /\ Len(x) <= Width - 1 /\ Width \in Nat
  BY Sizes DEF Entry, Text, Lines
<1>2. /\ l \in Seq(FileChars) /\ Len(l) = Len(x) + 1 /\ Len(x) \in Nat /\ x \in Seq(FileChars)
      /\ \A k \in 1..Len(x) : l[k] = x[k]
  BY LineOfEntry DEF FileLine
<1>3. j \in 0..Len(l) /\ j \in 0..Len(x) /\ j \in Nat BY <1>2
<1> HIDE DEF l
<1>4. c \in Seq(FileChars) /\ Len(c) = j /\ \A k \in 1..j : c[k] = l[k] BY <1>2, <1>3, PrefixOfSeq
<1>5. d \in Seq(Chars) /\ Len(d) = j /\ \A k \in 1..j : d[k] = x[k] BY <1>1, <1>3, PrefixOfSeq
<1>6. d \in Seq(FileChars) BY <1>5, SeqMonotonic DEF FileChars
<1> HIDE DEF c, d
<1>7. \A k \in 1..j : k \in 1..Len(x) BY <1>2
<1>8. \A k \in 1..j : c[k] = d[k] BY <1>2, <1>4, <1>5, <1>7
<1>9. c = d BY <1>4, <1>5, <1>6, <1>8, SeqEqual
<1>10. d \in Text BY <1>1, <1>2, <1>3, <1>5 DEF Text, Lines
<1>11. c # <<>> BY <1>4, EmptySeq
<1> QED BY <1>4, <1>9, <1>10, <1>11 DEF FileLine, c, l

LEMMA FileOfIs ==
  ASSUME NEW h \in Seq(Entry)
  PROVE  \E n \in 0..Len(h) :
           /\ n = (IF kKept <= Len(h) THEN kKept ELSE Len(h))
           /\ FileOf(h) \in Seq(FileLine) /\ Len(FileOf(h)) = n
           /\ \A k \in 1..n : /\ Len(h) + 1 - k \in 1..Len(h) /\ h[Len(h) + 1 - k] \in Entry
                              /\ FileOf(h)[k] = Append(h[Len(h) + 1 - k], "\n")
<1> DEFINE L == Len(h)
           n == Min({kKept, L})
           e(k) == Append(h[L + 1 - k], "\n")
<1>1. L \in Nat /\ \A k \in 1..L : h[k] \in Entry BY LenProperties
<1>2. n = IF kKept <= L THEN kKept ELSE L
  <2>1. kKept \in Int /\ L \in Int BY <1>1, SizesAssumption
  <2> QED BY <2>1, OfTwo, Zenon
<1>3. FileOf(h) = [k \in 1..n |-> e(k)] BY Zenon DEF FileOf
<1> HIDE DEF n, L
<1>4. n \in 0..L BY <1>1, <1>2, SizesAssumption
<1>5. ASSUME NEW k \in 1..n
      PROVE  L + 1 - k \in 1..L /\ h[L + 1 - k] \in Entry /\ e(k) \in FileLine
  <2>1. L + 1 - k \in 1..L BY <1>1, <1>4
  <2>2. h[L + 1 - k] \in Entry BY <1>1, <2>1
  <2> QED BY <2>1, <2>2, LineOfEntry
<1>6. [k \in 1..n |-> e(k)] \in Seq(FileLine)
  <2>1. n \in Nat BY <1>1, <1>4
  <2> HIDE DEF e
  <2> QED BY <1>5, <2>1, IsASeq
<1>7. Len(FileOf(h)) = n /\ \A k \in 1..n : FileOf(h)[k] = e(k)
  <2>1. n \in Nat BY <1>1, <1>4
  <2> HIDE DEF e
  <2> QED BY <1>3, <2>1
<1> QED BY <1>2, <1>3, <1>4, <1>5, <1>6, <1>7 DEF L

\* A save cut short: the newest k entries, and perhaps a beginning of the next.
LEMMA TornIs ==
  ASSUME NEW h \in Seq(Entry), NEW f \in Torn(FileOf(h))
  PROVE  /\ f \in Seq(FileLine)
         /\ \E k \in 0..(Len(FileOf(h)) - 1) :
              \/ f = SubSeq(FileOf(h), 1, k)
              \/ \E c \in FileLine : /\ f = Append(SubSeq(FileOf(h), 1, k), c)
                                     /\ Len(c) < Len(FileOf(h)[k + 1])
<1> DEFINE F == FileOf(h)
           N == Len(F)
<1>1. PICK n \in 0..Len(h) :
        /\ F \in Seq(FileLine) /\ Len(F) = n
        /\ \A k \in 1..n : /\ h[Len(h) + 1 - k] \in Entry
                           /\ F[k] = Append(h[Len(h) + 1 - k], "\n")
  BY FileOfIs
<1>2. N \in Nat /\ DOMAIN F = 1..N BY <1>1, LenProperties
<1> HIDE DEF F, N
<1>3. CASE \E k \in 0..(N - 1) : f = SubSeq(F, 1, k)
  <2>1. PICK k \in 0..(N - 1) : f = SubSeq(F, 1, k) BY <1>3
  <2>2. k \in 0..Len(F) BY <1>2 DEF N
  <2>3. f \in Seq(FileLine) BY <1>1, <2>1, <2>2, PrefixOfSeq
  <2> QED BY <2>1, <2>3 DEF F, N
<1>4. CASE \E k \in DOMAIN F : \E j \in 1..(Len(F[k]) - 1) :
             f = Append(SubSeq(F, 1, k - 1), SubSeq(F[k], 1, j))
  <2>0. PICK k \in 1..N : \E j \in 1..(Len(F[k]) - 1) :
          f = Append(SubSeq(F, 1, k - 1), SubSeq(F[k], 1, j))
    BY <1>2, <1>4
  <2>1. PICK j \in 1..(Len(F[k]) - 1) : f = Append(SubSeq(F, 1, k - 1), SubSeq(F[k], 1, j))
    BY <2>0
  <2> DEFINE x == h[Len(h) + 1 - k]
             c == SubSeq(F[k], 1, j)
  <2>2. x \in Entry /\ F[k] = Append(x, "\n") BY <1>1 DEF N
  <2> HIDE DEF x
  <2>3. Len(F[k]) = Len(x) + 1 /\ Len(x) \in Nat BY <2>2, LineOfEntry
  <2>4. j \in 1..Len(x) BY <2>3
  <2>5. c \in FileLine /\ Len(c) = j BY <2>2, <2>4, CutLine
  <2> HIDE DEF c
  <2>6. k - 1 \in 0..Len(F) /\ k - 1 \in 0..(N - 1) /\ (k - 1) + 1 = k BY <1>2 DEF N
  <2>7. SubSeq(F, 1, k - 1) \in Seq(FileLine) BY <1>1, <2>6, PrefixOfSeq
  <2>8. f = Append(SubSeq(F, 1, k - 1), c) BY <2>1 DEF c
  <2>9. f \in Seq(FileLine) BY <2>5, <2>7, <2>8, AppendProperties
  <2>10. Len(c) < Len(F[k]) BY <2>3, <2>4, <2>5
  <2>11. Len(c) < Len(F[(k - 1) + 1]) BY <2>6, <2>10
  <2> QED BY <2>5, <2>6, <2>8, <2>9, <2>11, Zenon DEF F, N
<1> DEFINE Cut(k) == {Append(SubSeq(F, 1, k - 1), SubSeq(F[k], 1, j)) : j \in 1..(Len(F[k]) - 1)}
<1>5. f \in (UNION {Cut(k) : k \in DOMAIN F}) \union {SubSeq(F, 1, k) : k \in 0..(N - 1)}
  BY Zenon DEF Torn, F, N
<1>6. (\E k \in DOMAIN F : f \in Cut(k)) \/ \E k \in 0..(N - 1) : f = SubSeq(F, 1, k)
  <2> HIDE DEF Cut
  <2> QED BY <1>5
<1> QED BY <1>3, <1>4, <1>6, Zenon

----------------------------------------------------------------------------
\* The terminal.

Screen == [row : [1..Width -> Chars], col : Nat]

LEMMA BlankIs == Blank \in Screen /\ Blank.col = 0 /\ \A k \in 1..Width : Blank.row[k] = " "
  BY KeysAssumption DEF Blank, Screen

LEMMA WriteIs ==
  ASSUME NEW scr \in Screen, NEW buf \in Lines
  PROVE  /\ writeLine(scr, buf) \in Screen
         /\ writeLine(scr, buf).col = scr.col + Len(buf)
         /\ \A k \in 1..Width :
              writeLine(scr, buf).row[k] =
                IF k - scr.col \in 1..Len(buf) THEN buf[k - scr.col] ELSE scr.row[k]
<1>1. Len(buf) \in Nat /\ DOMAIN buf = 1..Len(buf) /\ \A k \in 1..Len(buf) : buf[k] \in Chars
  BY LenProperties DEF Lines
<1>2. scr.col \in Nat /\ \A k \in 1..Width : scr.row[k] \in Chars BY DEF Screen
<1>3. scr.col + Len(buf) \in Nat BY <1>1, <1>2
<1> DEFINE e(k) == IF k - scr.col \in DOMAIN buf THEN buf[k - scr.col] ELSE scr.row[k]
<1>4. writeLine(scr, buf) = [row |-> [k \in 1..Width |-> e(k)], col |-> scr.col + Len(buf)]
  BY Zenon DEF writeLine
<1>5. \A k \in 1..Width : e(k) \in Chars BY <1>1, <1>2
<1>6. writeLine(scr, buf) \in Screen
  <2> HIDE DEF e
  <2> QED BY <1>3, <1>4, <1>5 DEF Screen
<1>7. /\ writeLine(scr, buf).col = scr.col + Len(buf)
      /\ \A k \in 1..Width : writeLine(scr, buf).row[k] = e(k)
  <2> HIDE DEF e
  <2> QED BY <1>4
<1> QED BY <1>1, <1>6, <1>7, Zenon

LEMMA LeftIs ==
  ASSUME NEW scr \in Screen, NEW n \in Nat
  PROVE  /\ Left(scr, n) \in Screen /\ Left(scr, n).row = scr.row
         /\ Left(scr, n).col = IF scr.col >= n THEN scr.col - n ELSE 0
<1>1. scr.col \in Nat BY DEF Screen
<1>2. 0 \in Int /\ scr.col - n \in Int BY <1>1
<1>3. Max({0, scr.col - n}) = IF 0 >= scr.col - n THEN 0 ELSE scr.col - n
  BY <1>2, OfTwo, Zenon
<1> DEFINE m == Max({0, scr.col - n})
<1>4. m \in Nat /\ m = IF scr.col >= n THEN scr.col - n ELSE 0
  <2>1. m = IF 0 >= scr.col - n THEN 0 ELSE scr.col - n BY <1>3
  <2> HIDE DEF m
  <2> QED BY <2>1, <1>1
<1>5. Left(scr, n) = [scr EXCEPT !.col = m] BY Zenon DEF Left
<1> HIDE DEF m
<1> QED BY <1>4, <1>5 DEF Screen

\* Back over what was just written.
LEMMA LeftBack ==
  ASSUME NEW scr \in Screen, NEW x \in Nat, NEW n \in Nat, scr.col = x + n
  PROVE  Left(scr, n) \in Screen /\ Left(scr, n).row = scr.row /\ Left(scr, n).col = x
<1> DEFINE y == scr.col
<1>1. /\ Left(scr, n) \in Screen /\ Left(scr, n).row = scr.row
      /\ Left(scr, n).col = IF y >= n THEN y - n ELSE 0
  BY LeftIs
<1>2. y = x + n OBVIOUS
<1> HIDE DEF y
<1>3. y >= n /\ y - n = x BY <1>2
<1> QED BY <1>1, <1>3

LEMMA SpaceIs ==
  ASSUME NEW scr \in Screen, NEW n \in Nat
  PROVE  /\ Space(scr, n) \in Screen /\ Space(scr, n).col = scr.col + n
         /\ \A k \in 1..Width :
              Space(scr, n).row[k] =
                IF k > scr.col /\ k <= scr.col + n THEN " " ELSE scr.row[k]
<1> DEFINE buf == [k \in 1..n |-> " "]
<1>1. buf \in Lines /\ Len(buf) = n /\ \A k \in 1..n : buf[k] = " "
  <2>1. buf \in [1..n -> Chars] BY KeysAssumption
  <2>2. buf \in Lines BY <2>1, SeqDef DEF Lines
  <2>3. Len(buf) = n OBVIOUS
  <2> QED BY <2>2, <2>3
<1>2. Space(scr, n) = writeLine(scr, buf) BY Zenon DEF Space
<1> HIDE DEF buf
<1>3. /\ Space(scr, n) \in Screen /\ Space(scr, n).col = scr.col + n
      /\ \A k \in 1..Width : Space(scr, n).row[k] =
           IF k - scr.col \in 1..n THEN buf[k - scr.col] ELSE scr.row[k]
  <2>1. /\ writeLine(scr, buf) \in Screen /\ writeLine(scr, buf).col = scr.col + Len(buf)
        /\ \A k \in 1..Width : writeLine(scr, buf).row[k] =
             IF k - scr.col \in 1..Len(buf) THEN buf[k - scr.col] ELSE scr.row[k]
    BY <1>1, WriteIs
  <2> QED BY <1>1, <1>2, <2>1, Zenon
<1>4. scr.col \in Nat BY DEF Screen
<1>5. ASSUME NEW k \in 1..Width
      PROVE  Space(scr, n).row[k] = IF k > scr.col /\ k <= scr.col + n THEN " " ELSE scr.row[k]
  <2>1. k - scr.col \in 1..n <=> (k > scr.col /\ k <= scr.col + n) BY <1>4
  <2> QED BY <1>1, <1>3, <2>1
<1> QED BY <1>3, <1>5

\* Equal rows and cursors are equal screens.
LEMMA SameScreen ==
  ASSUME NEW s \in Screen, NEW t \in Screen, s.col = t.col,
         \A k \in 1..Width : s.row[k] = t.row[k]
  PROVE  s = t
<1>1. /\ s.row \in [1..Width -> Chars] /\ t.row \in [1..Width -> Chars]
      /\ s = [row |-> s.row, col |-> s.col] /\ t = [row |-> t.row, col |-> t.col]
  BY DEF Screen
<1>2. s.row = [k \in 1..Width |-> s.row[k]] /\ t.row = [k \in 1..Width |-> t.row[k]] BY <1>1
<1>3. [k \in 1..Width |-> s.row[k]] = [k \in 1..Width |-> t.row[k]] BY Zenon
<1>4. s.row = t.row BY <1>2, <1>3, Zenon
<1> QED BY <1>1, <1>4, Zenon

\* The cursor is at m_index or left of it (left only after "len = "), and
\* nothing is printed behind the rest of the line.
RowOK(scr, line, at) ==
  /\ scr \in Screen /\ scr.col <= at
  /\ \A k \in 1..Width : k > scr.col + (Len(line) - at) => scr.row[k] = " "

\* That is what clearLine needs to leave the row blank.
LEMMA ClearIs ==
  ASSUME cmd \in Text, m_index \in 0..Len(cmd), RowOK(screen, cmd, m_index)
  PROVE  clearLine = Blank
<1> DEFINE r == Len(cmd) - m_index
           a == Space(screen, r)
           b == Left(a, r)
           c == Left(b, m_index)
           d == Space(c, m_index)
           e == Left(d, m_index)
           x == screen.col
<1>1. Len(cmd) \in Nat BY LenProperties DEF Text, Lines
<1>2. r \in Nat /\ m_index \in Nat BY <1>1
<1>3. screen \in Screen /\ x \in Nat /\ x <= m_index BY DEF RowOK, Screen
<1>4. \A k \in 1..Width : k > x + r => screen.row[k] = " " BY DEF RowOK
<1>5. clearLine = e BY Zenon DEF clearLine, backSpace
<1> HIDE DEF r, x
<1>6. /\ a \in Screen /\ a.col = x + r
      /\ \A k \in 1..Width : a.row[k] = IF k > x /\ k <= x + r THEN " " ELSE screen.row[k]
  BY <1>2, <1>3, SpaceIs DEF x
<1> HIDE DEF a
<1>7. b \in Screen /\ b.row = a.row /\ b.col = x
  BY <1>2, <1>3, <1>6, LeftBack
<1> HIDE DEF b
<1>8. c \in Screen /\ c.row = a.row /\ c.col = 0
  <2>1. c \in Screen /\ c.row = b.row /\ c.col = IF b.col >= m_index THEN b.col - m_index ELSE 0
    BY <1>2, <1>7, LeftIs
  <2> QED BY <2>1, <1>2, <1>3, <1>7
<1> HIDE DEF c
<1>9. /\ d \in Screen /\ d.col = m_index
      /\ \A k \in 1..Width : d.row[k] = IF k <= m_index THEN " " ELSE a.row[k]
  <2>1. /\ d \in Screen /\ d.col = c.col + m_index
        /\ \A k \in 1..Width :
             d.row[k] = IF k > c.col /\ k <= c.col + m_index THEN " " ELSE c.row[k]
    BY <1>2, <1>8, SpaceIs
  <2>2. Width \in Nat BY Sizes
  <2>3. 0 + m_index = m_index /\ \A k \in 1..Width : k > 0 BY <1>2, <2>2
  <2>4. c.col + m_index = m_index BY <1>8, <2>3
  <2>5. \A k \in 1..Width : d.row[k] = IF k <= m_index THEN " " ELSE c.row[k]
    BY <2>1, <2>3, <2>4, <1>8, Zenon
  <2> QED BY <2>1, <2>4, <2>5, <1>8, Zenon
<1> HIDE DEF d
<1>10. e \in Screen /\ e.row = d.row /\ e.col = 0
  <2>1. 0 \in Nat /\ m_index = 0 + m_index BY <1>2
  <2>2. d.col = 0 + m_index BY <2>1, <1>9, Zenon
  <2>3. d \in Screen /\ m_index \in Nat BY <1>2, <1>9
  <2> QED BY ONLY <2>1, <2>2, <2>3, LeftBack
<1> HIDE DEF e
<1>11. ASSUME NEW k \in 1..Width PROVE e.row[k] = " "
  <2>1. CASE k <= m_index BY <2>1, <1>9, <1>10
  <2>2. CASE ~(k <= m_index)
    <3>1. Width \in Nat BY Sizes
    <3>2. k > x BY <2>2, <3>1, <1>2, <1>3
    <3>3. e.row[k] = a.row[k] BY <2>2, <1>9, <1>10
    <3>4. CASE k <= x + r BY <3>2, <3>3, <3>4, <1>6
    <3>5. CASE ~(k <= x + r)
      <4>1. k > x + r BY <3>1, <3>5, <1>2, <1>3
      <4> QED BY <4>1, <3>3, <3>5, <1>4, <1>6
    <3> QED BY <3>4, <3>5
  <2> QED BY <2>1, <2>2
<1>12. e = Blank
  <2>1. e.col = Blank.col /\ \A k \in 1..Width : e.row[k] = Blank.row[k]
    BY <1>10, <1>11, BlankIs
  <2> QED BY <1>10, <2>1, BlankIs, SameScreen
<1> QED BY <1>5, <1>12

LEMMA WriteOnBlank ==
  ASSUME NEW line \in Lines
  PROVE  LET w == writeLine(Blank, line)
         IN /\ w \in Screen /\ w.col = Len(line)
            /\ \A k \in 1..Width : w.row[k] = IF k <= Len(line) THEN line[k] ELSE " "
<1> DEFINE n == Len(line)
           z == Blank.col
           w == writeLine(Blank, line)
<1>1. n \in Nat /\ Width \in Nat BY LenProperties, Sizes DEF Lines
<1>2. z = 0 /\ Blank \in Screen /\ \A k \in 1..Width : Blank.row[k] = " " BY BlankIs
<1> HIDE DEF z
<1>3. /\ w \in Screen /\ w.col = z + n
      /\ \A k \in 1..Width : w.row[k] = IF k - z \in 1..n THEN line[k - z] ELSE Blank.row[k]
  BY <1>2, WriteIs DEF z
<1>4. z + n = n /\ \A k \in 1..Width : k - z = k /\ (k - z \in 1..n <=> k <= n)
  <2>1. 0 + n = n /\ \A k \in 1..Width : k - 0 = k /\ (k - 0 \in 1..n <=> k <= n)
    <3> HIDE DEF n
    <3> QED BY <1>1
  <2> QED BY <1>2, <2>1, Zenon
<1>5. \A k \in 1..Width : w.row[k] = IF k <= n THEN line[k] ELSE " "
  BY <1>2, <1>3, <1>4, Zenon
<1> QED BY <1>3, <1>4, <1>5, Zenon

\* A line written on a blank row, and the cursor moved back to at.
Shows(scr, line, at) == scr.col = at /\ scr.row = writeLine(Blank, line).row

LEMMA WriteBlank ==
  ASSUME NEW line \in Text, NEW at \in 0..Len(line)
  PROVE  LET scr == Left(writeLine(Blank, line), Len(line) - at)
         IN RowOK(scr, line, at) /\ Shows(scr, line, at)
<1> DEFINE w == writeLine(Blank, line)
           scr == Left(w, Len(line) - at)
           n == Len(line)
<1>1. line \in Lines /\ n \in Nat BY LenProperties DEF Text, Lines
<1>2. /\ w \in Screen /\ w.col = n
      /\ \A k \in 1..Width : w.row[k] = IF k <= n THEN line[k] ELSE " "
  BY <1>1, WriteOnBlank
<1>3. n - at \in Nat /\ at \in Nat /\ n = at + (n - at) BY <1>1
<1>4. w.col = at + (n - at) BY <1>2, <1>3, Zenon
<1>5. scr \in Screen /\ scr.row = w.row /\ scr.col = at
  <2> HIDE DEF w, n
  <2> QED BY <1>2, <1>3, <1>4, LeftBack DEF n
<1>6. ASSUME NEW k \in 1..Width, k > at + (n - at) PROVE scr.row[k] = " "
  <2>1. Width \in Nat BY Sizes
  <2>2. ~(k <= n) BY <1>1, <1>6, <2>1
  <2> QED BY <1>2, <1>5, <2>2, Zenon
<1>7. scr.col <= at BY <1>3, <1>5
<1> HIDE DEF scr, w
<1>8. \A k \in 1..Width : k > scr.col + (n - at) => scr.row[k] = " " BY <1>5, <1>6
<1> QED BY <1>5, <1>7, <1>8, Zenon DEF RowOK, Shows, scr, w, n

\* Redraw after anything that RowOK allows.
LEMMA RedrawIs ==
  ASSUME cmd \in Text, m_index \in 0..Len(cmd), RowOK(screen, cmd, m_index),
         NEW line \in Text, NEW at \in 0..Len(line), Redraw(line, at)
  PROVE  /\ cmd' = line /\ m_index' = at /\ noise' = FALSE
         /\ RowOK(screen', line, at) /\ Shows(screen', line, at)
<1>1. /\ cmd' = line /\ m_index' = at /\ noise' = FALSE
      /\ screen' = Left(writeLine(Blank, line), Len(line) - at)
  BY ClearIs, Zenon DEF Redraw
<1>2. RowOK(screen', line, at) /\ Shows(screen', line, at) BY <1>1, WriteBlank
<1> QED BY <1>1, <1>2

\* The arrows.
LEMMA LeftKeeps ==
  ASSUME NEW line \in Text, NEW at \in 1..Len(line), NEW scr, RowOK(scr, line, at)
  PROVE  /\ RowOK(Left(scr, 1), line, at - 1)
         /\ Shows(scr, line, at) => Shows(Left(scr, 1), line, at - 1)
<1> DEFINE n == Len(line)
           x == scr.col
           t == Left(scr, 1)
<1>1. n \in Nat /\ scr \in Screen BY LenProperties DEF Text, Lines, RowOK
<1>2. x \in Nat /\ x <= at /\ at \in Nat /\ at >= 1
  <2>1. x \in Nat BY <1>1 DEF Screen
  <2>2. x <= at BY Zenon DEF RowOK
  <2> HIDE DEF x
  <2> QED BY <1>1, <2>1, <2>2
<1>3. t \in Screen /\ t.row = scr.row /\ t.col = IF x >= 1 THEN x - 1 ELSE 0
  BY <1>1, LeftIs
<1> HIDE DEF x, t
<1>4. CASE x >= 1
  <2>1. t.col = x - 1 BY <1>3, <1>4
  <2>2. x - 1 <= at - 1 /\ (x - 1) + (n - (at - 1)) = x + (n - at) BY <1>1, <1>2
  <2>3. \A k \in 1..Width : k > x + (n - at) => scr.row[k] = " " BY DEF RowOK, x
  <2>4. \A k \in 1..Width : k > t.col + (n - (at - 1)) => t.row[k] = " "
    BY <1>3, <2>1, <2>2, <2>3, Zenon
  <2>5. RowOK(t, line, at - 1) BY <1>3, <2>1, <2>2, <2>4, Zenon DEF RowOK
  <2>6. Shows(scr, line, at) => Shows(t, line, at - 1) BY <1>3, <2>1, Zenon DEF Shows, x
  <2> QED BY <2>5, <2>6 DEF t
<1>5. CASE ~(x >= 1)
  <2>1. t.col = 0 /\ x = 0 BY <1>2, <1>3, <1>5
  <2>2. 0 <= at - 1 /\ (\A k \in 1..Width : k > 0 + (n - (at - 1)) => k > x + (n - at))
    BY <1>1, <1>2, <2>1, Sizes
  <2>3. \A k \in 1..Width : k > x + (n - at) => scr.row[k] = " " BY DEF RowOK, x
  <2>4. \A k \in 1..Width : k > t.col + (n - (at - 1)) => t.row[k] = " "
    BY <1>3, <2>1, <2>2, <2>3, Zenon
  <2>5. RowOK(t, line, at - 1) BY <1>3, <2>1, <2>2, <2>4, Zenon DEF RowOK
  <2>6. ~Shows(scr, line, at)
    <3>1. x # at BY <1>2, <2>1
    <3> QED BY <3>1 DEF Shows, x
  <2> QED BY <2>5, <2>6 DEF t
<1> QED BY <1>4, <1>5

LEMMA RightKeeps ==
  ASSUME NEW line \in Text, NEW at \in 0..(Len(line) - 1), NEW scr, RowOK(scr, line, at)
  PROVE  /\ RowOK(writeLine(scr, <<line[at + 1]>>), line, at + 1)
         /\ Shows(scr, line, at) => Shows(writeLine(scr, <<line[at + 1]>>), line, at + 1)
<1> DEFINE n == Len(line)
           x == scr.col
           c == line[at + 1]
           t == writeLine(scr, <<c>>)
<1>1. /\ n \in Nat /\ scr \in Screen /\ line \in Lines /\ Width \in Nat
  BY LenProperties, Sizes DEF Text, Lines, RowOK
<1>2. x \in Nat /\ x <= at /\ at \in Nat /\ at + 1 \in 1..n
  <2>1. x \in Nat BY <1>1 DEF Screen
  <2>2. x <= at BY Zenon DEF RowOK
  <2> HIDE DEF x
  <2> QED BY <1>1, <2>1, <2>2
<1>3. c \in Chars
  <2>1. line \in Seq(Chars) BY <1>1 DEF Lines
  <2> QED BY <1>2, <2>1, ElementOfSeq
<1> HIDE DEF c
<1>4. <<c>> \in Lines /\ Len(<<c>>) = 1 /\ <<c>>[1] = c BY <1>3 DEF Lines
<1>5. /\ t \in Screen /\ t.col = x + 1
      /\ \A k \in 1..Width : t.row[k] = IF k - x \in 1..1 THEN <<c>>[k - x] ELSE scr.row[k]
  BY <1>1, <1>4, WriteIs
<1> HIDE DEF x, t
<1>6. \A k \in 1..Width : t.row[k] = IF k = x + 1 THEN c ELSE scr.row[k]
  <2> SUFFICES ASSUME NEW k \in 1..Width PROVE t.row[k] = IF k = x + 1 THEN c ELSE scr.row[k]
    OBVIOUS
  <2>1. k - x \in 1..1 <=> k = x + 1 BY <1>1, <1>2
  <2>2. k = x + 1 => k - x = 1 BY <1>1, <1>2
  <2> QED BY <1>4, <1>5, <2>1, <2>2, Zenon
<1>7. RowOK(t, line, at + 1)
  <2>1. x + 1 <= at + 1 /\ (x + 1) + (n - (at + 1)) = x + (n - at) BY <1>1, <1>2
  <2>2. ASSUME NEW k \in 1..Width, k > x + (n - at) PROVE t.row[k] = " "
    <3>1. k # x + 1 BY <1>1, <1>2, <2>2
    <3>2. scr.row[k] = " " BY <2>2 DEF RowOK, x
    <3> QED BY <1>6, <3>1, <3>2
  <2>3. \A k \in 1..Width : k > t.col + (n - (at + 1)) => t.row[k] = " "
    BY <1>5, <2>1, <2>2, Zenon
  <2> QED BY <1>5, <2>1, <2>3, Zenon DEF RowOK
<1>8. ASSUME Shows(scr, line, at) PROVE Shows(t, line, at + 1)
  <2> DEFINE w == writeLine(Blank, line)
  <2>1. x = at /\ scr.row = w.row BY <1>8 DEF Shows, x
  <2>2. /\ w \in Screen
        /\ \A k \in 1..Width : w.row[k] = IF k <= n THEN line[k] ELSE " "
    BY <1>1, WriteOnBlank
  <2> HIDE DEF w
  <2>3. ASSUME NEW k \in 1..Width PROVE t.row[k] = w.row[k]
    <3>1. CASE k = x + 1
      <4>1. k = at + 1 BY <2>1, <3>1
      <4>2. k <= n BY <1>1, <1>2, <4>1
      <4>3. w.row[k] = line[k] BY <2>2, <4>2, Zenon
      <4>4. line[k] = c BY <4>1 DEF c
      <4> QED BY <1>6, <3>1, <4>3, <4>4, Zenon
    <3>2. CASE k # x + 1 BY <1>6, <2>1, <3>2
    <3> QED BY <3>1, <3>2
  <2>4. t.row = w.row
    <3>1. t.row \in [1..Width -> Chars] /\ w.row \in [1..Width -> Chars]
      BY <1>5, <2>2 DEF Screen
    <3>2. t.row = [k \in 1..Width |-> t.row[k]] /\ w.row = [k \in 1..Width |-> w.row[k]] BY <3>1
    <3>3. [k \in 1..Width |-> t.row[k]] = [k \in 1..Width |-> w.row[k]] BY <2>3, Zenon
    <3> QED BY <3>2, <3>3, Zenon
  <2>5. t.col = at + 1 BY <1>5, <2>1
  <2> QED BY <2>4, <2>5 DEF Shows, w
<1> QED BY <1>7, <1>8 DEF t, c

----------------------------------------------------------------------------
\* The lines the keys make.

LEMMA InsertedText ==
  ASSUME NEW line \in Text, NEW at \in 0..Len(line), Len(line) < MaxLine, NEW c \in Chars
  PROVE  LET new == SubSeq(line, 1, at) \o <<c>> \o SubSeq(line, at + 1, Len(line))
         IN new \in Text /\ at + 1 \in 0..Len(new)
<1> DEFINE n == Len(line)
           u == SubSeq(line, 1, at)
           v == SubSeq(line, at + 1, n)
           w == u \o <<c>>
<1>1. line \in Seq(Chars) /\ n \in Nat BY LenProperties DEF Text, Lines
<1>2. u \in Seq(Chars) /\ Len(u) = at BY <1>1, PrefixOfSeq
<1>3. v \in Seq(Chars) /\ Len(v) = n - at BY <1>1, SuffixOfSeq
<1>4. <<c>> \in Seq(Chars) /\ Len(<<c>>) = 1 OBVIOUS
<1> HIDE DEF u, v
<1>5. w \in Seq(Chars) /\ Len(w) = Len(u) + 1 BY <1>2, <1>4, ConcatProperties
<1> HIDE DEF w
<1>6. w \o v \in Seq(Chars) /\ Len(w \o v) = Len(w) + Len(v) BY <1>3, <1>5, ConcatProperties
<1>7. Len(w \o v) = n + 1 /\ at \in Nat /\ at <= n BY <1>1, <1>2, <1>3, <1>5, <1>6
<1> DEFINE m == Len(w \o v)
<1>8. m = n + 1 BY <1>7
<1> HIDE DEF m, n
<1>9. m <= Width - 1 /\ at + 1 \in 0..m BY <1>1, <1>7, <1>8, Sizes DEF n
<1> QED BY <1>6, <1>9 DEF Text, Lines, m, n, w, u, v

LEMMA RemovedText ==
  ASSUME NEW line \in Text, NEW at \in 1..Len(line)
  PROVE  RemoveAt(line, at) \in Text /\ at - 1 \in 0..Len(RemoveAt(line, at))
<1> DEFINE n == Len(line)
           new == SubSeq(line, 1, at - 1) \o SubSeq(line, at + 1, n)
<1>1. line \in Seq(Chars) /\ n \in Nat /\ n <= Width - 1 /\ Width \in Nat
  BY LenProperties, Sizes DEF Text, Lines
<1>2. new \in Seq(Chars) /\ Len(new) = n - 1 BY <1>1, DropProperties
<1>3. RemoveAt(line, at) = new BY Zenon DEF RemoveAt
<1> HIDE DEF new
<1>4. Len(new) <= Width - 1 /\ at - 1 \in 0..Len(new) BY <1>1, <1>2
<1> QED BY <1>2, <1>3, <1>4 DEF Text, Lines

LEMMA PrefixIs ==
  ASSUME NEW S, NEW s \in Seq(S), NEW t \in Seq(S)
  PROVE  /\ IsPrefix(s, t) <=> Len(s) <= Len(t) /\ \A k \in 1..Len(s) : s[k] = t[k]
         /\ IsPrefix(s, t) => s = SubSeq(t, 1, Len(s))
<1> DEFINE n == Len(s)
<1>1. n \in Nat /\ Len(t) \in Nat BY LenProperties
<1>2. SubSeq(s, 1, n) = s BY SubSeqFull
<1>3. IsPrefix(s, t) <=> n <= Len(t) /\ s = SubSeq(t, 1, n) BY <1>2, Zenon DEF IsPrefix
<1>4. ASSUME n <= Len(t)
      PROVE  s = SubSeq(t, 1, n) <=> \A k \in 1..n : s[k] = t[k]
  <2>1. n \in 0..Len(t) BY <1>1, <1>4
  <2> DEFINE u == SubSeq(t, 1, n)
  <2>2. u \in Seq(S) /\ Len(u) = n /\ \A k \in 1..n : u[k] = t[k] BY <2>1, PrefixOfSeq
  <2> HIDE DEF u
  <2>3. (\A k \in 1..n : s[k] = t[k]) => s = u BY <2>2, SeqEqual
  <2>4. s = u => \A k \in 1..n : s[k] = t[k] BY <2>2
  <2> QED BY <2>3, <2>4 DEF u
<1> QED BY <1>3, <1>4, Zenon

\* The prefixes of one sequence are ordered by their lengths.
LEMMA PrefixOrder ==
  ASSUME NEW S, NEW s \in Seq(S), NEW t \in Seq(S), NEW u \in Seq(S),
         IsPrefix(s, u), IsPrefix(t, u), Len(s) <= Len(t)
  PROVE  IsPrefix(s, t)
<1>1. Len(s) \in Nat /\ Len(t) \in Nat BY LenProperties
<1>2. /\ \A k \in 1..Len(s) : s[k] = u[k]
      /\ \A k \in 1..Len(t) : t[k] = u[k]
  BY PrefixIs
<1>3. \A k \in 1..Len(s) : k \in 1..Len(t) BY <1>1
<1>4. \A k \in 1..Len(s) : s[k] = t[k] BY <1>2, <1>3, Zenon
<1> QED BY <1>4, PrefixIs

LEMMA MatchesFinite ==
  /\ Matches \subseteq DOMAIN Hints /\ IsFiniteSet(Matches)
  /\ Cardinality(Matches) > 1 \/ Cardinality(Matches) = 1 => Matches # {}
  /\ \A h \in Matches : IsPrefix(cmd, Hints[h])
<1>1. Matches \subseteq 1..Len(Hints) /\ Len(Hints) \in Nat /\ DOMAIN Hints = 1..Len(Hints)
  BY Sizes DEF Matches
<1>2. 1 \in Int /\ Len(Hints) \in Int BY <1>1
<1>3. IsFiniteSet(1..Len(Hints)) BY <1>2, FS_Interval
<1>4. IsFiniteSet(Matches) BY <1>1, <1>3, FS_Subset
<1>5. Cardinality({}) = 0 BY FS_EmptySet
<1>6. Cardinality(Matches) > 1 \/ Cardinality(Matches) = 1 => Matches # {} BY <1>5
<1>7. \A h \in Matches : IsPrefix(cmd, Hints[h]) BY Zenon DEF Matches
<1> QED BY <1>1, <1>4, <1>6, <1>7

\* Facts about the loops of compareHints, for a line that has matches.
LEMMA MatchText ==
  ASSUME cmd \in Text, NEW h \in Matches
  PROVE  /\ Hints[h] \in Seq(Chars) /\ Len(Hints[h]) \in Nat /\ Len(Hints[h]) <= Longest
         /\ Len(cmd) <= Len(Hints[h]) /\ \A k \in 1..Len(cmd) : Hints[h][k] = cmd[k]
<1>1. cmd \in Seq(Chars) BY DEF Text, Lines
<1>2. h \in DOMAIN Hints /\ IsPrefix(cmd, Hints[h]) BY MatchesFinite
<1>3. Hints[h] \in Seq(Chars) /\ Len(Hints[h]) <= Longest BY <1>2, Sizes DEF Lines
<1>4. Len(cmd) <= Len(Hints[h]) /\ \A k \in 1..Len(cmd) : cmd[k] = Hints[h][k]
  BY <1>1, <1>2, <1>3, PrefixIs
<1> QED BY <1>3, <1>4, LenProperties

LEMMA FirstMatch == ASSUME Matches # {} PROVE Min(Matches) \in Matches
<1>1. Matches \in SUBSET Nat BY MatchesFinite, Sizes
<1> QED BY <1>1, MinIs

LEMMA ShortestMatch ==
  ASSUME cmd \in Text
  PROVE  /\ len_min \in Nat /\ \A h \in Matches : len_min <= Len(Hints[h])
         /\ len_min = LongHint \/ \E h \in Matches : len_min = Len(Hints[h])
<1> DEFINE T == {LongHint} \union {Len(Hints[h]) : h \in Matches}
<1>1. \A h \in Matches : Len(Hints[h]) \in Nat BY MatchText
<1>2. T \in SUBSET Nat /\ T # {} BY <1>1 DEF LongHint
<1>3. \A h \in Matches : Len(Hints[h]) \in T BY Zenon
<1>4. \A n \in T : n = LongHint \/ \E h \in Matches : n = Len(Hints[h]) OBVIOUS
<1>5. len_min = Min(T) BY Zenon DEF len_min
<1> HIDE DEF T
<1>6. Min(T) \in T /\ \A n \in T : Min(T) <= n BY <1>2, MinIs
<1>7. len_min \in Nat BY <1>2, <1>5, <1>6
<1>8. \A h \in Matches : len_min <= Len(Hints[h]) BY <1>3, <1>5, <1>6, Zenon
<1>9. len_min = LongHint \/ \E h \in Matches : len_min = Len(Hints[h]) BY <1>4, <1>5, <1>6, Zenon
<1> QED BY <1>7, <1>8, <1>9

\* The loop takes a start of the first match, and ends where it should: no
\* match differs before its end, and some match differs or ends at it.
LEMMA LoopEnds ==
  ASSUME cmd \in Text, Matches # {}
  PROVE  LET first == Hints[Min(Matches)]
         IN  \E e \in Len(cmd)..Len(first) :
               /\ Completed = SubSeq(first, 1, e)
               /\ \A i \in Len(cmd)..(e - 1) : i < len_min /\ Agree(i)
               /\ e >= len_min \/ ~Agree(e) \/ At(first, e) = NUL
<1> DEFINE first == Hints[Min(Matches)]
           n == Len(cmd)
           m == Len(first)
           Stop(i) == i >= len_min \/ ~Agree(i) \/ At(first, i) = NUL
           Ends == {i \in n..m : Stop(i)}
           e == Min(Ends)
<1>1. /\ first \in Seq(Chars) /\ m \in Nat /\ n <= m /\ \A k \in 1..n : first[k] = cmd[k]
  BY FirstMatch, MatchText
<1>2. cmd \in Seq(Chars) /\ n \in Nat BY LenProperties DEF Text, Lines
<1>3. len_min \in Nat BY ShortestMatch
<1>4. At(first, m) = NUL
  <2>1. ~(m < m) BY <1>1
  <2> QED BY <2>1, Zenon DEF At
<1>5. Completed = cmd \o SubSeq(first, n + 1, e) BY Zenon DEF Completed
<1> HIDE DEF first, n, m
<1>6. m \in Ends BY <1>1, <1>2, <1>4
<1>7. Ends \in SUBSET Nat BY <1>1, <1>2
<1> HIDE DEF Stop
<1>8. e \in Ends /\ \A i \in Ends : e <= i
  <2> HIDE DEF Ends
  <2>1. Ends # {} BY <1>6
  <2> QED BY <1>7, <2>1, MinIs
<1>9. e \in n..m /\ Stop(e) BY <1>8
<1>10. \A i \in n..m : Stop(i) => e <= i BY <1>8
<1> HIDE DEF e
<1>11. \A i \in n..(e - 1) : i \in n..m /\ ~(e <= i) BY <1>1, <1>2, <1>9
<1>12. \A i \in n..(e - 1) : ~Stop(i) BY <1>10, <1>11
<1>13. \A i \in n..(e - 1) : i < len_min /\ Agree(i)
  <2> SUFFICES ASSUME NEW i \in n..(e - 1) PROVE i < len_min /\ Agree(i) OBVIOUS
  <2>1. i \in Nat /\ ~(i >= len_min) /\ Agree(i) BY <1>2, <1>9, <1>12 DEF Stop
  <2> QED BY <1>3, <2>1
<1>14. cmd = SubSeq(first, 1, n) BY <1>1, <1>2, PrefixIs DEF n, m
<1>15. SubSeq(first, 1, n) \o SubSeq(first, n + 1, e) = SubSeq(first, 1, e)
  <2>1. 1 \in 1..(m + 1) /\ n \in (1 - 1)..m /\ e \in n..m BY <1>1, <1>2, <1>9
  <2> QED BY <1>1, <2>1, ConcatAdjacentSubSeq DEF m
<1>16. Completed = SubSeq(first, 1, e) BY <1>5, <1>14, <1>15
<1>17. e >= len_min \/ ~Agree(e) \/ At(first, e) = NUL BY <1>9 DEF Stop
<1> QED BY <1>9, <1>13, <1>16, <1>17 DEF first, n, m

\* compareHints: what the matches share begins with cmd, and each match with it;
\* it is short of nothing they share.
LEMMA CompletedIs ==
  ASSUME cmd \in Text, Matches # {}
  PROVE  /\ Completed \in Lines /\ Len(Completed) <= Longest
         /\ IsPrefix(cmd, Completed)
         /\ \A h \in Matches : IsPrefix(Completed, Hints[h])
         /\ Len(Completed) < LongHint =>
              \A c \in Chars : \E h \in Matches : ~IsPrefix(Append(Completed, c), Hints[h])
<1> DEFINE first == Hints[Min(Matches)]
           n == Len(cmd)
           C == Completed
<1>1. PICK e \in n..Len(first) :
        /\ C = SubSeq(first, 1, e)
        /\ \A i \in n..(e - 1) : i < len_min /\ Agree(i)
        /\ e >= len_min \/ ~Agree(e) \/ At(first, e) = NUL
  BY LoopEnds
<1>2. /\ first \in Seq(Chars) /\ Len(first) \in Nat /\ Len(first) <= Longest
      /\ \A k \in 1..n : first[k] = cmd[k]
  BY FirstMatch, MatchText
<1>3. cmd \in Seq(Chars) /\ n \in Nat BY LenProperties DEF Text, Lines
<1>4. \A h \in Matches :
        /\ Hints[h] \in Seq(Chars) /\ Len(Hints[h]) \in Nat /\ n <= Len(Hints[h])
        /\ \A k \in 1..n : Hints[h][k] = cmd[k]
  BY MatchText
<1>5. /\ len_min \in Nat /\ \A h \in Matches : len_min <= Len(Hints[h])
      /\ len_min = LongHint \/ \E h \in Matches : len_min = Len(Hints[h])
  BY ShortestMatch
<1>6. \A i : Agree(i) <=> \A h \in Matches : At(Hints[h], i) = At(first, i) BY Zenon DEF Agree
<1> HIDE DEF C, n, first
<1>7. e \in Nat /\ n <= e /\ e \in 0..Len(first) /\ e <= Longest
  BY <1>1, <1>2, <1>3, Sizes
<1>8. C \in Seq(Chars) /\ Len(C) = e /\ \A k \in 1..e : C[k] = first[k]
  BY <1>1, <1>2, <1>7, PrefixOfSeq
<1>9. IsPrefix(cmd, C)
  <2>1. \A k \in 1..n : k \in 1..e /\ cmd[k] = first[k] BY <1>2, <1>3, <1>7
  <2>2. \A k \in 1..n : cmd[k] = C[k] BY <1>8, <2>1
  <2>3. n <= Len(C) BY <1>7, <1>8
  <2> QED BY <1>3, <1>8, <2>2, <2>3, PrefixIs DEF n
<1>10. ASSUME NEW h \in Matches PROVE IsPrefix(C, Hints[h])
  <2> DEFINE H == Hints[h]
  <2>1. H \in Seq(Chars) /\ Len(H) \in Nat /\ n <= Len(H) /\ \A k \in 1..n : H[k] = cmd[k]
    BY <1>4
  <2>2. len_min \in Nat /\ len_min <= Len(H) BY <1>5
  <2>3. \A i : Agree(i) => At(H, i) = At(first, i) BY <1>6
  <2> HIDE DEF H
  <2>4. e <= Len(H)
    <3>1. CASE e = n BY <2>1, <3>1
    <3>2. CASE e # n
      <4>1. e - 1 \in n..(e - 1) BY <1>3, <1>7, <3>2
      <4>2. e - 1 < len_min BY <1>1, <4>1
      <4> QED BY <1>7, <2>1, <2>2, <4>2
    <3> QED BY <3>1, <3>2
  <2>5. ASSUME NEW k \in 1..e PROVE C[k] = H[k]
    <3>1. C[k] = first[k] BY <1>8
    <3>2. CASE k <= n
      <4>1. k \in 1..n BY <1>3, <1>7, <3>2
      <4> QED BY <1>2, <2>1, <3>1, <4>1
    <3>3. CASE ~(k <= n)
      <4>1. k - 1 \in n..(e - 1) /\ (k - 1) + 1 = k BY <1>3, <1>7, <3>3
      <4>2. At(H, k - 1) = At(first, k - 1) BY <1>1, <2>3, <4>1
      <4>3. k - 1 < Len(H) /\ k - 1 < Len(first) BY <1>2, <1>7, <2>1, <2>4
      <4>4. At(H, k - 1) = H[(k - 1) + 1] /\ At(first, k - 1) = first[(k - 1) + 1]
        BY <4>3, Zenon DEF At
      <4> QED BY <3>1, <4>1, <4>2, <4>4
    <3> QED BY <3>2, <3>3
  <2>6. IsPrefix(C, H) <=> Len(C) <= Len(H) /\ \A k \in 1..Len(C) : C[k] = H[k]
    BY <1>8, <2>1, PrefixIs
  <2>7. Len(C) <= Len(H) /\ \A k \in 1..Len(C) : C[k] = H[k] BY <1>8, <2>4, <2>5
  <2> QED BY <2>6, <2>7 DEF H
<1>11. ASSUME e < LongHint, NEW c \in Chars, \A h \in Matches : IsPrefix(Append(C, c), Hints[h])
       PROVE  FALSE
  <2> DEFINE a == Append(C, c)
  <2>1. a \in Seq(Chars) /\ Len(a) = e + 1 /\ a[e + 1] = c BY <1>8, AppendProperties
  <2>2. ASSUME NEW h \in Matches PROVE e < Len(Hints[h]) /\ At(Hints[h], e) = c
    <3> DEFINE H == Hints[h]
    <3>1. H \in Seq(Chars) /\ Len(H) \in Nat /\ IsPrefix(a, H) BY <1>4, <1>11
    <3> HIDE DEF H, a
    <3>2. e + 1 <= Len(H) /\ \A k \in 1..(e + 1) : a[k] = H[k] BY <2>1, <3>1, PrefixIs
    <3>3. e + 1 \in 1..(e + 1) /\ e < Len(H) BY <1>7, <3>1, <3>2
    <3>4. At(H, e) = H[e + 1] BY <3>3, Zenon DEF At
    <3> QED BY <2>1, <3>2, <3>3, <3>4 DEF H
  <2>3. e < len_min BY <1>5, <1>11, <2>2
  <2>4. Min(Matches) \in Matches BY FirstMatch
  <2>5. At(first, e) = c BY <2>2, <2>4 DEF first
  <2>6. Agree(e) BY <1>6, <2>2, <2>5
  <2>7. c # NUL BY FileAssumption
  <2> QED BY <1>1, <1>5, <1>7, <2>3, <2>5, <2>6, <2>7
<1>12. C \in Lines /\ Len(C) <= Longest BY <1>7, <1>8 DEF Lines
<1>13. Len(C) < LongHint =>
         \A c \in Chars : \E h \in Matches : ~IsPrefix(Append(C, c), Hints[h])
  BY <1>8, <1>11
<1> QED BY <1>9, <1>10, <1>12, <1>13 DEF C

----------------------------------------------------------------------------
\* The inductive invariant.

\* The line, the cursor and what the terminal shows of them.
EditInv ==
  /\ cmd \in Text /\ m_index \in 0..Len(cmd) /\ cmd_buffer \in Text /\ noise \in BOOLEAN
  /\ RowOK(screen, cmd, m_index)
  /\ ~noise => Shows(screen, cmd, m_index)

\* Entries end in something that can be seen, so the file gives them back.
ListInv == history \in Seq(Entry) /\ curr \in 0..Len(history)

DiskInv ==
  /\ session \in {"edit", "down", "crashed"}
  /\ last_key \in BOOLEAN /\ intact \in BOOLEAN
  /\ file \in Seq(FileLine) \union {Missing}

LineInv == EditInv /\ ListInv /\ DiskInv

\* A line written to its end.
LEMMA WriteWhole ==
  ASSUME NEW line \in Text
  PROVE  /\ RowOK(writeLine(Blank, line), line, Len(line))
         /\ Shows(writeLine(Blank, line), line, Len(line))
<1> DEFINE n == Len(line)
           w == writeLine(Blank, line)
<1>1. line \in Lines /\ n \in Nat /\ Width \in Nat BY LenProperties, Sizes DEF Text, Lines
<1>2. /\ w \in Screen /\ w.col = n
      /\ \A k \in 1..Width : w.row[k] = IF k <= n THEN line[k] ELSE " "
  BY <1>1, WriteOnBlank
<1> HIDE DEF w, n
<1>3. n + (n - n) = n /\ n <= n /\ \A k \in 1..Width : k > n => ~(k <= n) BY <1>1
<1>4. \A k \in 1..Width : k > w.col + (n - n) => w.row[k] = " " BY <1>2, <1>3, Zenon
<1>5. w.col <= n BY <1>2, <1>3, Zenon
<1>6. RowOK(w, line, n) BY <1>2, <1>4, <1>5, Zenon DEF RowOK, n
<1>7. Shows(w, line, n) BY <1>2, Zenon DEF Shows, w
<1> QED BY <1>6, <1>7 DEF w, n

LEMMA EmptyText == <<>> \in Text /\ Len(<<>>) = 0
<1>1. <<>> \in Lines /\ Len(<<>>) = 0 BY EmptySeq DEF Lines
<1>2. 0 <= Width - 1 BY Sizes
<1> QED BY <1>1, <1>2 DEF Text

LEMMA EmptyShown == RowOK(Blank, <<>>, 0) /\ Shows(Blank, <<>>, 0)
<1> DEFINE w == writeLine(Blank, <<>>)
<1>1. <<>> \in Text /\ Len(<<>>) = 0 BY EmptyText
<1>2. RowOK(w, <<>>, 0) /\ Shows(w, <<>>, 0)
  <2>1. RowOK(w, <<>>, Len(<<>>)) /\ Shows(w, <<>>, Len(<<>>)) BY <1>1, WriteWhole
  <2> QED BY <1>1, <2>1
<1>3. w = Blank
  <2>1. /\ w \in Screen /\ w.col = 0
        /\ \A k \in 1..Width : w.row[k] = IF k <= 0 THEN <<>>[k] ELSE " "
    <3>1. <<>> \in Lines BY <1>1 DEF Text
    <3>2. /\ w \in Screen /\ w.col = Len(<<>>)
          /\ \A k \in 1..Width : w.row[k] = IF k <= Len(<<>>) THEN <<>>[k] ELSE " "
      BY <3>1, WriteOnBlank
    <3> QED BY <1>1, <3>2, Zenon
  <2> HIDE DEF w
  <2>2. \A k \in 1..Width : ~(k <= 0) BY Sizes
  <2>3. w.col = Blank.col /\ \A k \in 1..Width : w.row[k] = Blank.row[k]
    BY <2>1, <2>2, BlankIs, Zenon
  <2> QED BY <2>1, <2>3, BlankIs, SameScreen
<1> QED BY <1>2, <1>3

LEMMA EmptyLineKeeps == ASSUME EmptyLine PROVE EditInv'
<1>1. /\ cmd' = <<>> /\ m_index' = 0 /\ cmd_buffer' = <<>>
      /\ screen' = Blank /\ noise' = FALSE
  BY DEF EmptyLine
<1>2. cmd' \in Text /\ cmd_buffer' \in Text /\ Len(cmd') = 0 BY <1>1, EmptyText
<1>3. m_index' \in 0..Len(cmd')
  <2>1. 0 \in 0..0 OBVIOUS
  <2> QED BY <1>1, <1>2, <2>1, Zenon
<1>4. RowOK(screen', cmd', m_index') /\ Shows(screen', cmd', m_index')
  BY <1>1, EmptyShown, Zenon
<1> QED BY <1>1, <1>2, <1>3, <1>4, Zenon DEF EditInv

LEMMA RedrawKeeps ==
  ASSUME EditInv, NEW line \in Text, NEW at \in 0..Len(line), Redraw(line, at),
         cmd_buffer' \in Text
  PROVE  EditInv'
<1>1. cmd \in Text /\ m_index \in 0..Len(cmd) /\ RowOK(screen, cmd, m_index)
  BY Zenon DEF EditInv
<1>2. /\ cmd' = line /\ m_index' = at /\ noise' = FALSE
      /\ RowOK(screen', line, at) /\ Shows(screen', line, at)
  BY <1>1, RedrawIs
<1>3. RowOK(screen', cmd', m_index') /\ Shows(screen', cmd', m_index') BY <1>2, Zenon
<1>4. cmd' \in Text /\ m_index' \in 0..Len(cmd') BY <1>2, Zenon
<1> QED BY <1>2, <1>3, <1>4, Zenon DEF EditInv

\* Left alone.
LEMMA EditUnchanged ==
  ASSUME EditInv, UNCHANGED <<cmd, m_index, screen, noise>>, cmd_buffer' \in Text
  PROVE  EditInv'
<1>1. cmd' = cmd /\ m_index' = m_index /\ screen' = screen /\ noise' = noise OBVIOUS
<1>2. RowOK(screen, cmd, m_index) /\ (~noise => Shows(screen, cmd, m_index))
  BY Zenon DEF EditInv
<1>3. RowOK(screen', cmd', m_index') BY <1>1, <1>2, Zenon
<1>4. ASSUME ~noise' PROVE Shows(screen', cmd', m_index')
  <2>1. ~noise BY <1>1, <1>4
  <2>2. Shows(screen, cmd, m_index) BY <1>2, <2>1
  <2> QED BY <1>1, <2>2, Zenon
<1>5. cmd' \in Text /\ m_index' \in 0..Len(cmd') /\ noise' \in BOOLEAN BY <1>1 DEF EditInv
<1> QED BY <1>3, <1>4, <1>5, Zenon DEF EditInv

LEMMA ShowKeeps ==
  ASSUME EditInv, NEW line \in Text, Show(line), UNCHANGED cmd_buffer
  PROVE  EditInv'
<1>1. Len(line) \in Nat BY LenProperties DEF Text, Lines
<1>2. Len(line) \in 0..Len(line) BY <1>1
<1>3. Redraw(line, Len(line)) BY Zenon DEF Show
<1>4. cmd_buffer' \in Text BY DEF EditInv
<1> QED BY <1>2, <1>3, <1>4, RedrawKeeps

\* Text is wide enough for a completion and its space.
LEMMA CompletionText ==
  ASSUME NEW line \in Lines, Len(line) <= Longest
  PROVE  line \in Text /\ Append(line, " ") \in Text
<1> DEFINE n == Len(line)
<1>1. line \in Seq(Chars) /\ n \in Nat BY LenProperties DEF Lines
<1>2. Append(line, " ") \in Seq(Chars) /\ Len(Append(line, " ")) = n + 1
  BY <1>1, KeysAssumption, AppendProperties
<1> HIDE DEF n
<1>3. n <= Width - 1 /\ n + 1 <= Width - 1 BY <1>1, Sizes DEF n
<1> QED BY <1>1, <1>2, <1>3 DEF Text, Lines, n

----------------------------------------------------------------------------
\* The keys, one by one.

LEMMA InsertKeeps == ASSUME EditInv, Insert PROVE EditInv'
<1>1. cmd \in Text /\ m_index \in 0..Len(cmd) BY DEF EditInv
<1>2. PICK c \in Chars :
        Redraw(SubSeq(cmd, 1, m_index) \o <<c>> \o SubSeq(cmd, m_index + 1, Len(cmd)), m_index + 1)
  BY Zenon DEF Insert
<1>3. Len(cmd) < MaxLine /\ cmd_buffer' = cmd' BY DEF Insert
<1> DEFINE new == SubSeq(cmd, 1, m_index) \o <<c>> \o SubSeq(cmd, m_index + 1, Len(cmd))
<1>4. new \in Text /\ m_index + 1 \in 0..Len(new) BY <1>1, <1>3, InsertedText
<1>5. Redraw(new, m_index + 1) BY <1>2
<1> HIDE DEF new
<1>6. cmd' = new BY <1>5 DEF Redraw
<1>7. cmd_buffer' \in Text BY <1>3, <1>4, <1>6
<1> QED BY <1>4, <1>5, <1>7, RedrawKeeps

LEMMA BackspaceKeeps == ASSUME EditInv, Backspace PROVE EditInv'
<1>1. cmd \in Text /\ m_index \in 0..Len(cmd) /\ cmd_buffer' \in Text
  BY DEF EditInv, Backspace
<1>2. CASE m_index > 0
  <2>1. Redraw(RemoveAt(cmd, m_index), m_index - 1) BY <1>2, Zenon DEF Backspace
  <2>2. m_index \in 1..Len(cmd) BY <1>1, <1>2
  <2>3. RemoveAt(cmd, m_index) \in Text /\ m_index - 1 \in 0..Len(RemoveAt(cmd, m_index))
    BY <1>1, <2>2, RemovedText
  <2> QED BY <1>1, <2>1, <2>3, RedrawKeeps
<1>3. CASE ~(m_index > 0)
  <2>1. UNCHANGED <<cmd, m_index, screen, noise>> BY <1>3, Zenon DEF Backspace
  <2> QED BY <1>1, <2>1, EditUnchanged
<1> QED BY <1>2, <1>3

\* possible_cmd when a single hint matches, without its space.
Only == Hints[Min(Matches)]

LEMMA OnlyMatch ==
  ASSUME cmd \in Text, Matches # {}
  PROVE  Only \in Lines /\ Len(Only) <= Longest /\ IsPrefix(cmd, Only)
<1>1. Only \in Lines /\ Len(Only) <= Longest BY FirstMatch, MatchText DEF Only, Lines
<1>2. IsPrefix(cmd, Only) BY FirstMatch, MatchesFinite DEF Only
<1> QED BY <1>1, <1>2

LEMMA TabKeeps == ASSUME EditInv, Tab PROVE EditInv'
<1>1. cmd \in Text /\ cmd_buffer' \in Text /\ cmd_buffer' = cmd_buffer BY DEF EditInv, Tab
<1>2. CASE /\ Cardinality(Matches) > 1 /\ cmd' = Completed
           /\ screen' = writeLine(Blank, cmd') /\ noise' = FALSE /\ m_index' = Len(cmd')
  <2>1. Matches # {} BY <1>2, MatchesFinite
  <2>2. Completed \in Text BY <1>1, <2>1, CompletedIs, CompletionText
  <2>3. cmd' \in Text BY <1>2, <2>2
  <2>4. Len(cmd') \in Nat BY <2>3, LenProperties DEF Text, Lines
  <2>5. m_index' \in 0..Len(cmd')
    <3>1. \A n \in Nat : n \in 0..n OBVIOUS
    <3> QED BY <1>2, <2>4, <3>1, Zenon
  <2>6. RowOK(writeLine(Blank, cmd'), cmd', Len(cmd')) /\ Shows(writeLine(Blank, cmd'), cmd', Len(cmd'))
    BY <2>3, WriteWhole
  <2>7. RowOK(screen', cmd', m_index') /\ Shows(screen', cmd', m_index') BY <1>2, <2>6, Zenon
  <2> QED BY <1>1, <1>2, <2>3, <2>5, <2>7, Zenon DEF EditInv
<1>3. CASE /\ Cardinality(Matches) = 1
           /\ Redraw(Append(Only, " "), Len(Append(Only, " ")))
  <2>1. Matches # {} BY <1>3, MatchesFinite
  <2>2. Append(Only, " ") \in Text BY <1>1, <2>1, OnlyMatch, CompletionText
  <2>3. Show(Append(Only, " ")) BY <1>3, Zenon DEF Show
  <2> QED BY <1>1, <2>2, <2>3, ShowKeeps
<1>4. CASE UNCHANGED <<cmd, m_index, screen, noise>> BY <1>1, <1>4, EditUnchanged
<1> QED BY <1>2, <1>3, <1>4, Zenon DEF Tab, Only

LEMMA UpKeeps == ASSUME EditInv, ListInv, Up PROVE EditInv' /\ ListInv'
<1> DEFINE n == Len(history)
<1>1. /\ history # <<>> /\ history \in Seq(Entry) /\ curr \in 0..n
      /\ history' = history /\ cmd_buffer' = cmd_buffer
  BY DEF Up, ListInv
<1>2. n \in Nat \ {0} BY <1>1, EmptySeq
<1>3. curr' = (IF curr > 1 /\ history[curr] = cmd THEN curr - 2 ELSE Max({0, curr - 1}))
  BY Zenon DEF Up
<1>4. Max({0, curr - 1}) = IF 0 >= curr - 1 THEN 0 ELSE curr - 1
  <2>1. 0 \in Int /\ curr - 1 \in Int BY <1>1, <1>2
  <2> QED BY <2>1, OfTwo, Zenon
<1> HIDE DEF n
<1>5. curr' \in 0..(n - 1)
  <2>1. CASE curr > 1 /\ history[curr] = cmd
    <3>1. curr' = curr - 2 BY <1>3, <2>1
    <3> QED BY <1>1, <1>2, <2>1, <3>1
  <2>2. CASE ~(curr > 1 /\ history[curr] = cmd)
    <3>1. curr' = IF 0 >= curr - 1 THEN 0 ELSE curr - 1 BY <1>3, <1>4, <2>2, Zenon
    <3> QED BY <1>1, <1>2, <3>1
  <2> QED BY <2>1, <2>2
<1>6. curr' + 1 \in 1..n /\ curr' \in 0..n
  <2>1. \A x \in 0..(n - 1) : x + 1 \in 1..n /\ x \in 0..n BY <1>2
  <2> QED BY <1>5, <2>1, Zenon
<1>7. history[curr' + 1] \in Text
  <2>1. history[curr' + 1] \in Entry BY <1>1, <1>6, ElementOfSeq DEF n
  <2> QED BY <2>1 DEF Entry
<1>8. Show(history[curr' + 1]) BY Zenon DEF Up
<1>9. EditInv' BY <1>1, <1>7, <1>8, ShowKeeps
<1>10. ListInv' BY <1>1, <1>6, Zenon DEF ListInv, n
<1> QED BY <1>9, <1>10

LEMMA DownKeeps == ASSUME EditInv, ListInv, Down PROVE EditInv' /\ ListInv'
<1> DEFINE n == Len(history)
<1>1. /\ history # <<>> /\ history \in Seq(Entry) /\ curr \in 0..n
      /\ history' = history /\ cmd_buffer' = cmd_buffer /\ cmd_buffer \in Text
  BY DEF Down, ListInv, EditInv
<1>2. n \in Nat \ {0} BY <1>1, EmptySeq
<1>3. curr' = Min({curr + 1, n}) BY Zenon DEF Down
<1>4. Min({curr + 1, n}) = IF curr + 1 <= n THEN curr + 1 ELSE n
  <2>1. n \in Int /\ curr + 1 \in Int BY <1>1, <1>2
  <2> QED BY <2>1, OfTwo, Zenon
<1>5. \/ curr' < n /\ Show(history[curr' + 1])
      \/ Show(cmd_buffer)
      \/ UNCHANGED <<cmd, m_index, screen, noise>>
  BY Zenon DEF Down
<1> HIDE DEF n
<1>6. curr' \in 0..n /\ (curr' < n => curr' + 1 \in 1..n)
  <2>1. curr' = IF curr + 1 <= n THEN curr + 1 ELSE n BY <1>3, <1>4
  <2> QED BY <1>1, <1>2, <2>1
<1>7. ListInv' BY <1>1, <1>6, Zenon DEF ListInv, n
<1>8. CASE curr' < n /\ Show(history[curr' + 1])
  <2>1. history[curr' + 1] \in Entry BY <1>1, <1>6, <1>8, ElementOfSeq DEF n
  <2>2. history[curr' + 1] \in Text BY <2>1 DEF Entry
  <2> QED BY <1>1, <1>7, <1>8, <2>2, ShowKeeps
<1>9. CASE Show(cmd_buffer) BY <1>1, <1>7, <1>9, ShowKeeps
<1>10. CASE UNCHANGED <<cmd, m_index, screen, noise>> BY <1>1, <1>7, <1>10, EditUnchanged
<1> QED BY <1>5, <1>8, <1>9, <1>10

LEMMA LeftArrowKeeps == ASSUME EditInv, LeftArrow PROVE EditInv'
<1>1. /\ cmd \in Text /\ m_index \in 0..Len(cmd) /\ m_index > 0
      /\ cmd' = cmd /\ cmd_buffer' = cmd_buffer /\ noise' = noise
      /\ m_index' = m_index - 1 /\ screen' = Left(screen, 1)
  BY DEF EditInv, LeftArrow
<1>2. Len(cmd) \in Nat BY <1>1, LenProperties DEF Text, Lines
<1>3. m_index \in 1..Len(cmd) /\ m_index - 1 \in 0..Len(cmd) BY <1>1, <1>2
<1>4. RowOK(screen, cmd, m_index) /\ (~noise => Shows(screen, cmd, m_index)) BY Zenon DEF EditInv
<1>5. /\ RowOK(Left(screen, 1), cmd, m_index - 1)
      /\ Shows(screen, cmd, m_index) => Shows(Left(screen, 1), cmd, m_index - 1)
  BY <1>1, <1>3, <1>4, LeftKeeps
<1>6. RowOK(screen', cmd', m_index') /\ (~noise' => Shows(screen', cmd', m_index'))
  BY <1>1, <1>4, <1>5, Zenon
<1>7. m_index' \in 0..Len(cmd') BY <1>1, <1>3, Zenon
<1> QED BY <1>1, <1>6, <1>7, Zenon DEF EditInv

LEMMA RightArrowKeeps == ASSUME EditInv, RightArrow PROVE EditInv'
<1>1. /\ cmd \in Text /\ m_index \in 0..Len(cmd) /\ m_index < Len(cmd)
      /\ cmd' = cmd /\ cmd_buffer' = cmd_buffer /\ noise' = noise
      /\ m_index' = m_index + 1 /\ screen' = writeLine(screen, <<cmd[m_index + 1]>>)
  BY DEF EditInv, RightArrow
<1>2. Len(cmd) \in Nat BY <1>1, LenProperties DEF Text, Lines
<1>3. m_index \in 0..(Len(cmd) - 1) /\ m_index + 1 \in 0..Len(cmd) BY <1>1, <1>2
<1>4. RowOK(screen, cmd, m_index) /\ (~noise => Shows(screen, cmd, m_index)) BY Zenon DEF EditInv
<1> DEFINE t == writeLine(screen, <<cmd[m_index + 1]>>)
<1>5. /\ RowOK(t, cmd, m_index + 1)
      /\ Shows(screen, cmd, m_index) => Shows(t, cmd, m_index + 1)
  BY <1>1, <1>3, <1>4, RightKeeps
<1>6. RowOK(screen', cmd', m_index') /\ (~noise' => Shows(screen', cmd', m_index'))
  BY <1>1, <1>4, <1>5, Zenon
<1>7. m_index' \in 0..Len(cmd') BY <1>1, <1>3, Zenon
<1> QED BY <1>1, <1>6, <1>7, Zenon DEF EditInv

\* After "len = " the cursor is at the start of an empty row, wherever m_index is.
LEMMA OtherKeyKeeps == ASSUME EditInv, OtherKey PROVE EditInv'
<1>1. /\ cmd \in Text /\ m_index \in 0..Len(cmd)
      /\ cmd' = cmd /\ cmd_buffer' = cmd_buffer /\ m_index' = m_index
      /\ noise' = TRUE /\ screen' = Blank
  BY DEF EditInv, OtherKey
<1>2. RowOK(Blank, cmd, m_index)
  <2>1. Len(cmd) \in Nat BY <1>1, LenProperties DEF Text, Lines
  <2>2. 0 <= m_index BY <1>1, <2>1
  <2> QED BY <2>2, BlankIs, Zenon DEF RowOK
<1>3. RowOK(screen', cmd', m_index') BY <1>1, <1>2, Zenon
<1> QED BY <1>1, <1>3, Zenon DEF EditInv

LEMMA EnterCommandKeeps == ASSUME EditInv, ListInv, EnterCommand PROVE EditInv' /\ ListInv'
<1>1. EmptyLine /\ history \in Seq(Entry) /\ cmd \in Text BY DEF EnterCommand, ListInv, EditInv
<1>2. history' = (IF Last(history) # Trim(cmd) /\ Trim(cmd) # Exit
                    THEN Append(history, Trim(cmd)) ELSE history)
  BY Zenon DEF EnterCommand
<1>3. Trim(cmd) \in Entry
  <2>1. cmd \in Seq(Chars) /\ Len(cmd) \in Nat /\ Len(cmd) <= Width - 1
    BY <1>1, LenProperties DEF Text, Lines
  <2>2. Trim(cmd) \in Seq(Chars) /\ Len(Trim(cmd)) <= Len(cmd) /\ Trimmed(Trim(cmd))
    BY <2>1, TrimTrimmed
  <2> DEFINE t == Trim(cmd)
  <2>3. t \in Seq(Chars) /\ Len(t) <= Len(cmd) /\ Trimmed(t) BY <2>2
  <2> HIDE DEF t
  <2>4. Len(t) \in Nat BY <2>3, LenProperties
  <2>5. Len(t) <= Width - 1 BY <2>1, <2>3, <2>4, Sizes
  <2> QED BY <2>3, <2>5 DEF Entry, Text, Lines, t
<1>4. history' \in Seq(Entry) BY <1>1, <1>2, <1>3, AppendProperties
<1>5. curr' = Len(history') BY DEF EnterCommand
<1>6. Len(history') \in Nat BY <1>4, LenProperties
<1>7. curr' \in 0..Len(history')
  <2>1. \A n \in Nat : n \in 0..n OBVIOUS
  <2> QED BY <1>5, <1>6, <2>1, Zenon
<1> QED BY <1>1, <1>4, <1>7, EmptyLineKeeps DEF ListInv

\* The object is gone.
LEMMA GoneKeeps == ASSUME Gone PROVE EditInv' /\ ListInv' /\ last_key' = FALSE
<1>1. EmptyLine /\ history' = <<>> /\ curr' = 0 /\ last_key' = FALSE BY DEF Gone
<1>2. history' \in Seq(Entry) /\ Len(history') = 0 BY <1>1, EmptySeq
<1>3. curr' \in 0..Len(history')
  <2>1. 0 \in 0..0 OBVIOUS
  <2> QED BY <1>1, <1>2, <2>1, Zenon
<1> QED BY <1>1, <1>2, <1>3, EmptyLineKeeps DEF ListInv

\* What readHistory finds on disk are entries.
LEMMA HistoryRead ==
  ASSUME DiskInv
  PROVE  readHistory(file) \in Seq(Entry)
<1>1. CASE file = Missing
  <2>1. readHistory(file) = <<Help>> BY <1>1, Zenon DEF readHistory
  <2>2. Help \in Entry
    <3>1. Help \in Lines /\ Help # <<>> /\ Help[Len(Help)] \notin Blanks
      BY KeysAssumption, HelpAssumption DEF Last, Blanks
    <3>2. Len(Help) \in Nat BY <3>1, LenProperties DEF Lines
    <3>3. Len(Help) <= Width - 1 BY <3>2, Sizes
    <3> QED BY <3>1, <3>3 DEF Entry, Text, Trimmed
  <2> QED BY <2>1, <2>2
<1>2. CASE file # Missing
  <2>1. file \in Seq(FileLine) BY <1>2 DEF DiskInv
  <2> QED BY <1>2, <2>1, ReadTyped
<1> QED BY <1>1, <1>2

LEMMA StartKeeps == ASSUME LineInv, Start PROVE LineInv'
<1>1. /\ EmptyLine /\ session' = "edit" /\ history' = readHistory(file)
      /\ curr' = Len(history') /\ last_key' = FALSE /\ file' = file /\ intact' = intact
  BY DEF Start
<1>2. history' \in Seq(Entry) BY <1>1, HistoryRead DEF LineInv
<1>3. Len(history') \in Nat BY <1>2, LenProperties
<1>4. curr' \in 0..Len(history')
  <2>1. \A n \in Nat : n \in 0..n OBVIOUS
  <2> QED BY <1>1, <1>3, <2>1, Zenon
<1>5. DiskInv' BY <1>1 DEF DiskInv, LineInv
<1> QED BY <1>1, <1>2, <1>4, <1>5, EmptyLineKeeps DEF LineInv, ListInv

LEMMA QuitKeeps == ASSUME LineInv, Quit PROVE LineInv'
<1>1. EditInv' /\ ListInv' /\ last_key' = FALSE BY GoneKeeps DEF Quit
<1>2. history \in Seq(Entry) /\ intact \in BOOLEAN /\ file \in Seq(FileLine) \union {Missing}
  BY DEF LineInv, ListInv, DiskInv
<1>3. session' = "down" BY DEF Quit
<1>4. file' \in Seq(FileLine) \union {Missing} /\ intact' \in BOOLEAN
  <2>1. CASE file' = FileOf(history) /\ intact' = (intact /\ Short(FileOf(history)))
    <3>1. FileOf(history) \in Seq(FileLine) BY <1>2, FileOfIs
    <3> QED BY <2>1, <3>1
  <2>2. CASE intact /\ file' \in Torn(FileOf(history)) /\ intact' = FALSE
    <3>1. file' \in Seq(FileLine) BY <1>2, <2>2, TornIs
    <3> QED BY <2>2, <3>1
  <2>3. CASE UNCHANGED <<file, intact>> BY <1>2, <2>3
  <2> QED BY <2>1, <2>2, <2>3, Zenon DEF Quit
<1> QED BY <1>1, <1>3, <1>4 DEF LineInv, DiskInv

LEMMA LineInvStep == ASSUME LineInv, [Next]_vars PROVE LineInv'
<1>0. EditInv /\ ListInv /\ DiskInv BY DEF LineInv
<1>1. ASSUME NEW tab \in BOOLEAN, Key(tab) PROVE DiskInv'
  BY <1>0, <1>1 DEF Key, DiskInv
<1>2. ASSUME UNCHANGED <<history, curr>> PROVE ListInv' BY <1>0, <1>2 DEF ListInv
<1>3. CASE Start BY <1>3, StartKeeps
<1>4. CASE Quit BY <1>4, QuitKeeps
<1>5. CASE Kill
  <2>1. EditInv' /\ ListInv' /\ last_key' = FALSE BY <1>5, GoneKeeps DEF Kill
  <2>2. DiskInv' BY <1>0, <1>5, <2>1 DEF Kill, DiskInv
  <2> QED BY <2>1, <2>2 DEF LineInv
<1>6. CASE Insert
  <2>1. EditInv' BY <1>0, <1>6, InsertKeeps
  <2> QED BY <2>1, <1>1, <1>2, <1>6 DEF Insert, LineInv
<1>7. CASE Backspace
  <2>1. EditInv' BY <1>0, <1>7, BackspaceKeeps
  <2> QED BY <2>1, <1>1, <1>2, <1>7 DEF Backspace, LineInv
<1>8. CASE EnterCommand
  <2>1. EditInv' /\ ListInv' BY <1>0, <1>8, EnterCommandKeeps
  <2> QED BY <2>1, <1>1, <1>8 DEF EnterCommand, LineInv
<1>9. CASE EnterNoHistory
  <2>1. EditInv' /\ ListInv' /\ last_key' = FALSE BY <1>9, GoneKeeps DEF EnterNoHistory
  <2>2. DiskInv' BY <1>0, <1>9, <2>1 DEF EnterNoHistory, DiskInv
  <2> QED BY <2>1, <2>2 DEF LineInv
<1>10. CASE EnterBlank
  <2>1. EditInv' BY <1>10, EmptyLineKeeps DEF EnterBlank
  <2> QED BY <2>1, <1>1, <1>2, <1>10 DEF EnterBlank, LineInv
<1>11. CASE Tab
  <2>1. EditInv' BY <1>0, <1>11, TabKeeps
  <2>2. Key(TRUE) /\ UNCHANGED <<history, curr>> BY <1>11 DEF Tab
  <2> QED BY <2>1, <2>2, <1>1, <1>2 DEF LineInv
<1>12. CASE Up
  <2>1. EditInv' /\ ListInv' BY <1>0, <1>12, UpKeeps
  <2> QED BY <2>1, <1>1, <1>12 DEF Up, LineInv
<1>13. CASE Down
  <2>1. EditInv' /\ ListInv' BY <1>0, <1>13, DownKeeps
  <2> QED BY <2>1, <1>1, <1>13 DEF Down, LineInv
<1>14. CASE LeftArrow
  <2>1. EditInv' BY <1>0, <1>14, LeftArrowKeeps
  <2> QED BY <2>1, <1>1, <1>2, <1>14 DEF LeftArrow, LineInv
<1>15. CASE RightArrow
  <2>1. EditInv' BY <1>0, <1>15, RightArrowKeeps
  <2> QED BY <2>1, <1>1, <1>2, <1>15 DEF RightArrow, LineInv
<1>16. CASE OtherEscape
  <2>1. /\ Key(FALSE) /\ UNCHANGED <<history, curr>>
        /\ UNCHANGED <<cmd, m_index, screen, noise>> /\ cmd_buffer' \in Text
    BY <1>0, <1>16 DEF OtherEscape, lineVars, EditInv
  <2>2. EditInv' BY <1>0, <2>1, EditUnchanged
  <2> QED BY <2>1, <2>2, <1>1, <1>2 DEF LineInv
<1>17. CASE OtherKey
  <2>1. EditInv' BY <1>0, <1>17, OtherKeyKeeps
  <2> QED BY <2>1, <1>1, <1>2, <1>17 DEF OtherKey, LineInv
<1>18. CASE UNCHANGED vars
  <2>1. /\ UNCHANGED <<history, curr>> /\ UNCHANGED <<cmd, m_index, screen, noise>>
        /\ cmd_buffer' \in Text /\ UNCHANGED <<session, last_key, intact, file>>
    BY <1>0, <1>18 DEF vars, EditInv
  <2>2. EditInv' BY <1>0, <2>1, EditUnchanged
  <2>3. DiskInv' BY <1>0, <2>1 DEF DiskInv
  <2> QED BY <2>1, <2>2, <2>3, <1>2 DEF LineInv
<1> QED
  BY <1>3, <1>4, <1>5, <1>6, <1>7, <1>8, <1>9, <1>10, <1>11, <1>12, <1>13, <1>14, <1>15, <1>16,
     <1>17, <1>18, Zenon DEF Next, readLine

LEMMA LineInvInit == ASSUME Init PROVE LineInv
<1>1. /\ session = "down" /\ history = <<>> /\ curr = 0 /\ cmd = <<>> /\ m_index = 0
      /\ cmd_buffer = <<>> /\ last_key = FALSE /\ screen = Blank /\ noise = FALSE
      /\ file = Missing /\ intact = TRUE
  BY Zenon DEF Init
<1>2. cmd \in Text /\ cmd_buffer \in Text /\ Len(cmd) = 0 BY <1>1, EmptyText, Zenon
<1>3. history \in Seq(Entry) /\ Len(history) = 0 BY <1>1, EmptySeq, Zenon
<1>4. 0 \in 0..0 OBVIOUS
<1>5. m_index \in 0..Len(cmd) /\ curr \in 0..Len(history) BY <1>1, <1>2, <1>3, <1>4, Zenon
<1>6. RowOK(screen, cmd, m_index) /\ Shows(screen, cmd, m_index) BY <1>1, EmptyShown, Zenon
<1>7. EditInv BY <1>1, <1>2, <1>5, <1>6, Zenon DEF EditInv
<1>8. DiskInv BY <1>1 DEF DiskInv
<1> QED BY <1>3, <1>5, <1>7, <1>8 DEF LineInv, ListInv

LEMMA SpecLineInv == Spec => []LineInv
  BY LineInvInit, LineInvStep, PTL DEF Spec

----------------------------------------------------------------------------
\* Theorems.

\* Types: m_index is a position of cmd and curr an iterator of history, whatever
\* keys, hints and files readLine and readHistory meet.
THEOREM Types == Spec => []TypeOK
<1>1. ASSUME LineInv PROVE TypeOK
  <2>1. /\ cmd \in Text /\ m_index \in 0..Len(cmd) /\ cmd_buffer \in Text
        /\ noise \in BOOLEAN /\ RowOK(screen, cmd, m_index)
    BY <1>1, Zenon DEF LineInv, EditInv
  <2>2. Len(cmd) \in Nat /\ Len(cmd) <= Width - 1 /\ cmd \in Lines /\ cmd_buffer \in Lines
    BY <2>1, LenProperties DEF Text, Lines
  <2>3. screen \in Screen /\ screen.col <= m_index BY <2>1 DEF RowOK
  <2> DEFINE x == screen.col
  <2>4. x \in Nat /\ x <= m_index BY <2>3 DEF Screen
  <2> HIDE DEF x
  <2>5. x \in 0..Width BY <2>1, <2>2, <2>4, Sizes
  <2>6. screen \in [row : [1..Width -> Chars], col : 0..Width] BY <2>3, <2>5 DEF Screen, x
  <2>7. history \in Seq(Entry) /\ curr \in 0..Len(history) /\ Entry \subseteq Lines
    BY <1>1 DEF LineInv, ListInv, Entry, Text
  <2>8. history \in Seq(Lines) BY <2>7, SeqMonotonic
  <2>9. file \in Seq(Seq(Chars \union {"\n"})) \union {Missing}
    <3>1. FileLine \subseteq Seq(Chars \union {"\n"}) BY DEF FileLine, FileChars
    <3>2. file \in Seq(FileLine) => file \in Seq(Seq(Chars \union {"\n"})) BY <3>1, SeqMonotonic
    <3>3. file \in Seq(FileLine) \union {Missing} BY <1>1 DEF LineInv, DiskInv
    <3> QED BY <3>2, <3>3
  <2>10. /\ session \in {"edit", "down", "crashed"} /\ last_key \in BOOLEAN /\ intact \in BOOLEAN
    BY <1>1 DEF LineInv, DiskInv
  <2> QED BY <2>1, <2>2, <2>6, <2>7, <2>8, <2>9, <2>10, Zenon DEF TypeOK
<1> QED BY <1>1, SpecLineInv, PTL

\* clearLine, writeLine and the cursor movements keep the terminal true: for
\* any sequence of keys it shows cmd, with the cursor at m_index, as long as
\* the line fits in a row of the terminal (the row of the model is that wide).
THEOREM TerminalIsTrue == Spec => []ScreenShowsLine
<1>1. ASSUME LineInv PROVE ScreenShowsLine
  BY <1>1, Zenon DEF LineInv, EditInv, ScreenShowsLine, Shows
<1> QED BY <1>1, SpecLineInv, PTL

----------------------------------------------------------------------------
\* While every save completed, the editor has an entry to look at and the
\* history file is not an empty one.
SaveInv ==
  /\ intact => (session = "edit" => history # <<>>) /\ file # <<>>
  /\ CrashNeedsTornSave

LEMMA NotEmptyFile == Missing # <<>>
<1>1. Len(Missing) = 1 /\ Len(<<>>) = 0 BY DEF Missing
<1> QED BY <1>1

LEMMA StartHasEntry ==
  ASSUME LineInv, SaveInv, Start, intact
  PROVE  history' # <<>>
<1>1. history' = readHistory(file) /\ file # <<>> BY DEF Start, SaveInv
<1>2. CASE file = Missing
  <2>1. readHistory(file) = <<Help>> BY <1>2, Zenon DEF readHistory
  <2>2. Len(<<Help>>) = 1 /\ Len(<<>>) = 0 OBVIOUS
  <2> QED BY <1>1, <2>1, <2>2
<1>3. CASE file # Missing
  <2>1. file \in Seq(FileLine) BY <1>3 DEF LineInv, DiskInv
  <2> QED BY <1>1, <1>3, <2>1, ReadTyped
<1> QED BY <1>2, <1>3

LEMMA SaveHasLine ==
  ASSUME ListInv, history # <<>>
  PROVE  FileOf(history) # <<>>
<1>1. history \in Seq(Entry) BY DEF ListInv
<1>2. PICK n \in 0..Len(history) :
        /\ n = (IF kKept <= Len(history) THEN kKept ELSE Len(history))
        /\ FileOf(history) \in Seq(FileLine) /\ Len(FileOf(history)) = n
  BY <1>1, FileOfIs
<1>3. Len(history) # 0 BY <1>1, EmptySeq
<1>4. n # 0 BY <1>2, <1>3, SizesAssumption
<1> QED BY <1>2, <1>4, EmptySeq

LEMMA SaveInvStep == ASSUME LineInv, SaveInv, [Next]_vars PROVE SaveInv'
<1>0. ListInv BY DEF LineInv
<1>1. ASSUME UNCHANGED <<session, file, intact>>,
             session = "edit" /\ history # <<>> => history' # <<>>
      PROVE  SaveInv'
  BY <1>1 DEF SaveInv, CrashNeedsTornSave
<1>2. CASE Start
  <2>1. session' = "edit" /\ file' = file /\ intact' = intact BY <1>2 DEF Start
  <2>2. intact => history' # <<>> BY <1>2, StartHasEntry
  <2> QED BY <2>1, <2>2 DEF SaveInv, CrashNeedsTornSave
<1>3. CASE Quit
  <2>1. session = "edit" /\ session' = "down" BY <1>3 DEF Quit
  <2>2. intact => FileOf(history) # <<>> BY <1>0, <2>1, SaveHasLine DEF SaveInv
  <2>3. intact' => file' # <<>>
    <3>1. CASE file' = FileOf(history) /\ intact' = (intact /\ Short(FileOf(history)))
      BY <2>2, <3>1
    <3>2. CASE intact /\ file' \in Torn(FileOf(history)) /\ intact' = FALSE BY <3>2
    <3>3. CASE UNCHANGED <<file, intact>> BY <3>3 DEF SaveInv
    <3> QED BY <1>3, <3>1, <3>2, <3>3, Zenon DEF Quit
  <2> QED BY <2>1, <2>3 DEF SaveInv, CrashNeedsTornSave
<1>4. CASE Kill
  <2>1. session' = "down" /\ file' = file /\ intact' = intact BY <1>4 DEF Kill
  <2> QED BY <2>1 DEF SaveInv, CrashNeedsTornSave
<1>5. CASE EnterNoHistory
  <2>1. session = "edit" /\ history = <<>> /\ session' = "crashed" /\ file' = file /\ intact' = intact
    BY <1>5 DEF EnterNoHistory
  <2>2. ~intact BY <2>1 DEF SaveInv
  <2> QED BY <2>1, <2>2 DEF SaveInv, CrashNeedsTornSave
<1>6. CASE EnterCommand
  <2>1. Key(FALSE) BY <1>6 DEF EnterCommand
  <2>2. /\ history # <<>> /\ history \in Seq(Entry)
        /\ history' = history \/ history' = Append(history, Trim(cmd))
    BY <1>0, <1>6 DEF EnterCommand, ListInv
  <2>3. Append(history, Trim(cmd)) # <<>>
    <3>1. cmd \in Seq(Chars) BY DEF LineInv, EditInv, Text, Lines
    <3>2. Trim(cmd) \in Seq(Chars) BY <3>1, TrimTrimmed
    <3>3. history \in Seq(Entry \union {Trim(cmd)}) BY <2>2, SeqMonotonic
    <3> QED BY <3>3, AppendProperties
  <2> QED BY <1>1, <2>1, <2>2, <2>3, Zenon DEF Key
<1>7. CASE \E tab \in BOOLEAN : Key(tab) /\ history' = history
  BY <1>1, <1>7 DEF Key
<1>8. CASE UNCHANGED vars BY <1>1, <1>8 DEF vars
<1>9. Next => \/ Start \/ Quit \/ Kill \/ EnterCommand \/ EnterNoHistory
              \/ \E tab \in BOOLEAN : Key(tab) /\ history' = history
  BY DEF Next, readLine, Insert, Backspace, EnterBlank, Tab, Up, Down, LeftArrow, RightArrow,
         OtherEscape, OtherKey
<1> QED BY <1>2, <1>3, <1>4, <1>5, <1>6, <1>7, <1>8, <1>9, Zenon

LEMMA SaveInvInit == ASSUME Init PROVE SaveInv
  BY NotEmptyFile DEF Init, SaveInv, CrashNeedsTornSave

\* readLine reads below an empty history only after a save that was cut short:
\* readHistory puts an entry into every history it starts, and a complete save
\* of an entry leaves one to read.
THEOREM CrashOnlyAfterTornSave == Spec => []CrashNeedsTornSave
<1>1. SaveInv => CrashNeedsTornSave BY DEF SaveInv
<1> QED BY <1>1, SpecLineInv, SaveInvInit, SaveInvStep, PTL DEF Spec

----------------------------------------------------------------------------
\* What a key may do.

LEMMA LongerByOne ==
  ASSUME NEW s \in Seq(Chars), NEW t \in Seq(Chars), NEW c \in Chars, IsPrefix(s, t)
  PROVE  IsPrefix(s, Append(t, c))
<1> DEFINE n == Len(s)
           m == Len(t)
           a == Append(t, c)
<1>1. n \in Nat /\ m \in Nat BY LenProperties
<1>2. n <= m /\ \A k \in 1..n : s[k] = t[k] BY PrefixIs
<1>3. a \in Seq(Chars) /\ Len(a) = m + 1 /\ \A k \in 1..m : a[k] = t[k]
  BY AppendProperties
<1> HIDE DEF a, n, m
<1>4. n <= Len(a) /\ \A k \in 1..n : k \in 1..m BY <1>1, <1>2, <1>3
<1>5. \A k \in 1..n : s[k] = a[k] BY <1>2, <1>3, <1>4, Zenon
<1>6. n <= Len(a) /\ (\A k \in 1..n : s[k] = a[k]) => IsPrefix(s, a) BY <1>3, PrefixIs DEF n
<1> QED BY <1>4, <1>5, <1>6 DEF a

LEMMA TabExtends ==
  ASSUME LineInv, Tab
  PROVE  /\ IsPrefix(cmd, cmd')
         /\ Cardinality(Matches) > 1 =>
              /\ \A h \in Matches : IsPrefix(cmd', Hints[h])
              /\ last_key /\ Len(cmd') < LongHint =>
                   \A c \in Chars : \E h \in Matches : ~IsPrefix(Append(cmd', c), Hints[h])
<1>1. cmd \in Text /\ cmd \in Seq(Chars) BY DEF LineInv, EditInv, Text, Lines
<1>2. CASE Cardinality(Matches) > 1 /\ cmd' = Completed
  <2>1. Matches # {} BY <1>2, MatchesFinite
  <2>2. /\ IsPrefix(cmd, Completed) /\ \A h \in Matches : IsPrefix(Completed, Hints[h])
        /\ Len(Completed) < LongHint =>
             \A c \in Chars : \E h \in Matches : ~IsPrefix(Append(Completed, c), Hints[h])
    BY <1>1, <2>1, CompletedIs
  <2> QED BY <1>2, <2>2, Zenon
<1>3. CASE Cardinality(Matches) = 1 /\ cmd' = Append(Only, " ")
  <2>1. Matches # {} BY <1>3, MatchesFinite
  <2>2. IsPrefix(cmd, Only) /\ Only \in Seq(Chars) BY <1>1, <2>1, OnlyMatch DEF Lines
  <2>3. IsPrefix(cmd, Append(Only, " ")) BY <1>1, <2>2, LongerByOne, KeysAssumption
  <2>4. ~(Cardinality(Matches) > 1)
    <3>1. ~(1 > 1) OBVIOUS
    <3> QED BY <1>3, <3>1, Zenon
  <2> QED BY <1>3, <2>3, <2>4, Zenon
<1>4. CASE cmd' = cmd /\ ~(Cardinality(Matches) > 1 /\ last_key)
  <2>1. IsPrefix(cmd, cmd) BY <1>1, PrefixIs
  <2>2. \A h \in Matches : IsPrefix(cmd, Hints[h]) BY MatchesFinite
  <2> QED BY <1>4, <2>1, <2>2, Zenon
<1>5. Matches = {} => ~(Cardinality(Matches) > 1)
  <2>1. Matches = {} => ~(Cardinality(Matches) > 1) BY MatchesFinite
  <2> QED BY <2>1
<1> QED BY <1>2, <1>3, <1>4, <1>5, Zenon DEF Tab, Redraw, Only

\* A TAB only adds to the line; every match has what the second TAB adds, and
\* nothing more is common to them.
THEOREM CompletionIsCommon == Spec => CompletionKeepsMatches
<1>1. LineInv /\ [Next]_vars =>
        [Tab => /\ IsPrefix(cmd, cmd')
                /\ Cardinality(Matches) > 1 =>
                     /\ \A h \in Matches : IsPrefix(cmd', Hints[h])
                     /\ last_key /\ Len(cmd') < LongHint =>
                          \A c \in Chars : \E h \in Matches : ~IsPrefix(Append(cmd', c), Hints[h])]_vars
  BY TabExtends
<1> QED BY <1>1, SpecLineInv, PTL DEF Spec, CompletionKeepsMatches

----------------------------------------------------------------------------
\* What one session leaves to the next.

LEMMA ReverseIs ==
  ASSUME NEW S, NEW s \in Seq(S)
  PROVE  /\ Reverse(s) \in Seq(S) /\ Len(Reverse(s)) = Len(s)
         /\ \A k \in 1..Len(s) : Reverse(s)[k] = s[Len(s) - k + 1]
<1> DEFINE m == Len(s)
           e(k) == s[m - k + 1]
<1>1. m \in Nat /\ \A k \in 1..m : s[k] \in S BY LenProperties
<1>2. Reverse(s) = [k \in 1..m |-> e(k)] BY Zenon DEF Reverse
<1>3. \A k \in 1..m : m - k + 1 \in 1..m BY <1>1
<1>4. \A k \in 1..m : e(k) \in S BY <1>1, <1>3
<1> HIDE DEF m
<1>5. Reverse(s) \in Seq(S)
  <2> HIDE DEF e
  <2>1. [k \in 1..m |-> e(k)] \in Seq(S) BY <1>1, <1>4, IsASeq
  <2> QED BY <1>2, <2>1
<1>6. Len(Reverse(s)) = m /\ \A k \in 1..m : Reverse(s)[k] = e(k)
  <2> HIDE DEF e
  <2> QED BY <1>1, <1>2
<1> QED BY <1>5, <1>6 DEF m

LEMMA SuffixIs ==
  ASSUME NEW S, NEW s \in Seq(S), NEW t \in Seq(S), Len(s) <= Len(t),
         \A k \in 1..Len(s) : s[k] = t[Len(t) - Len(s) + k]
  PROVE  IsSuffix(s, t)
<1> DEFINE n == Len(s)
           m == Len(t)
           r == Reverse(s)
           q == Reverse(t)
<1>1. /\ r \in Seq(S) /\ Len(r) = n /\ \A k \in 1..n : r[k] = s[n - k + 1]
      /\ q \in Seq(S) /\ Len(q) = m /\ \A k \in 1..m : q[k] = t[m - k + 1]
  BY ReverseIs
<1>2. n \in Nat /\ m \in Nat /\ n <= m BY LenProperties
<1>3. \A k \in 1..n : s[k] = t[m - n + k] OBVIOUS
<1> HIDE DEF n, m, r, q
<1>4. \A k \in 1..n : n - k + 1 \in 1..n /\ k \in 1..m /\ m - n + (n - k + 1) = m - k + 1
  BY <1>2
<1>5. \A k \in 1..n : r[k] = q[k]
  <2> SUFFICES ASSUME NEW k \in 1..n PROVE r[k] = q[k] OBVIOUS
  <2>1. r[k] = s[n - k + 1] /\ q[k] = t[m - k + 1] BY <1>1, <1>4
  <2>2. s[n - k + 1] = t[m - n + (n - k + 1)] BY <1>3, <1>4
  <2> QED BY <1>4, <2>1, <2>2
<1>6. IsPrefix(r, q)
  <2>1. Len(r) <= Len(q) /\ \A k \in 1..Len(r) : r[k] = q[k] BY <1>1, <1>2, <1>5
  <2> QED BY <1>1, <2>1, PrefixIs
<1> QED BY <1>6, Zenon DEF IsSuffix, r, q

\* readHistory of lines that fgets reads whole: the last lines first, each
\* without its end.
LEMMA ReadShort ==
  ASSUME NEW f \in Seq(FileLine), Short(f)
  PROVE  LET m == Len(f)
             b == IF kKept <= m THEN kKept ELSE m
         IN  /\ readHistory(f) \in Seq(Entry) /\ Len(readHistory(f)) = b
             /\ \A k \in 1..b : readHistory(f)[k] = RTrim(f[m - k + 1])
<1> DEFINE m == Len(f)
           b == IF kKept <= m THEN kKept ELSE m
           c == Min({kKept, m})
           e(k) == Pieces(f[k])
           ps == [k \in DOMAIN f |-> Pieces(f[k])]
           tmp == FlattenSeq(ps)
           r == Reverse(tmp)
<1>1. m \in Nat /\ DOMAIN f = 1..m /\ \A k \in 1..m : f[k] \in FileLine BY LenProperties
<1>2. f # Missing BY NotMissing
<1>3. \A k \in 1..m : Len(f[k]) < kBuf BY <1>1 DEF Short
<1>4. \A k \in 1..m : e(k) \in Seq(Entry) /\ Len(e(k)) = 1 /\ e(k)[1] = RTrim(f[k])
  BY <1>1, <1>3, PiecesOfLine, PiecesOfShort
<1>5. ps = [k \in 1..m |-> e(k)] BY <1>1
<1>6. ps \in Seq(Seq(Entry)) /\ Len(ps) = m /\ \A k \in 1..m : ps[k] = e(k)
  <2> HIDE DEF ps, e, m
  <2>1. [k \in 1..m |-> e(k)] \in Seq(Seq(Entry)) BY <1>1, <1>4, IsASeq
  <2> QED BY <1>1, <1>5, <2>1
<1>7. tmp \in Seq(Entry) /\ Len(tmp) = m /\ \A k \in 1..m : tmp[k] = RTrim(f[k])
  <2> HIDE DEF ps, e, m
  <2>1. \A k \in 1..Len(ps) : Len(ps[k]) = 1 BY <1>4, <1>6, Zenon
  <2>2. /\ tmp \in Seq(Entry) /\ Len(tmp) = Len(ps)
        /\ \A k \in 1..Len(ps) : tmp[k] = ps[k][1]
    BY <1>6, <2>1, FlattenSingles
  <2> QED BY <1>4, <1>6, <2>2, Zenon
<1>8. readHistory(f) = SubSeq(r, 1, c)
  <2>1. readHistory(f) = SubSeq(r, 1, Min({kKept, Len(tmp)})) BY <1>2, Zenon DEF readHistory
  <2> QED BY <1>7, <2>1
<1>9. c = b
  <2>1. kKept \in Int /\ m \in Int BY <1>1, SizesAssumption
  <2> QED BY <2>1, OfTwo, Zenon
<1> HIDE DEF tmp
<1>10. r \in Seq(Entry) /\ Len(r) = m /\ \A k \in 1..m : r[k] = tmp[m - k + 1]
  <2>1. /\ r \in Seq(Entry) /\ Len(r) = Len(tmp)
        /\ \A k \in 1..Len(tmp) : r[k] = tmp[Len(tmp) - k + 1]
    BY <1>7, ReverseIs
  <2> QED BY <1>7, <2>1, Zenon
<1> HIDE DEF r, c, e, ps
<1>11. b \in 0..m BY <1>1, SizesAssumption
<1> HIDE DEF m, b
<1>12. /\ SubSeq(r, 1, b) \in Seq(Entry) /\ Len(SubSeq(r, 1, b)) = b
       /\ \A k \in 1..b : SubSeq(r, 1, b)[k] = r[k]
  BY <1>10, <1>11, PrefixOfSeq
<1>13. \A k \in 1..b : k \in 1..m /\ m - k + 1 \in 1..m BY <1>1, <1>11
<1>14. \A k \in 1..b : SubSeq(r, 1, b)[k] = RTrim(f[m - k + 1]) BY <1>7, <1>10, <1>12, <1>13, Zenon
<1> QED BY <1>8, <1>9, <1>12, <1>14 DEF m, b

\* A complete save gives the next session the newest entries, in order.
LEMMA WholeSave ==
  ASSUME NEW h \in Seq(Entry), Short(FileOf(h))
  PROVE  readHistory(FileOf(h)) = SubSeq(h, Max({1, Len(h) - kKept + 1}), Len(h))
<1> DEFINE L == Len(h)
           F == FileOf(h)
           R == readHistory(F)
           a == Max({1, L - kKept + 1})
<1>1. PICK n \in 0..L :
        /\ n = (IF kKept <= L THEN kKept ELSE L)
        /\ F \in Seq(FileLine) /\ Len(F) = n
        /\ \A k \in 1..n : /\ L + 1 - k \in 1..L /\ h[L + 1 - k] \in Entry
                           /\ F[k] = Append(h[L + 1 - k], "\n")
  BY FileOfIs
<1>2. L \in Nat /\ kKept \in Nat \ {0} BY LenProperties, SizesAssumption
<1> HIDE DEF F
<1>3. (IF kKept <= n THEN kKept ELSE n) = n
  <2> HIDE DEF L
  <2> QED BY <1>1, <1>2
<1>4. R \in Seq(Entry) /\ Len(R) = n /\ \A k \in 1..n : R[k] = RTrim(F[n - k + 1])
  <2>1. /\ R \in Seq(Entry) /\ Len(R) = (IF kKept <= n THEN kKept ELSE n)
        /\ \A k \in 1..(IF kKept <= n THEN kKept ELSE n) : R[k] = RTrim(F[n - k + 1])
    <3>1. Short(F) BY DEF F
    <3>2. LET m == Len(F)
              b == IF kKept <= m THEN kKept ELSE m
          IN  R \in Seq(Entry) /\ Len(R) = b /\ \A k \in 1..b : R[k] = RTrim(F[m - k + 1])
      BY <1>1, <3>1, ReadShort
    <3> QED BY <1>1, <3>2, Zenon
  <2> QED BY <1>3, <2>1, Zenon
<1>5. a = (L - n) + 1
  <2>1. 1 \in Int /\ L - kKept + 1 \in Int BY <1>2
  <2>2. a = IF 1 >= L - kKept + 1 THEN 1 ELSE L - kKept + 1 BY <2>1, OfTwo, Zenon
  <2> HIDE DEF a, L
  <2> QED BY <1>1, <1>2, <2>2
<1> HIDE DEF R, a
<1>6. L - n \in 0..L /\ L - (L - n) = n BY <1>2
<1> DEFINE T == SubSeq(h, (L - n) + 1, L)
<1>7. T \in Seq(Entry) /\ Len(T) = n /\ \A k \in 1..n : T[k] = h[(L - n) + k]
  <2>1. /\ T \in Seq(Entry) /\ Len(T) = L - (L - n)
        /\ \A k \in 1..(L - (L - n)) : T[k] = h[(L - n) + k]
    BY <1>6, SuffixOfSeq
  <2> QED BY <1>6, <2>1, Zenon
<1> HIDE DEF T
<1>8. ASSUME NEW k \in 1..n PROVE R[k] = T[k]
  <2> HIDE DEF L
  <2>1. n - k + 1 \in 1..n /\ L + 1 - (n - k + 1) = (L - n) + k BY <1>1, <1>2
  <2> DEFINE x == h[(L - n) + k]
  <2>2. x \in Entry /\ F[n - k + 1] = Append(x, "\n")
    <3>1. h[L + 1 - (n - k + 1)] \in Entry /\ F[n - k + 1] = Append(h[L + 1 - (n - k + 1)], "\n")
      BY <1>1, <2>1
    <3> QED BY <2>1, <3>1
  <2>3. T[k] = x BY <1>7
  <2> HIDE DEF x
  <2>4. RTrim(Append(x, "\n")) = x BY <2>2, LineOfEntry
  <2>5. R[k] = RTrim(F[n - k + 1]) BY <1>4
  <2> QED BY <2>2, <2>3, <2>4, <2>5, Zenon
<1>9. R = T BY <1>4, <1>7, <1>8, SeqEqual
<1> QED BY <1>5, <1>9 DEF R, T, F, a

\* Of a save cut short, all but the first entry read are the newest ones.
LEMMA TornSave ==
  ASSUME NEW h \in Seq(Entry), Short(FileOf(h)), NEW f \in Torn(FileOf(h)), f # <<>>
  PROVE  IsSuffix(Tail(readHistory(f)), h)
<1> DEFINE L == Len(h)
           F == FileOf(h)
           N == Len(F)
           m == Len(f)
           R == readHistory(f)
<1>1. PICK n \in 0..L :
        /\ n = (IF kKept <= L THEN kKept ELSE L)
        /\ F \in Seq(FileLine) /\ Len(F) = n
        /\ \A k \in 1..n : /\ L + 1 - k \in 1..L /\ h[L + 1 - k] \in Entry
                           /\ F[k] = Append(h[L + 1 - k], "\n")
  BY FileOfIs
<1>2. L \in Nat /\ kKept \in Nat \ {0} /\ n <= kKept
  <2>1. L \in Nat /\ kKept \in Nat \ {0} BY LenProperties, SizesAssumption
  <2> HIDE DEF L
  <2> QED BY <1>1, <2>1
<1>3. f \in Seq(FileLine) BY TornIs
<1>4. m \in Nat \ {0} BY <1>3, EmptySeq
<1>5. \A k \in 1..n : Len(F[k]) < kBuf
  <2>1. DOMAIN F = 1..n BY <1>1, LenProperties
  <2> QED BY <2>1 DEF Short
<1>6. PICK k \in 0..(N - 1) :
        \/ f = SubSeq(F, 1, k)
        \/ \E c \in FileLine : f = Append(SubSeq(F, 1, k), c) /\ Len(c) < Len(F[k + 1])
  BY TornIs
<1>7. k \in 0..(n - 1) /\ k \in 0..Len(F) /\ k + 1 \in 1..n
  <2>1. k \in 0..(n - 1) BY <1>1, <1>6
  <2> QED BY <2>1, <1>1, <1>2
<1> HIDE DEF F, N
<1> DEFINE P == SubSeq(F, 1, k)
<1>8. P \in Seq(FileLine) /\ Len(P) = k /\ \A i \in 1..k : P[i] = F[i]
  BY <1>1, <1>7, PrefixOfSeq
<1> HIDE DEF P, m, L
<1>9. m \in 1..n /\ (\A i \in 1..(m - 1) : f[i] = F[i]) /\ Short(f)
  <2>0. \A i \in 1..k : Len(F[i]) < kBuf
    <3>1. \A i \in 1..k : i \in 1..n BY <1>7
    <3> QED BY <1>5, <3>1
  <2>1. CASE f = P
    <3>1. m = k /\ \A i \in 1..k : f[i] = F[i] BY <1>8, <2>1 DEF m
    <3>2. m \in 1..n /\ \A i \in 1..(m - 1) : i \in 1..k BY <1>2, <1>4, <1>7, <3>1
    <3>3. DOMAIN f = 1..k BY <1>3, <3>1, LenProperties DEF m
    <3>4. Short(f)
      <4>1. \A i \in 1..k : Len(f[i]) < kBuf BY <2>0, <3>1
      <4> QED BY <3>3, <4>1 DEF Short
    <3> QED BY <3>1, <3>2, <3>4, Zenon
  <2>2. CASE \E c \in FileLine : f = Append(P, c) /\ Len(c) < Len(F[k + 1])
    <3>1. PICK c \in FileLine : f = Append(P, c) /\ Len(c) < Len(F[k + 1]) BY <2>2
    <3>2. Len(f) = Len(P) + 1 /\ f[Len(P) + 1] = c /\ \A i \in 1..Len(P) : f[i] = P[i]
      BY <1>8, <3>1, AppendProperties
    <3>3. m = k + 1 /\ f[k + 1] = c /\ \A i \in 1..k : f[i] = F[i]
      BY <1>8, <3>2, Zenon DEF m
    <3>4. m \in 1..n /\ \A i \in 1..(m - 1) : i \in 1..k BY <1>7, <3>3
    <3>5. DOMAIN f = 1..(k + 1) BY <1>3, <3>3, LenProperties DEF m
    <3>6. Short(f)
      <4>1. Len(c) \in Nat /\ Len(F[k + 1]) \in Nat /\ Len(F[k + 1]) < kBuf /\ kBuf \in Nat
        <5>1. F[k + 1] \in FileLine BY <1>1, <1>7, ElementOfSeq
        <5> QED BY <1>5, <1>7, <5>1, LenProperties, SizesAssumption DEF FileLine
      <4> DEFINE u == Len(c)
                 v == Len(F[k + 1])
      <4>2. u \in Nat /\ v \in Nat /\ v < kBuf /\ u < v /\ kBuf \in Nat BY <3>1, <4>1
      <4> HIDE DEF u, v
      <4>3. u < kBuf BY <4>2
      <4>4. \A i \in 1..(k + 1) : i \in 1..k \/ i = k + 1 BY <1>7
      <4>5. \A i \in 1..(k + 1) : Len(f[i]) < kBuf BY <2>0, <3>3, <4>3, <4>4, Zenon DEF u
      <4> QED BY <3>5, <4>5 DEF Short
    <3> QED BY <3>3, <3>4, <3>6, Zenon
  <2> QED BY <1>6, <2>1, <2>2, Zenon DEF P
<1>10. (IF kKept <= m THEN kKept ELSE m) = m BY <1>2, <1>9
<1>11. R \in Seq(Entry) /\ Len(R) = m /\ \A i \in 1..m : R[i] = RTrim(f[m - i + 1])
  <2>1. LET q == Len(f)
            b == IF kKept <= q THEN kKept ELSE q
        IN  R \in Seq(Entry) /\ Len(R) = b /\ \A i \in 1..b : R[i] = RTrim(f[q - i + 1])
    BY <1>3, <1>9, ReadShort
  <2>2. /\ R \in Seq(Entry) /\ Len(R) = (IF kKept <= m THEN kKept ELSE m)
        /\ \A i \in 1..(IF kKept <= m THEN kKept ELSE m) : R[i] = RTrim(f[m - i + 1])
    BY <2>1, Zenon DEF m
  <2> QED BY <1>10, <2>2, Zenon
<1> HIDE DEF R
<1> DEFINE T == Tail(R)
<1>12. T \in Seq(Entry) /\ Len(T) = m - 1 /\ \A i \in 1..(m - 1) : T[i] = R[i + 1]
  <2>1. R # <<>> BY <1>4, <1>11, EmptySeq
  <2>2. T \in Seq(Entry) /\ Len(T) = Len(R) - 1 /\ \A i \in 1..Len(T) : T[i] = R[i + 1]
    BY <1>11, <2>1, HeadTailProperties
  <2> QED BY <1>11, <2>2, Zenon
<1> HIDE DEF T
<1>13. ASSUME NEW i \in 1..(m - 1) PROVE T[i] = h[L - (m - 1) + i]
  <2>1. /\ i + 1 \in 1..m /\ m - (i + 1) + 1 = m - i /\ m - i \in 1..(m - 1) /\ m - i \in 1..n
        /\ L + 1 - (m - i) = L - (m - 1) + i
    BY <1>2, <1>9
  <2> DEFINE x == h[L - (m - 1) + i]
  <2>2. x \in Entry /\ F[m - i] = Append(x, "\n")
    <3>1. h[L + 1 - (m - i)] \in Entry /\ F[m - i] = Append(h[L + 1 - (m - i)], "\n")
      BY <1>1, <2>1
    <3> QED BY <2>1, <3>1
  <2> HIDE DEF x
  <2>3. RTrim(Append(x, "\n")) = x BY <2>2, LineOfEntry
  <2>4. T[i] = R[i + 1] BY <1>12
  <2>5. R[i + 1] = RTrim(f[m - (i + 1) + 1]) BY <1>11, <2>1
  <2>6. f[m - i] = F[m - i] BY <1>9, <2>1
  <2>7. T[i] = x BY <2>1, <2>2, <2>3, <2>4, <2>5, <2>6, Zenon
  <2> QED BY <2>7 DEF x
<1>14. IsSuffix(T, h)
  <2>1. m - 1 <= L BY <1>2, <1>9
  <2>2. Len(T) <= Len(h) BY <1>12, <2>1 DEF L
  <2>3. \A i \in 1..Len(T) : T[i] = h[Len(h) - Len(T) + i] BY <1>12, <1>13, Zenon DEF L
  <2> QED BY <1>12, <2>2, <2>3, SuffixIs
<1> QED BY <1>14 DEF T, R

\* The next session starts from the newest kKept entries, in order; a save cut
\* short costs the oldest of them and may shorten the first it kept.
THEOREM SavedHistorySurvives == Spec => []HistorySurvives
<1>1. ASSUME LineInv PROVE HistorySurvives
  <2>1. history \in Seq(Entry) BY <1>1 DEF LineInv, ListInv
  <2> QED BY <2>1, WholeSave, TornSave, Zenon DEF HistorySurvives
<1> QED BY <1>1, SpecLineInv, PTL
====
