---- MODULE GzipLoggerProofs ----
(***************************************************************************)
(* Theorems about GzipLogger: for every size of stream, reserve and line,  *)
(* any number of seconds, lines, crashes and faults.                       *)
(***************************************************************************)
EXTENDS GzipLogger, CommonLemmas

----------------------------------------------------------------------------
\* Runs of lines.

\* The units of the lines after a up to b.
Run(a, b) == [k \in 1..((b - a) * kLine) |-> a + 1 + ((k - 1) \div kLine)]

\* The turn a unit is in, and its place there.
LEMMA QuotientOf ==
  ASSUME NEW m \in Nat \ {0}, NEW d \in Nat, NEW k \in 1..(d * m)
  PROVE  (k - 1) \div m \in 0..(d - 1)
<1> DEFINE q == (k - 1) \div m
           r == (k - 1) % m
<1>1. d * m \in Nat BY SMT
<1>2. k - 1 \in Int /\ k - 1 >= 0 /\ k - 1 < d * m BY <1>1
<1>3. r \in 0..(m - 1) /\ q \in Int /\ k - 1 = m * q + r BY <1>2, DivMod
<1> HIDE DEF q, r
<1>4. q >= 0
  <2> SUFFICES ASSUME q <= -1 PROVE FALSE BY <1>3
  <2>1. m * q <= -m BY <1>3, SMT
  <2> QED BY <1>2, <1>3, <2>1
<1>5. q <= d - 1
  <2> SUFFICES ASSUME q >= d PROVE FALSE BY <1>3
  <2>1. m * q >= m * d BY <1>3, SMT
  <2>2. m * d = d * m BY SMT
  <2> QED BY <1>1, <1>2, <1>3, <2>1, <2>2
<1> QED BY <1>3, <1>4, <1>5 DEF q

LEMMA RunProperties ==
  ASSUME NEW a \in Nat, NEW b \in Nat, a <= b
  PROVE  /\ Run(a, b) \in Seq((a + 1)..b)
         /\ Len(Run(a, b)) = (b - a) * kLine /\ (b - a) * kLine \in Nat
         /\ DOMAIN Run(a, b) = 1..((b - a) * kLine)
         /\ \A k \in 1..((b - a) * kLine) : Run(a, b)[k] = a + 1 + ((k - 1) \div kLine)
<1> DEFINE d == b - a
           N == d * kLine
<1>1. d \in Nat /\ kLine \in Nat \ {0} /\ N \in Nat
  <2>1. d \in Nat /\ kLine \in Nat \ {0} BY GzipAssumption
  <2> QED BY <2>1, SMT
<1>2. \A k \in 1..N : (k - 1) \div kLine \in 0..(d - 1) BY <1>1, QuotientOf
<1>3. \A k \in 1..N : a + 1 + ((k - 1) \div kLine) \in (a + 1)..b BY <1>1, <1>2
<1>4. Run(a, b) = [k \in 1..N |-> a + 1 + ((k - 1) \div kLine)] BY DEF Run
<1> HIDE DEF N
<1>5. Run(a, b) \in [1..N -> (a + 1)..b] BY <1>3, <1>4, Zenon
<1>6. Run(a, b) \in Seq((a + 1)..b) /\ Len(Run(a, b)) = N BY <1>1, <1>5
<1> QED BY <1>1, <1>4, <1>5, <1>6 DEF N

LEMMA RunEmpty == ASSUME NEW a \in Nat PROVE Run(a, a) = <<>>
<1>1. /\ Run(a, a) \in Seq((a + 1)..a) /\ Len(Run(a, a)) = (a - a) * kLine
  BY RunProperties
<1>2. (a - a) * kLine = 0 BY GzipAssumption
<1> QED BY <1>1, <1>2, EmptySeq

LEMMA UnitsProperties ==
  ASSUME NEW b \in Nat
  PROVE  /\ Units(b) \in Seq({b}) /\ Len(Units(b)) = kLine
         /\ \A k \in 1..kLine : Units(b)[k] = b
<1>1. kLine \in Nat BY GzipAssumption
<1>2. Units(b) \in [1..kLine -> {b}] BY DEF Units
<1> QED BY <1>1, <1>2 DEF Units

\* One more line.
LEMMA RunExtend ==
  ASSUME NEW a \in Nat, NEW b \in Nat, a <= b
  PROVE  Run(a, b + 1) = Run(a, b) \o Units(b + 1)
<1> DEFINE d == b - a
           N == d * kLine
           s == Run(a, b)
           t == Units(b + 1)
           u == Run(a, b + 1)
<1>0. d \in Nat /\ kLine \in Nat \ {0} /\ a <= b + 1 BY GzipAssumption
<1>1. (b + 1 - a) * kLine = N + kLine
  <2>1. b + 1 - a = d + 1 OBVIOUS
  <2>2. (d + 1) * kLine = d * kLine + kLine BY <1>0, SMT
  <2> QED BY <2>1, <2>2
<1>2. /\ u \in Seq((a + 1)..(b + 1)) /\ Len(u) = N + kLine
      /\ \A k \in 1..(N + kLine) : u[k] = a + 1 + ((k - 1) \div kLine)
  BY <1>0, <1>1, RunProperties
<1>3. /\ s \in Seq((a + 1)..b) /\ Len(s) = N /\ N \in Nat
      /\ \A k \in 1..N : s[k] = a + 1 + ((k - 1) \div kLine)
  BY RunProperties
<1>4. t \in Seq({b + 1}) /\ Len(t) = kLine /\ \A k \in 1..kLine : t[k] = b + 1
  <2>1. b + 1 \in Nat OBVIOUS
  <2> QED BY <2>1, UnitsProperties
<1>5. \A r \in 0..(kLine - 1) : (N + r) \div kLine = d BY <1>0, QuotientIs
<1> HIDE DEF N, s, t, u
<1>6. u \in Seq(Int) /\ s \in Seq(Int) /\ t \in Seq(Int)
  <2>1. (a + 1)..(b + 1) \subseteq Int /\ (a + 1)..b \subseteq Int /\ {b + 1} \subseteq Int
    OBVIOUS
  <2> QED BY ONLY <1>2, <1>3, <1>4, <2>1, SeqMonotonic
<1>7. /\ s \o t \in Seq(Int) /\ Len(s \o t) = N + kLine
      /\ \A k \in 1..(N + kLine) : (s \o t)[k] = IF k <= N THEN s[k] ELSE t[k - N]
  <2>1. Len(s) = N /\ Len(t) = kLine BY <1>3, <1>4
  <2>2. /\ s \o t \in Seq(Int) /\ Len(s \o t) = Len(s) + Len(t)
        /\ \A k \in 1..(Len(s) + Len(t)) :
             (s \o t)[k] = IF k <= Len(s) THEN s[k] ELSE t[k - Len(s)]
    BY ONLY <1>6, ConcatProperties
  <2> QED BY ONLY <2>1, <2>2, Zenon
<1>8. ASSUME NEW k \in 1..(N + kLine) PROVE (s \o t)[k] = u[k]
  <2>1. CASE k <= N
    <3>1. k \in 1..N BY <1>0, <1>3, <2>1
    <3> QED BY <1>2, <1>3, <1>7, <2>1, <3>1
  <2>2. CASE ~(k <= N)
    <3>1. k - N \in 1..kLine /\ k - N - 1 \in 0..(kLine - 1) /\ N + (k - N - 1) = k - 1
      BY <1>0, <1>3, <2>2
    <3>2. (k - 1) \div kLine = d BY <1>5, <3>1
    <3>3. u[k] = a + 1 + d BY <1>2, <3>2
    <3>4. (s \o t)[k] = t[k - N] BY <1>7, <2>2
    <3>5. t[k - N] = b + 1 BY <1>4, <3>1
    <3> QED BY <1>0, <3>3, <3>4, <3>5
  <2> QED BY <2>1, <2>2
<1>9. s \o t = u BY <1>2, <1>6, <1>7, <1>8, SeqEqual
<1> QED BY <1>9 DEF s, t, u

\* A run is whole lines one after the other, and holds each of them.
LEMMA RunIsRun ==
  ASSUME NEW a \in Nat, NEW b \in Nat, a <= b
  PROVE  IsRun(Run(a, b)) /\ ToSet(Run(a, b)) = (a + 1)..b
<1> DEFINE d == b - a
           N == d * kLine
           s == Run(a, b)
<1>1. d \in Nat /\ kLine \in Nat \ {0} BY GzipAssumption
<1>2. /\ s \in Seq((a + 1)..b) /\ Len(s) = N /\ N \in Nat /\ DOMAIN s = 1..N
      /\ \A k \in 1..N : s[k] = a + 1 + ((k - 1) \div kLine)
  BY RunProperties
<1>3. N % kLine = 0
  <2>1. (0 + kLine * d) % kLine = 0 % kLine BY <1>1, ModPeriodic
  <2>2. 0 % kLine = 0 BY <1>1
  <2>3. 0 + kLine * d = N BY <1>1, SMT
  <2> QED BY <2>1, <2>2, <2>3
<1>4. 0 \div kLine = 0 BY <1>1
<1> HIDE DEF N, s
<1>5. ASSUME NEW k \in 1..N PROVE s[k] = s[1] + ((k - 1) \div kLine)
  <2>1. 1 \in 1..N BY <1>2
  <2>2. s[1] = a + 1 + ((1 - 1) \div kLine) BY <1>2, <2>1
  <2>3. s[1] = a + 1 BY <1>4, <2>2
  <2> QED BY <1>2, <2>3
<1>6. IsRun(s) BY <1>2, <1>3, <1>5 DEF IsRun
<1>7. ToSet(s) \subseteq (a + 1)..b BY <1>2 DEF ToSet
<1>8. ASSUME NEW x \in (a + 1)..b PROVE x \in ToSet(s)
  <2> DEFINE q == x - a - 1
             k == q * kLine + 1
  <2>1. q \in Nat /\ q + 1 <= d BY <1>1
  <2>2. k \in 1..N
    <3>1. q * kLine \in Nat BY <1>1, <2>1, SMT
    <3>2. (q + 1) * kLine <= d * kLine BY <1>1, <2>1, SMT
    <3>3. (q + 1) * kLine = q * kLine + kLine BY <1>1, <2>1, SMT
    <3>4. q * kLine + kLine <= N BY <3>2, <3>3 DEF N
    <3>5. \A x1 \in Nat : x1 + kLine <= N => x1 + 1 \in 1..N BY <1>1, <1>2
    <3> QED BY ONLY <3>1, <3>4, <3>5, Zenon
  <2>3. (k - 1) \div kLine = q
    <3>1. (q * kLine + 0) \div kLine = q
      <4>1. 0 \in 0..(kLine - 1) BY <1>1
      <4> QED BY <1>1, <2>1, <4>1, QuotientIs
    <3>2. q * kLine \in Nat BY <1>1, <2>1, SMT
    <3> HIDE DEF q
    <3>3. k - 1 = q * kLine + 0 BY <3>2
    <3> QED BY <3>1, <3>3
  <2>4. s[k] = a + 1 + q BY <1>2, <2>2, <2>3
  <2>5. s[k] = x BY <2>4
  <2>6. k \in DOMAIN s BY <1>2, <2>2
  <2> QED BY <2>5, <2>6, Zenon DEF ToSet
<1> QED BY <1>6, <1>7, <1>8 DEF s

----------------------------------------------------------------------------
\* Types.

FileRecord == [name : Names, data : Seq(0..MaxLines)]
Content == Seq(0..MaxLines) \union {NoFile}

TypeInv ==
  /\ m_stream \in BOOLEAN /\ leaked \in 0..MaxClears
  /\ held \in Seq(1..MaxLines) /\ m_data \in Seq(0..MaxLines) /\ m_size <= capacity
  /\ pc \in {"down", "idle", "each", "dump", "reset", "rename", "write"}
  /\ todo \in 0..PassLines /\ isTimeOut \in BOOLEAN
  /\ m_fileGenTime \in 0..MaxWall /\ m_serial_cnt \in Nat
  /\ wall \in 0..MaxWall /\ line \in 0..MaxLines
  /\ tmp \in [Names -> Content]
  /\ published \in Seq(FileRecord)
  /\ trouble \subseteq {"disk", "memory", "crash", "clash", "clear"}

\* A pass never takes more lines than there are, the serial counts files of
\* which each but the first waits for a line, and compressFinish has freed the
\* deflate state when compressReset makes another.
ControlInv ==
  /\ line + todo <= MaxLines
  /\ m_serial_cnt + todo <= MaxLines + (IF pc = "write" THEN 1 ELSE 0)
  /\ pc = "write" => todo > 0
  /\ pc \in {"down", "dump", "reset"} => ~m_stream

LEMMA ConstantFacts ==
  /\ kLine \in Nat \ {0} /\ kPending \in Nat /\ capacity \in Nat
  /\ m_compress_size \in Nat /\ kSafeThreshold \in Nat /\ kWindow \in Nat
  /\ PassLines \in Nat /\ MaxLines \in Nat /\ MaxWall \in Nat
  /\ MaxCrashes \in Nat /\ MaxClears \in Nat /\ Faults \subseteq {"disk", "memory"}
  BY GzipAssumption, BoundsAssumption DEF capacity

LEMMA MinOfTwo ==
  ASSUME NEW a \in Int, NEW b \in Int
  PROVE  /\ Min({a, b}) = IF a <= b THEN a ELSE b
         /\ Max({a, b}) = IF a <= b THEN b ELSE a
<1>1. /\ \E x \in {a, b} : \A y \in {a, b} : x <= y
      /\ \E x \in {a, b} : \A y \in {a, b} : x >= y
  OBVIOUS
<1>2. /\ Min({a, b}) \in {a, b} /\ \A y \in {a, b} : Min({a, b}) <= y
      /\ Max({a, b}) \in {a, b} /\ \A y \in {a, b} : Max({a, b}) >= y
  BY <1>1, Zenon DEF Min, Max
<1> QED BY <1>2

LEMMA NameType ==
  ASSUME TypeInv, ControlInv
  PROVE  name \in Names
<1>1. m_serial_cnt \in 0..MaxLines
  BY ConstantFacts DEF TypeInv, ControlInv
<1> QED BY <1>1 DEF name, Names, TypeInv

\* deflate: what goes out is in front, what is held back behind.
LEMMA UpdateProperties ==
  ASSUME TypeInv, NEW x \in 1..MaxLines, compressUpdate(x)
  PROVE  /\ m_stream' = m_stream /\ leaked' = leaked
         /\ held' \in Seq(1..MaxLines) /\ m_data' \in Seq(0..MaxLines) /\ m_size' <= capacity
         /\ \/ UNCHANGED gzipVars /\ ~(m_stream /\ capacity - m_size > 0)
            \/ /\ m_stream /\ capacity - m_size > 0
               /\ LET fed == held \o Units(x)
                      most == Min({Len(fed), capacity - m_size + kPending})
                      taken == SubSeq(fed, 1, most)
                  IN /\ Len(fed) = Len(held) + kLine /\ fed \in Seq(1..MaxLines)
                     /\ \E k \in 0..most :
                          /\ k >= most - kPending
                          /\ m_data' = m_data \o SubSeq(taken, 1, k)
                          /\ held' = SubSeq(taken, k + 1, most)
<1> DEFINE avail_out == capacity - m_size
           fed == held \o Units(x)
           most == Min({Len(fed), avail_out + kPending})
           taken == SubSeq(fed, 1, most)
<1>1. /\ held \in Seq(1..MaxLines) /\ m_data \in Seq(0..MaxLines)
      /\ m_size \in Nat /\ capacity \in Nat /\ m_size <= capacity /\ kPending \in Nat
  BY ConstantFacts, LenProperties DEF TypeInv, m_size
<1>2. /\ Units(x) \in Seq(1..MaxLines) /\ Len(Units(x)) = kLine
  <2>1. Units(x) \in Seq({x}) /\ Len(Units(x)) = kLine BY ConstantFacts, UnitsProperties
  <2>2. {x} \subseteq 1..MaxLines OBVIOUS
  <2> QED BY ONLY <2>1, <2>2, SeqMonotonic
<1>3. fed \in Seq(1..MaxLines) /\ Len(fed) = Len(held) + kLine /\ Len(held) \in Nat
  BY <1>1, <1>2, ConcatProperties, LenProperties
<1>4. CASE m_stream /\ avail_out > 0
  <2>0. Len(fed) \in Nat /\ avail_out \in Nat BY <1>1, <1>3, ConstantFacts
  <2>1. most \in 0..Len(fed) /\ most <= avail_out + kPending
    <3>1. most = IF Len(fed) <= avail_out + kPending THEN Len(fed) ELSE avail_out + kPending
      BY <1>1, <2>0, MinOfTwo
    <3> HIDE DEF fed, avail_out, most
    <3> QED BY <1>1, <2>0, <3>1
  <2>2. taken \in Seq(1..MaxLines) /\ Len(taken) = most
    BY <1>3, <2>1, PrefixOfSeq
  <2>3. PICK k \in Max({0, Len(taken) - kPending})..Min({avail_out, Len(taken)}) :
          /\ m_data' = m_data \o SubSeq(taken, 1, k)
          /\ held' = SubSeq(taken, k + 1, Len(taken))
          /\ UNCHANGED <<m_stream, leaked>>
    BY <1>4 DEF compressUpdate
  <2> HIDE DEF fed, avail_out, most, taken
  <2>4. k \in 0..most /\ k >= most - kPending /\ k <= avail_out
    <3>1. most \in Int /\ most - kPending \in Int /\ 0 \in Int /\ avail_out \in Int
      BY <1>1, <2>0, <2>1
    <3>2. /\ Max({0, most - kPending}) = IF 0 <= most - kPending THEN most - kPending ELSE 0
          /\ Min({avail_out, most}) = IF avail_out <= most THEN avail_out ELSE most
      BY ONLY <3>1, MinOfTwo
    <3>3. k \in Max({0, most - kPending})..Min({avail_out, most}) BY <2>2
    <3> QED BY <1>1, <3>1, <3>2, <3>3
  <2>5. /\ SubSeq(taken, 1, k) \in Seq(1..MaxLines) /\ Len(SubSeq(taken, 1, k)) = k
        /\ SubSeq(taken, k + 1, most) \in Seq(1..MaxLines)
    BY <2>2, <2>4, PrefixOfSeq, SuffixOfSeq
  <2>6. SubSeq(taken, 1, k) \in Seq(0..MaxLines)
    <3>1. 1..MaxLines \subseteq 0..MaxLines OBVIOUS
    <3> QED BY ONLY <2>5, <3>1, SeqMonotonic
  <2>7. /\ m_data \o SubSeq(taken, 1, k) \in Seq(0..MaxLines)
        /\ Len(m_data \o SubSeq(taken, 1, k)) = m_size + k
    BY <1>1, <2>5, <2>6, ConcatProperties DEF m_size
  <2>8. m_size' = m_size + k BY <2>3, <2>7 DEF m_size
  <2>9. m_size' <= capacity BY <1>1, <2>4, <2>8 DEF avail_out
  <2>10. \E i \in 0..most : /\ i >= most - kPending
                            /\ m_data' = m_data \o SubSeq(taken, 1, i)
                            /\ held' = SubSeq(taken, i + 1, most)
    BY <2>2, <2>3, <2>4
  <2>11. held' \in Seq(1..MaxLines) /\ m_data' \in Seq(0..MaxLines)
    BY <2>2, <2>3, <2>5, <2>7
  <2> QED BY <1>3, <1>4, <2>3, <2>9, <2>10, <2>11 DEF fed, avail_out, most, taken
<1>5. CASE ~(m_stream /\ avail_out > 0)
  <2>1. UNCHANGED gzipVars BY <1>5 DEF compressUpdate
  <2> QED BY <1>1, <1>5, <2>1 DEF gzipVars, m_size
<1> QED BY <1>4, <1>5

\* compressFinish, when a deflate state was there and there was room for the
\* rest, and otherwise.
LEMMA FinishProperties ==
  ASSUME TypeInv, compressFinish
  PROVE  /\ m_stream' = FALSE /\ held' = <<>> /\ leaked' = leaked
         /\ m_data' \in Seq(0..MaxLines) /\ m_size' <= capacity
         /\ \/ m_stream /\ Len(held) < capacity - m_size /\ m_data' = m_data \o held \o <<End>>
            \/ ~(m_stream /\ Len(held) < capacity - m_size) /\ m_data' = m_data
<1>1. /\ held \in Seq(1..MaxLines) /\ m_data \in Seq(0..MaxLines) /\ MaxLines \in Nat
      /\ m_size \in Nat /\ capacity \in Nat /\ m_size <= capacity /\ Len(held) \in Nat
  BY ConstantFacts, LenProperties DEF TypeInv, m_size
<1>2. CASE m_stream /\ Len(held) < capacity - m_size
  <2>1. m_data' = m_data \o held \o <<End>> BY <1>2 DEF compressFinish
  <2>2. held \in Seq(0..MaxLines)
    <3>1. 1..MaxLines \subseteq 0..MaxLines OBVIOUS
    <3> QED BY ONLY <1>1, <3>1, SeqMonotonic
  <2>3. <<End>> \in Seq(0..MaxLines) /\ Len(<<End>>) = 1 BY <1>1 DEF End
  <2>4. m_data \o held \in Seq(0..MaxLines) /\ Len(m_data \o held) = Len(m_data) + Len(held)
    BY <1>1, <2>2, ConcatProperties
  <2>5. /\ m_data \o held \o <<End>> \in Seq(0..MaxLines)
        /\ Len(m_data \o held \o <<End>>) = Len(m_data \o held) + Len(<<End>>)
    BY <2>3, <2>4, ConcatProperties
  <2>6. m_size' = m_size + Len(held) + 1
    <3>1. m_size' = Len(m_data') /\ m_size = Len(m_data) BY DEF m_size
    <3> QED BY <2>1, <2>3, <2>4, <2>5, <3>1
  <2>7. m_size' <= capacity BY <1>1, <1>2, <2>6
  <2> QED BY <1>2, <2>1, <2>5, <2>7 DEF compressFinish
<1>3. CASE ~(m_stream /\ Len(held) < capacity - m_size)
  BY <1>1, <1>3 DEF compressFinish, m_size
<1> QED BY <1>2, <1>3

\* What dumpCompressFile leaves in a file, whole or a unit short.
LEMMA DumpProperties ==
  ASSUME TypeInv, ControlInv, Dump
  PROVE  /\ tmp' \in [Names -> Content]
         /\ \A f \in Names : f # name => tmp'[f] = tmp[f]
         /\ \/ trouble' = trouble \union {"disk"}
            \/ /\ trouble' = trouble
               /\ tmp'[name] = dumped(IF tmp[name] = NoFile THEN <<>> ELSE tmp[name])
<1> DEFINE old == IF tmp[name] = NoFile THEN <<>> ELSE tmp[name]
           whole == dumped(old)
           short == SubSeq(m_data, 1, m_size - 1) \o SubSeq(old, m_size, Len(old))
<1>1. name \in Names BY NameType
<1>2. tmp \in [Names -> Content] /\ m_data \in Seq(0..MaxLines) /\ m_size \in Nat
  BY LenProperties DEF TypeInv, m_size
<1>3. old \in Seq(0..MaxLines)
  <2>1. tmp[name] \in Content BY <1>1, <1>2
  <2>2. <<>> \in Seq(0..MaxLines) OBVIOUS
  <2> QED BY <2>1, <2>2, Zenon DEF Content
<1>4. Len(old) \in Nat /\ \A k \in 1..Len(old) : old[k] \in 0..MaxLines
  BY <1>3, LenProperties
<1>5. whole \in Seq(0..MaxLines)
  <2>1. \A k \in (m_size + 1)..Len(old) : k \in 1..Len(old) BY <1>2, <1>4
  <2>2. m_size + 1 \in Int /\ Len(old) \in Int BY <1>2, <1>4
  <2>3. SubSeq(old, m_size + 1, Len(old)) \in Seq(0..MaxLines)
    BY <1>4, <2>1, <2>2, SubSeqProperties
  <2> QED BY <1>2, <2>3, ConcatProperties DEF dumped
<1>6. ASSUME m_size > 0 PROVE short \in Seq(0..MaxLines)
  <2>1. \A k \in m_size..Len(old) : k \in 1..Len(old) BY <1>2, <1>4, <1>6
  <2>2. m_size \in Int /\ Len(old) \in Int BY <1>2, <1>4
  <2>3. SubSeq(old, m_size, Len(old)) \in Seq(0..MaxLines)
    BY <1>4, <2>1, <2>2, SubSeqProperties
  <2>4. m_size - 1 \in 0..Len(m_data) BY <1>2, <1>6 DEF m_size
  <2>5. SubSeq(m_data, 1, m_size - 1) \in Seq(0..MaxLines) BY <1>2, <2>4, PrefixOfSeq
  <2> QED BY <2>3, <2>5, ConcatProperties
<1>7. \/ trouble' = trouble /\ tmp' = [tmp EXCEPT ![name] = whole]
      \/ trouble' = trouble \union {"disk"} /\ tmp' = tmp
      \/ /\ trouble' = trouble \union {"disk"} /\ m_size > 0
         /\ tmp' = [tmp EXCEPT ![name] = short]
  BY DEF Dump, Works
<1> HIDE DEF old, whole, short
<1>8. whole \in Content /\ (m_size > 0 => short \in Content)
  BY <1>5, <1>6 DEF Content
<1> QED BY <1>1, <1>2, <1>7, <1>8 DEF whole, old

\* rename: nothing to rename, a new file, or one in place of another.
LEMMA RenameProperties ==
  ASSUME TypeInv, ControlInv, Rename
  PROVE  /\ tmp' \in [Names -> Content]
         /\ \A f \in Names : tmp'[f] \in {tmp[f], NoFile}
         /\ name \in Names
         /\ published' \in Seq(FileRecord)
         /\ \/ tmp[name] = NoFile /\ tmp' = tmp /\ published' = published /\ trouble' = trouble
            \/ /\ tmp[name] # NoFile /\ tmp[name] \in Seq(0..MaxLines) /\ tmp'[name] = NoFile
               /\ LET new == [name |-> name, data |-> tmp[name]]
                  IN \/ published' = Append(published, new) /\ trouble' = trouble
                     \/ /\ trouble' = trouble \union {"clash"}
                        /\ \E s \in Seq(FileRecord) :
                             /\ published' = Append(s, new)
                             /\ \A k \in DOMAIN s : \E n \in DOMAIN published : s[k] = published[n]
<1> DEFINE new == [name |-> name, data |-> tmp[name]]
<1>1. name \in Names BY NameType
<1>2. tmp \in [Names -> Content] /\ published \in Seq(FileRecord) BY DEF TypeInv
<1>3. CASE tmp[name] = NoFile /\ UNCHANGED <<tmp, published, trouble>>
  BY <1>1, <1>2, <1>3
<1>4. CASE tmp[name] # NoFile /\ tmp' = [tmp EXCEPT ![name] = NoFile] /\ Replace
  <2>1. tmp[name] \in Seq(0..MaxLines) BY <1>1, <1>2, <1>4 DEF Content
  <2>2. new \in FileRecord BY <1>1, <2>1 DEF FileRecord
  <2>3. /\ tmp' \in [Names -> Content] /\ tmp'[name] = NoFile
        /\ \A f \in Names : tmp'[f] \in {tmp[f], NoFile}
    <3>1. NoFile \in Content BY DEF Content
    <3> QED BY <1>1, <1>2, <1>4, <3>1
  <2>4. CASE published' = Append(published, new) /\ trouble' = trouble
    <3>1. published' \in Seq(FileRecord) BY <1>2, <2>2, <2>4, AppendProperties
    <3> QED BY <1>1, <1>4, <2>1, <2>3, <2>4, <3>1
  <2>5. CASE /\ \E k \in DOMAIN published : published' = Append(RemoveAt(published, k), new)
             /\ trouble' = trouble \union {"clash"}
    <3>1. PICK k \in DOMAIN published : published' = Append(RemoveAt(published, k), new)
      BY <2>5
    <3> DEFINE s == RemoveAt(published, k)
    <3>2. k \in 1..Len(published) /\ DOMAIN published = 1..Len(published) /\ Len(published) \in Nat
      BY <1>2, <3>1, LenProperties
    <3>3. /\ s \in Seq(FileRecord) /\ Len(s) = Len(published) - 1
          /\ \A i \in 1..(Len(published) - 1) : s[i] = published[IF i < k THEN i ELSE i + 1]
      BY <1>2, <3>2, DropProperties DEF RemoveAt
    <3> HIDE DEF s, new
    <3>4. ASSUME NEW i \in DOMAIN s PROVE \E n \in DOMAIN published : s[i] = published[n]
      <4>1. i \in 1..(Len(published) - 1) BY <3>3, LenProperties
      <4>2. (IF i < k THEN i ELSE i + 1) \in 1..Len(published) BY <3>2, <4>1
      <4> QED BY <3>2, <3>3, <4>1, <4>2
    <3>5. published' = Append(s, new) BY <3>1 DEF s
    <3>6. published' \in Seq(FileRecord) BY <2>2, <3>3, <3>5, AppendProperties
    <3> QED BY <1>1, <1>4, <2>1, <2>3, <2>5, <3>3, <3>4, <3>5, <3>6 DEF new
  <2>6. \/ published' = Append(published, new) /\ trouble' = trouble
        \/ /\ \E k \in DOMAIN published : published' = Append(RemoveAt(published, k), new)
           /\ trouble' = trouble \union {"clash"}
    BY <1>4 DEF Replace
  <2> QED BY <2>4, <2>5, <2>6
<1> QED BY <1>3, <1>4 DEF Rename

LEMMA TypeInit == Init => TypeInv /\ ControlInv
<1> SUFFICES ASSUME Init PROVE TypeInv /\ ControlInv OBVIOUS
<1>1. /\ m_stream = FALSE /\ leaked = 0 /\ held = <<>> /\ m_data = <<>>
      /\ pc = "down" /\ todo = 0 /\ isTimeOut = FALSE /\ m_serial_cnt = 0 /\ m_fileGenTime = 0
      /\ wall = 0 /\ line = 0 /\ trouble = {}
      /\ tmp = [f \in Names |-> NoFile] /\ published = <<>>
  BY DEF Init, GzipInit
<1>2. <<>> \in Seq(1..MaxLines) /\ <<>> \in Seq(0..MaxLines) /\ <<>> \in Seq(FileRecord)
  OBVIOUS
<1>3. m_size = 0 BY <1>1 DEF m_size
<1>4. tmp \in [Names -> Content]
  <2>1. NoFile \in Content BY DEF Content
  <2> QED BY <1>1, <2>1
<1>5. held \in Seq(1..MaxLines) /\ m_data \in Seq(0..MaxLines) /\ published \in Seq(FileRecord)
  BY <1>1, <1>2, Zenon
<1>6. /\ leaked \in 0..MaxClears /\ m_size <= capacity /\ todo \in 0..PassLines
      /\ m_fileGenTime \in 0..MaxWall /\ m_serial_cnt \in Nat
      /\ wall \in 0..MaxWall /\ line \in 0..MaxLines
  BY <1>1, <1>3, ConstantFacts
<1>7. /\ m_stream \in BOOLEAN /\ isTimeOut \in BOOLEAN
      /\ pc \in {"down", "idle", "each", "dump", "reset", "rename", "write"}
      /\ trouble \subseteq {"disk", "memory", "crash", "clash", "clear"}
  BY <1>1
<1>8. TypeInv BY <1>4, <1>5, <1>6, <1>7, Zenon DEF TypeInv
<1> QED BY <1>1, <1>8, ConstantFacts DEF ControlInv

\* A step of the stream that leaves the pass and the files alone.
LEMMA StreamTypes ==
  ASSUME TypeInv, ControlInv,
         m_stream' \in BOOLEAN, leaked' \in 0..MaxClears,
         held' \in Seq(1..MaxLines), m_data' \in Seq(0..MaxLines), m_size' <= capacity,
         pc' \in {"down", "idle", "each", "dump", "reset", "rename"},
         pc' \in {"down", "dump", "reset"} => ~m_stream',
         trouble' \subseteq {"disk", "memory", "crash", "clash", "clear"},
         pc # "write",
         UNCHANGED <<passVars, wall, line, tmp, published>>
  PROVE  TypeInv' /\ ControlInv'
<1>1. TypeInv' BY DEF TypeInv, passVars
<1>2. ControlInv' BY DEF ControlInv, passVars
<1> QED BY <1>1, <1>2

\* Only clear() sets up a state while there is one.
LEMMA ResetProperties ==
  ASSUME TypeInv, NEW ok \in BOOLEAN, compressReset(ok)
  PROVE  /\ held' = <<>> /\ m_data' = <<>> /\ m_size' <= capacity
         /\ held' \in Seq(1..MaxLines) /\ m_data' \in Seq(0..MaxLines)
         /\ (ok => m_stream') /\ m_stream' \in BOOLEAN
         /\ leaked' \in {leaked, leaked + 1}
         /\ ~m_stream => leaked' = leaked
<1>1. /\ held' = <<>> /\ m_data' = <<>>
      /\ \/ m_stream' = ok /\ leaked' = leaked + (IF m_stream THEN 1 ELSE 0)
         \/ ~ok /\ m_stream' = m_stream /\ leaked' = leaked
  BY DEF compressReset
<1>2. <<>> \in Seq(1..MaxLines) /\ <<>> \in Seq(0..MaxLines) OBVIOUS
<1>3. held' \in Seq(1..MaxLines) /\ m_data' \in Seq(0..MaxLines) BY <1>1, <1>2, Zenon
<1>4. m_size' <= capacity BY <1>1, ConstantFacts DEF m_size
<1>5. m_stream' \in BOOLEAN BY <1>1 DEF TypeInv
<1>6. leaked \in Nat BY DEF TypeInv
<1>7. leaked' \in {leaked, leaked + 1} /\ (~m_stream => leaked' = leaked) BY <1>1, <1>6
<1>8. ok => m_stream' BY <1>1
<1> QED BY <1>1, <1>3, <1>4, <1>5, <1>7, <1>8, Zenon

LEMMA makeCsvLogTypes ==
  ASSUME TypeInv, ControlInv, makeCsvLog, pc \in {"each", "write"}, todo > 0, pc' = "each"
  PROVE  /\ TypeInv' /\ ControlInv' /\ line' = line + 1 /\ line' \in 1..MaxLines
         /\ compressUpdate(line') /\ name' = name /\ leaked' = leaked /\ m_stream' = m_stream
<1>1. /\ line' = line + 1 /\ todo' = todo - 1 /\ compressUpdate(line')
      /\ UNCHANGED <<isTimeOut, m_serial_cnt, m_fileGenTime, wall, tmp, published, crashes, trouble>>
  BY DEF makeCsvLog
<1>2. line' \in 1..MaxLines /\ todo' \in 0..PassLines /\ line' \in 0..MaxLines
  BY <1>1, ConstantFacts DEF TypeInv, ControlInv
<1>3. /\ m_stream' = m_stream /\ leaked' = leaked
      /\ held' \in Seq(1..MaxLines) /\ m_data' \in Seq(0..MaxLines) /\ m_size' <= capacity
  BY <1>1, <1>2, UpdateProperties
<1>4. TypeInv' BY <1>1, <1>2, <1>3 DEF TypeInv
<1>5. ControlInv'
  <2>1. m_serial_cnt + todo <= MaxLines + 1 /\ (pc # "write" => m_serial_cnt + todo <= MaxLines)
    BY ConstantFacts DEF TypeInv, ControlInv
  <2>2. m_serial_cnt + (todo - 1) <= MaxLines BY <2>1, ConstantFacts DEF TypeInv
  <2>3. (line + 1) + (todo - 1) <= MaxLines BY ConstantFacts DEF TypeInv, ControlInv
  <2> QED BY <1>1, <2>2, <2>3, ConstantFacts DEF ControlInv
<1> QED BY <1>1, <1>2, <1>3, <1>4, <1>5 DEF name

LEMMA TypeStep == TypeInv /\ ControlInv /\ [Next]_vars => TypeInv' /\ ControlInv'
<1> SUFFICES ASSUME TypeInv, ControlInv, [Next]_vars PROVE TypeInv' /\ ControlInv' OBVIOUS
<1>0. /\ <<>> \in Seq(1..MaxLines) /\ <<>> \in Seq(0..MaxLines)
      /\ leaked \in 0..MaxClears /\ MaxClears \in Nat
      /\ trouble \subseteq {"disk", "memory", "crash", "clash", "clear"}
  BY ConstantFacts DEF TypeInv
<1>1. CASE StartUp
  <2>1. /\ pc = "down" /\ pc' = "idle" /\ UNCHANGED <<passVars, wall, line, tmp, published>>
        /\ trouble' \subseteq trouble \union {"memory"}
    BY <1>1 DEF StartUp, Works
  <2>2. PICK ok \in BOOLEAN : compressInit(ok) BY <1>1 DEF StartUp
  <2>3. /\ m_stream' = ok /\ held' = <<>> /\ m_data' = <<>> /\ leaked' = leaked
    BY <2>1, <2>2, <1>0 DEF compressInit, ControlInv
  <2>4. held' \in Seq(1..MaxLines) /\ m_data' \in Seq(0..MaxLines) BY <2>3, <1>0, Zenon
  <2>5. m_size' <= capacity BY <2>3, ConstantFacts DEF m_size
  <2>6. leaked' \in 0..MaxClears /\ m_stream' \in BOOLEAN BY <1>0, <2>3
  <2>7. trouble' \subseteq {"disk", "memory", "crash", "clash", "clear"} BY <1>0, <2>1
  <2> QED BY <2>1, <2>4, <2>5, <2>6, <2>7, StreamTypes
<1>2. CASE Crash
  <2>1. /\ pc' = "down" /\ m_stream' = FALSE /\ leaked' = 0 /\ held' = <<>> /\ m_data' = <<>>
        /\ todo' = 0 /\ isTimeOut' = FALSE /\ m_serial_cnt' = 0 /\ m_fileGenTime' = 0
        /\ trouble' = trouble \union {"crash"}
        /\ UNCHANGED <<wall, line, tmp, published>>
    BY <1>2 DEF Crash
  <2>2. held' \in Seq(1..MaxLines) /\ m_data' \in Seq(0..MaxLines) BY <2>1, <1>0, Zenon
  <2>3. m_size' <= capacity BY <2>1, ConstantFacts DEF m_size
  <2>4. /\ leaked' \in 0..MaxClears /\ todo' \in 0..PassLines /\ m_fileGenTime' \in 0..MaxWall
        /\ m_serial_cnt' \in Nat /\ trouble' \subseteq {"disk", "memory", "crash", "clash", "clear"}
    BY <2>1, <1>0, ConstantFacts
  <2>5. /\ m_stream' \in BOOLEAN /\ isTimeOut' \in BOOLEAN
        /\ pc' \in {"down", "idle", "each", "dump", "reset", "rename", "write"}
        /\ wall' \in 0..MaxWall /\ line' \in 0..MaxLines
        /\ tmp' \in [Names -> Content] /\ published' \in Seq(FileRecord)
    BY <2>1 DEF TypeInv
  <2>6. TypeInv' BY <2>2, <2>3, <2>4, <2>5, Zenon DEF TypeInv
  <2> QED BY <2>1, <2>6, ConstantFacts DEF TypeInv, ControlInv
<1>3. CASE Tick
  <2>1. /\ wall < MaxWall /\ wall' = wall + 1
        /\ UNCHANGED <<gzipVars, pc, passVars, line, tmp, published, crashes, trouble>>
    BY <1>3 DEF Tick
  <2>2. TypeInv' BY <2>1, ConstantFacts DEF TypeInv, gzipVars, passVars, m_size
  <2> QED BY <2>1, <2>2 DEF ControlInv, gzipVars, passVars
<1>4. CASE Clear
  <2>1. PICK ok \in BOOLEAN :
          /\ compressReset(ok)
          /\ trouble' = trouble \union {"clear"} \union (IF ok THEN {} ELSE {"memory"})
    BY <1>4 DEF Clear
  <2>2. /\ pc = "idle" /\ pc' = "idle" /\ leaked < MaxClears
        /\ UNCHANGED <<passVars, wall, line, tmp, published>>
    BY <1>4 DEF Clear
  <2>3. leaked' \in 0..MaxClears BY <2>1, <2>2, <1>0, ResetProperties
  <2>4. trouble' \subseteq {"disk", "memory", "crash", "clash", "clear"} BY <1>0, <2>1
  <2> QED BY <2>1, <2>2, <2>3, <2>4, ResetProperties, StreamTypes
<1>5. CASE CheckRotate
  <2>1. /\ pc' = "each" /\ todo' \in 0..Min({PassLines, MaxLines - line}) /\ isTimeOut' \in BOOLEAN
        /\ m_serial_cnt' = 0 /\ m_fileGenTime' = wall
        /\ UNCHANGED <<gzipVars, wall, line, tmp, published, trouble>>
    BY <1>5 DEF CheckRotate
  <2>2. todo' \in 0..PassLines /\ line + todo' <= MaxLines
    <3>1. PassLines \in Int /\ MaxLines - line \in Int /\ line \in Nat
      BY ConstantFacts DEF TypeInv
    <3>2. Min({PassLines, MaxLines - line})
            = IF PassLines <= MaxLines - line THEN PassLines ELSE MaxLines - line
      BY <3>1, MinOfTwo
    <3> DEFINE most == Min({PassLines, MaxLines - line})
    <3>3. todo' \in 0..most BY <2>1
    <3> HIDE DEF most
    <3>4. most = IF PassLines <= MaxLines - line THEN PassLines ELSE MaxLines - line
      BY <3>2 DEF most
    <3>5. PassLines \in Nat /\ MaxLines \in Nat BY ConstantFacts
    <3>6. most \in Int /\ most <= PassLines /\ most <= MaxLines - line BY <3>1, <3>4, <3>5
    <3>7. todo' \in Int /\ 0 <= todo' /\ todo' <= most BY ONLY <3>3, <3>6
    <3>8. todo' \in 0..PassLines BY ONLY <3>5, <3>6, <3>7
    <3>9. \A a \in Nat, b, c \in Int : b <= c /\ c <= MaxLines - a => a + b <= MaxLines
      BY <3>5
    <3>10. line + todo' <= MaxLines BY ONLY <3>1, <3>6, <3>7, <3>9, Zenon
    <3> QED BY <3>8, <3>10
  <2>3. TypeInv'
    <3>1. /\ m_stream' \in BOOLEAN /\ leaked' \in 0..MaxClears
          /\ held' \in Seq(1..MaxLines) /\ m_data' \in Seq(0..MaxLines) /\ m_size' <= capacity
      BY <2>1 DEF TypeInv, gzipVars, m_size
    <3> QED BY <2>1, <2>2, <3>1 DEF TypeInv
  <2>4. 0 + todo' <= MaxLines
    <3>1. PassLines \in Nat /\ MaxLines \in Nat /\ line \in Nat BY ConstantFacts DEF TypeInv
    <3>2. todo' \in Int BY <2>2, <3>1
    <3>3. \A a \in Nat, b \in Int : a + b <= MaxLines => 0 + b <= MaxLines BY <3>1
    <3> QED BY ONLY <2>2, <3>1, <3>2, <3>3, Zenon
  <2>5. (line + todo <= MaxLines)' BY <2>1, <2>2
  <2>6. (m_serial_cnt + todo <= MaxLines + (IF pc = "write" THEN 1 ELSE 0))'
    <3>1. MaxLines + 0 = MaxLines BY ConstantFacts
    <3> QED BY <2>1, <2>4, <3>1
  <2> QED BY <2>1, <2>3, <2>5, <2>6 DEF ControlInv
<1>6. CASE Each
  <2>1. pc = "each" /\ todo > 0 /\ pc' = "each" /\ makeCsvLog BY <1>6 DEF Each
  <2> QED BY <2>1, makeCsvLogTypes
<1>7. CASE Finish
  <2>1. /\ pc = "each" /\ pc' = "dump" /\ compressFinish
        /\ UNCHANGED <<passVars, wall, line, tmp, published, trouble>>
    BY <1>7 DEF Finish
  <2>2. /\ m_stream' = FALSE /\ held' = <<>> /\ leaked' = leaked
        /\ m_data' \in Seq(0..MaxLines) /\ m_size' <= capacity
    BY <2>1, FinishProperties
  <2>3. held' \in Seq(1..MaxLines) BY <2>2, <1>0, Zenon
  <2> QED BY <2>1, <2>2, <2>3, <1>0, StreamTypes
<1>8. CASE Dump
  <2>1. /\ pc = "dump" /\ pc' = "reset" /\ UNCHANGED <<gzipVars, passVars, wall, line, published>>
    BY <1>8 DEF Dump
  <2>2. tmp' \in [Names -> Content] /\ trouble' \subseteq trouble \union {"disk"}
    BY <1>8, DumpProperties
  <2>3. TypeInv' BY <2>1, <2>2, <1>0 DEF TypeInv, gzipVars, passVars, m_size
  <2> QED BY <2>1, <2>3 DEF ControlInv, gzipVars, passVars
<1>9. CASE Reset
  <2>1. /\ pc = "reset" /\ pc' = "rename" /\ UNCHANGED <<passVars, wall, line, tmp, published>>
        /\ trouble' \subseteq trouble \union {"memory"}
    BY <1>9 DEF Reset, Works
  <2>2. PICK ok \in BOOLEAN : compressReset(ok) BY <1>9 DEF Reset
  <2>3. leaked' = leaked BY <2>1, <2>2, ResetProperties DEF ControlInv
  <2>4. trouble' \subseteq {"disk", "memory", "crash", "clash", "clear"} BY <1>0, <2>1
  <2> QED BY <2>1, <2>2, <2>3, <2>4, <1>0, ResetProperties, StreamTypes
<1>10. CASE Rename
  <2>1. /\ pc = "rename"
        /\ IF todo > 0 THEN m_serial_cnt' = m_serial_cnt + 1 /\ pc' = "write"
                       ELSE m_serial_cnt' = m_serial_cnt /\ pc' = "idle"
        /\ UNCHANGED <<gzipVars, todo, isTimeOut, m_fileGenTime, wall, line>>
    BY <1>10 DEF Rename
  <2>2. /\ tmp' \in [Names -> Content] /\ published' \in Seq(FileRecord)
        /\ trouble' \subseteq trouble \union {"clash"}
    BY <1>10, RenameProperties
  <2>3. m_serial_cnt' \in Nat /\ pc' \in {"write", "idle"} BY <2>1 DEF TypeInv
  <2>4. TypeInv' BY <2>1, <2>2, <2>3, <1>0 DEF TypeInv, gzipVars, m_size
  <2>5. m_serial_cnt + todo <= MaxLines BY <2>1, ConstantFacts DEF ControlInv
  <2>6. ControlInv'
    <3>1. CASE todo > 0
      <4>1. (m_serial_cnt + 1) + todo <= MaxLines + 1 BY <2>5, ConstantFacts DEF TypeInv
      <4> QED BY <2>1, <3>1, <4>1 DEF ControlInv
    <3>2. CASE ~(todo > 0) BY <2>1, <2>5, <3>2, ConstantFacts DEF TypeInv, ControlInv
    <3> QED BY <3>1, <3>2
  <2> QED BY <2>4, <2>6
<1>11. CASE WriteAfter
  <2>1. pc = "write" /\ pc' = "each" /\ makeCsvLog /\ todo > 0
    BY <1>11 DEF WriteAfter, ControlInv
  <2> QED BY <2>1, makeCsvLogTypes
<1>12. CASE PassEnd
  <2>1. /\ pc = "each" /\ pc' = "idle"
        /\ UNCHANGED <<gzipVars, passVars, wall, line, tmp, published, trouble>>
    BY <1>12 DEF PassEnd
  <2>2. TypeInv' BY <2>1 DEF TypeInv, gzipVars, passVars, m_size
  <2> QED BY <2>1, <2>2 DEF ControlInv, gzipVars, passVars
<1>13. CASE UNCHANGED vars
  BY <1>13 DEF vars, TypeInv, ControlInv, gzipVars, passVars, m_size
<1> QED BY <1>1, <1>2, <1>3, <1>4, <1>5, <1>6, <1>7, <1>8, <1>9, <1>10, <1>11, <1>12, <1>13
    DEF Next

LEMMA TypesAlways == Spec => [](TypeInv /\ ControlInv)
  BY TypeInit, TypeStep, PTL DEF Spec

\* The types; m_data never grows past the capacity that compressInit gave it,
\* whatever deflate holds back and whichever call fails.
THEOREM Types == Spec => []TypeOK
<1>1. TypeInv /\ ControlInv => TypeOK
  <2> SUFFICES ASSUME TypeInv, ControlInv PROVE TypeOK OBVIOUS
  <2>1. name \in Names BY NameType
  <2>2. ASSUME NEW f \in Names PROVE tmp[f] = NoFile \/ tmp[f] \in Seq(0..MaxLines)
    BY <2>2 DEF TypeInv, Content
  <2>3. ASSUME NEW k \in DOMAIN published PROVE published[k].data \in Seq(0..MaxLines)
    <3>1. published \in Seq(FileRecord) BY DEF TypeInv
    <3>2. published[k] \in FileRecord BY <3>1
    <3> QED BY <3>2 DEF FileRecord
  <2> QED BY <2>1, <2>2, <2>3 DEF TypeInv, TypeOK
<1> QED BY <1>1, TypesAlways, PTL

----------------------------------------------------------------------------
\* Deflate states.

\* Each deflate state is freed by compressFinish before compressReset makes
\* another, whatever fails and wherever the process dies: only clear() loses one.
THEOREM OnlyClearLoses == Spec => OnlyClearLeaks
<1>1. TypeInv /\ ControlInv /\ [Next]_vars => [leaked' > leaked => Clear]_vars
  <2> SUFFICES ASSUME TypeInv, ControlInv, Next, ~Clear PROVE ~(leaked' > leaked) OBVIOUS
  <2>0. leaked \in Nat BY DEF TypeInv
  <2>1. CASE StartUp
    <3>1. ~m_stream BY <2>1 DEF StartUp, ControlInv
    <3>2. leaked' = leaked BY <2>0, <2>1, <3>1 DEF StartUp, compressInit
    <3> QED BY <2>0, <3>2
  <2>2. CASE Crash BY <2>0, <2>2 DEF Crash
  <2>3. CASE Tick \/ CheckRotate \/ Dump \/ PassEnd
    <3>1. leaked' = leaked BY <2>3 DEF Tick, CheckRotate, Dump, PassEnd, gzipVars
    <3> QED BY <2>0, <3>1
  <2>4. CASE Each \/ WriteAfter
    <3>1. makeCsvLog /\ pc \in {"each", "write"} /\ todo > 0 /\ pc' = "each"
      BY <2>4 DEF Each, WriteAfter, ControlInv
    <3>2. leaked' = leaked BY <3>1, makeCsvLogTypes
    <3> QED BY <2>0, <3>2
  <2>5. CASE Finish
    <3>1. leaked' = leaked BY <2>5, FinishProperties DEF Finish
    <3> QED BY <2>0, <3>1
  <2>6. CASE Reset
    <3>1. ~m_stream BY <2>6 DEF Reset, ControlInv
    <3>2. leaked' = leaked BY <2>6, <3>1, ResetProperties DEF Reset
    <3> QED BY <2>0, <3>2
  <2>7. CASE Rename
    <3>1. leaked' = leaked BY <2>7 DEF Rename, gzipVars
    <3> QED BY <2>0, <3>1
  <2> QED BY <2>1, <2>2, <2>3, <2>4, <2>5, <2>6, <2>7 DEF Next
<1> QED BY <1>1, TypesAlways, PTL DEF Spec, OnlyClearLeaks

----------------------------------------------------------------------------
\* The stream.

\* What kSafeThreshold is for: a line and what zlib holds back fit behind a
\* stream that is not full, and a line fits an empty one.  In the code that is
\* 8 MB for a line of less than 1 KB and well under 1 MB held back.
ReserveIsEnough ==
  /\ kPending + kLine < kSafeThreshold + kWindow
  /\ kLine < capacity

\* m_data and what zlib holds back are the lines after a, with the trailer once
\* compressFinish has been there; or nothing, when there was no state to finish.
StreamIs(a) ==
  IF pc \in {"dump", "reset"}
    THEN held = <<>> /\ (m_data = <<>> \/ m_data = Run(a, line) \o <<End>>)
    ELSE m_data \o held = Run(a, line)

\* Between two outputs compressFinish always finds the room it needs.
RoomInv ==
  /\ pc \notin {"dump", "reset"} =>
       /\ ~m_stream => m_data = <<>> /\ held = <<>>
       /\ Len(held) <= kPending /\ m_size + Len(held) < capacity
  /\ pc \in {"down", "rename", "write"} => m_data = <<>> /\ held = <<>>

StreamInv == RoomInv /\ \E a \in 0..line : StreamIs(a)

\* A line that goes to a stream with a state, and is taken whole.
LEMMA UpdateWhole ==
  ASSUME ReserveIsEnough, TypeInv, ControlInv, RoomInv, m_stream,
         makeCsvLog, pc \in {"each", "write"}, todo > 0, pc' = "each",
         pc = "each" => ~isFull,
         NEW a \in 0..line, m_data \o held = Run(a, line)
  PROVE  /\ m_data' \o held' = Run(a, line')
         /\ Len(held') <= kPending /\ m_size' + Len(held') < capacity
<1> DEFINE avail_out == capacity - m_size
           fed == held \o Units(line')
           most == Min({Len(fed), avail_out + kPending})
           taken == SubSeq(fed, 1, most)
<1>1. /\ held \in Seq(1..MaxLines) /\ m_data \in Seq(0..MaxLines) /\ MaxLines \in Nat
      /\ m_size \in Nat /\ capacity \in Nat /\ m_size <= capacity
      /\ Len(held) \in Nat /\ kPending \in Nat /\ kLine \in Nat \ {0} /\ line \in Nat
      /\ kSafeThreshold \in Nat /\ kWindow \in Nat /\ m_compress_size \in Nat
      /\ capacity = m_compress_size + kSafeThreshold
  BY ConstantFacts, LenProperties DEF TypeInv, m_size, capacity
<1>2. line' = line + 1 /\ line' \in 1..MaxLines /\ compressUpdate(line')
  BY makeCsvLogTypes
<1>3. /\ Len(held) <= kPending /\ m_size + Len(held) < capacity
      /\ kPending + kLine < kSafeThreshold + kWindow /\ kLine < capacity
  BY DEF RoomInv, ReserveIsEnough
\* Either the stream is not full, or it is empty.
<1>4. m_size + kWindow <= m_compress_size \/ (m_size = 0 /\ Len(held) = 0)
  <2>1. CASE pc = "each"
    <3>1. ~(m_size + kSafeThreshold + kWindow > capacity) BY <2>1 DEF isFull
    <3> QED BY <1>1, <3>1
  <2>2. CASE pc = "write" BY <2>2 DEF RoomInv, m_size
  <2> QED BY <2>1, <2>2
<1>5. /\ m_size < capacity /\ kLine <= avail_out
      /\ m_size + Len(held) + kLine < capacity
  BY <1>1, <1>3, <1>4
<1>6. /\ Len(fed) = Len(held) + kLine /\ fed \in Seq(1..MaxLines)
      /\ \E k \in 0..most : /\ k >= most - kPending
                            /\ m_data' = m_data \o SubSeq(taken, 1, k)
                            /\ held' = SubSeq(taken, k + 1, most)
  <2>1. m_stream /\ capacity - m_size > 0 BY <1>1, <1>5
  <2> QED BY <1>2, <2>1, UpdateProperties
<1>7. most = Len(fed)
  <2>1. Len(fed) \in Nat /\ Len(fed) <= avail_out + kPending
    BY <1>1, <1>3, <1>5, <1>6
  <2>2. Len(fed) \in Int /\ avail_out + kPending \in Int BY <1>1, <2>1
  <2> HIDE DEF fed, avail_out
  <2>3. most = IF Len(fed) <= avail_out + kPending THEN Len(fed) ELSE avail_out + kPending
    BY ONLY <2>2, MinOfTwo, Zenon
  <2> QED BY <2>1, <2>3
<1>8. taken = fed
  <2>1. SubSeq(fed, 1, Len(fed)) = fed BY <1>6, SubSeqFull
  <2> HIDE DEF fed
  <2> QED BY <1>7, <2>1
<1>9. fed \in Seq(Nat) /\ m_data \in Seq(Nat) /\ held \in Seq(Nat) /\ Units(line') \in Seq(Nat)
  <2>1. 1..MaxLines \subseteq Nat /\ 0..MaxLines \subseteq Nat /\ {line'} \subseteq Nat BY <1>2
  <2>2. Units(line') \in Seq({line'}) BY <1>2, UnitsProperties
  <2> HIDE DEF fed
  <2> QED BY ONLY <1>1, <1>6, <2>1, <2>2, SeqMonotonic
<1>10. m_data \o fed = Run(a, line')
  <2>1. (m_data \o held) \o Units(line') = m_data \o (held \o Units(line'))
    BY ONLY <1>9, ConcatAssociative, SMTT(30)
  <2>0. a \in Nat /\ line \in Nat /\ a <= line BY <1>1
  <2>2. Run(a, line + 1) = Run(a, line) \o Units(line + 1) BY ONLY <2>0, RunExtend
  <2> QED BY <1>2, <2>1, <2>2
<1> HIDE DEF fed, most, taken, avail_out
<1>11. PICK k \in 0..Len(fed) : /\ k >= Len(fed) - kPending
                                /\ m_data' = m_data \o SubSeq(fed, 1, k)
                                /\ held' = SubSeq(fed, k + 1, Len(fed))
  BY <1>6, <1>7, <1>8
<1> DEFINE u == SubSeq(fed, 1, k)
           v == SubSeq(fed, k + 1, Len(fed))
<1>12. /\ u \in Seq(Nat) /\ Len(u) = k /\ v \in Seq(Nat) /\ Len(v) = Len(fed) - k
       /\ u \o v = fed
  BY <1>9, PrefixOfSeq, SuffixOfSeq, SplitSeq
<1> HIDE DEF u, v
<1>13. (m_data \o u) \o v = m_data \o (u \o v)
  <2>1. \A x, y, z \in Seq(Nat) : (x \o y) \o z = x \o (y \o z)
    BY ONLY ConcatAssociative, SMTT(30)
  <2>2. m_data \in Seq(Nat) /\ u \in Seq(Nat) /\ v \in Seq(Nat) BY ONLY <1>9, <1>12
  <2> QED BY ONLY <2>1, <2>2, ZenonT(60)
<1>14. m_data' = m_data \o u /\ held' = v BY <1>11 DEF u, v
<1>15. Len(held') = Len(fed) - k /\ Len(fed) \in Nat /\ k \in Nat
  <2>1. Len(fed) \in Nat BY <1>1, <1>6
  <2>2. k \in Nat BY <2>1
  <2> QED BY <1>12, <1>14, <2>1, <2>2
<1>16. m_size' = m_size + k
  <2>1. Len(m_data \o u) = Len(m_data) + Len(u) BY <1>9, <1>12, ConcatProperties
  <2> QED BY <1>12, <1>14, <2>1 DEF m_size
<1>17. Len(held') <= kPending BY <1>1, <1>11, <1>15
<1>18. m_size' + Len(held') < capacity
  <2>1. m_size' + Len(held') = m_size + Len(fed) BY <1>1, <1>15, <1>16
  <2>2. m_size + Len(fed) < capacity BY <1>1, <1>5, <1>6
  <2> QED BY <2>1, <2>2
<1> QED BY <1>10, <1>12, <1>13, <1>14, <1>17, <1>18

\* makeCsvLog, with a state and without.
LEMMA LineStream ==
  ASSUME ReserveIsEnough, TypeInv, ControlInv, StreamInv, Each \/ WriteAfter
  PROVE  /\ RoomInv' /\ line' = line + 1 /\ pc' = "each" /\ name' = name /\ m_stream' = m_stream
         /\ UNCHANGED <<tmp, published, trouble>>
         /\ m_stream => \A a \in 0..line : StreamIs(a) => StreamIs(a)'
         /\ ~m_stream => \A b \in Nat : b = line' => StreamIs(b)'
<1>1. /\ makeCsvLog /\ pc \in {"each", "write"} /\ todo > 0 /\ pc' = "each"
      /\ pc = "each" => ~isFull
      /\ RoomInv
  BY DEF Each, WriteAfter, ControlInv, StreamInv
<1>2. /\ TypeInv' /\ line' = line + 1 /\ line' \in 1..MaxLines
      /\ compressUpdate(line') /\ name' = name /\ m_stream' = m_stream
      /\ UNCHANGED <<tmp, published, trouble>>
  BY <1>1, makeCsvLogTypes DEF makeCsvLog
<1>3. CASE m_stream
  <2>1. ASSUME NEW a \in 0..line, m_data \o held = Run(a, line)
        PROVE  m_data' \o held' = Run(a, line') /\ RoomInv'
    <3>1. /\ m_data' \o held' = Run(a, line')
          /\ Len(held') <= kPending /\ m_size' + Len(held') < capacity
      BY <1>1, <1>3, <2>1, UpdateWhole
    <3> QED BY <1>1, <1>2, <1>3, <3>1 DEF RoomInv
  <2>2. ASSUME NEW a \in 0..line, StreamIs(a) PROVE StreamIs(a)' /\ RoomInv'
    <3>1. m_data \o held = Run(a, line) BY <1>1, <2>2 DEF StreamIs
    <3>2. m_data' \o held' = Run(a, line') /\ RoomInv' BY <2>1, <3>1
    <3> QED BY <1>1, <3>2 DEF StreamIs
  <2>3. RoomInv' BY <2>2 DEF StreamInv
  <2> QED BY <1>1, <1>2, <1>3, <2>2, <2>3
<1>4. CASE ~m_stream
  <2>1. held' = held /\ m_data' = m_data BY <1>2, <1>4, UpdateProperties DEF gzipVars
  <2>2. m_data = <<>> /\ held = <<>> BY <1>1, <1>4 DEF RoomInv
  <2>3. RoomInv' BY <1>1, <1>2, <2>1, <2>2 DEF RoomInv, m_size
  <2>4. ASSUME NEW b \in Nat, b = line' PROVE StreamIs(b)'
    <3>2. Run(b, line') = <<>> BY <2>4, RunEmpty
    <3>3. <<>> \o <<>> = <<>> BY ConcatEmptySeq, EmptySeq
    <3> QED BY <1>1, <2>1, <2>2, <3>2, <3>3 DEF StreamIs
  <2> QED BY <1>1, <1>2, <1>4, <2>3, <2>4
<1> QED BY <1>3, <1>4

LEMMA FinishStream ==
  ASSUME TypeInv, StreamInv, Finish
  PROVE  /\ RoomInv' /\ line' = line /\ pc' = "dump" /\ name' = name
         /\ UNCHANGED <<tmp, published, trouble>>
         /\ \A a \in 0..line : StreamIs(a) => StreamIs(a)'
         /\ m_stream => m_data' # <<>>
<1>1. /\ pc = "each" /\ pc' = "dump" /\ compressFinish
      /\ UNCHANGED <<passVars, line, tmp, published, trouble>>
  BY DEF Finish
<1>2. RoomInv' BY <1>1 DEF RoomInv
<1>3. /\ held' = <<>>
      /\ \/ m_stream /\ Len(held) < capacity - m_size /\ m_data' = m_data \o held \o <<End>>
         \/ ~(m_stream /\ Len(held) < capacity - m_size) /\ m_data' = m_data
  BY <1>1, FinishProperties
<1>4. /\ held \in Seq(1..MaxLines) /\ m_data \in Seq(0..MaxLines) /\ MaxLines \in Nat
      /\ m_size \in Nat /\ capacity \in Nat /\ Len(held) \in Nat
      /\ m_size + Len(held) < capacity /\ (~m_stream => m_data = <<>>)
  BY <1>1, ConstantFacts, LenProperties DEF TypeInv, m_size, StreamInv, RoomInv
<1>5. Len(held) < capacity - m_size BY <1>4
<1>6. IF m_stream THEN m_data' = m_data \o held \o <<End>> ELSE m_data' = <<>>
  BY <1>3, <1>4, <1>5
<1>7. ASSUME NEW a \in 0..line, StreamIs(a) PROVE StreamIs(a)'
  <2>1. m_data \o held = Run(a, line) BY <1>1, <1>7 DEF StreamIs
  <2> QED BY <1>1, <1>3, <1>6, <2>1 DEF StreamIs
<1>8. ASSUME m_stream PROVE m_data' # <<>>
  <2>1. m_data \o held \in Seq(Int) /\ <<End>> \in Seq(Int) /\ Len(<<End>>) = 1
    <3>1. 1..MaxLines \subseteq Int /\ 0..MaxLines \subseteq Int BY <1>4
    <3>2. held \in Seq(Int) /\ m_data \in Seq(Int) BY ONLY <1>4, <3>1, SeqMonotonic
    <3> QED BY <3>2, ConcatProperties DEF End
  <2>2. /\ Len(m_data \o held \o <<End>>) = Len(m_data \o held) + 1
        /\ Len(m_data \o held) \in Nat
    BY <2>1, ConcatProperties, LenProperties
  <2>3. Len(m_data') # 0 BY <1>6, <1>8, <2>2
  <2> QED BY <2>3
<1> QED BY <1>1, <1>2, <1>7, <1>8 DEF passVars, name

LEMMA StreamStep ==
  ASSUME ReserveIsEnough, TypeInv, ControlInv, StreamInv, [Next]_vars
  PROVE  StreamInv'
<1>0. /\ line \in Nat /\ kPending \in Nat /\ capacity \in Nat /\ 0 < capacity /\ Len(<<>>) = 0
      /\ 0 \in Nat /\ <<>> \o <<>> = <<>>
  BY ConstantFacts, ConcatEmptySeq, EmptySeq DEF TypeInv, ReserveIsEnough
\* A step that leaves an empty stream.
<1>1. ASSUME m_data' = <<>>, held' = <<>>, line' = line, pc' \notin {"dump", "reset"}
      PROVE  StreamInv'
  <2>1. RoomInv' BY <1>0, <1>1 DEF RoomInv, m_size
  <2>2. PICK b \in Nat : b = line BY <1>0
  <2>3. StreamIs(b)'
    <3>1. Run(b, b) = <<>> BY <2>2, RunEmpty
    <3> QED BY <1>0, <1>1, <2>2, <3>1 DEF StreamIs
  <2>4. b \in 0..line' BY <1>1, <2>2
  <2> QED BY <2>1, <2>3, <2>4 DEF StreamInv
\* A step that leaves the stream as it was.
<1>2. ASSUME UNCHANGED <<gzipVars, line>>,
             pc \in {"dump", "reset"} <=> pc' \in {"dump", "reset"},
             pc' \in {"down", "rename", "write"} => pc \in {"down", "rename", "write"}
      PROVE  StreamInv'
  <2>1. RoomInv' BY <1>2 DEF StreamInv, RoomInv, gzipVars, m_size
  <2>2. PICK a \in 0..line : StreamIs(a) BY DEF StreamInv
  <2>3. StreamIs(a)' BY <1>2, <2>2 DEF StreamIs, gzipVars
  <2>4. a \in 0..line' BY <1>2
  <2> QED BY <2>1, <2>3, <2>4 DEF StreamInv
<1>3. CASE StartUp
  <2>1. pc' = "idle" /\ line' = line /\ m_data' = <<>> /\ held' = <<>>
    BY <1>3 DEF StartUp, compressInit
  <2> QED BY <1>1, <2>1
<1>4. CASE Crash
  <2>1. pc' = "down" /\ line' = line /\ m_data' = <<>> /\ held' = <<>> BY <1>4 DEF Crash
  <2> QED BY <1>1, <2>1
<1>5. CASE Clear
  <2>1. pc' = "idle" /\ line' = line /\ m_data' = <<>> /\ held' = <<>>
    BY <1>5 DEF Clear, compressReset
  <2> QED BY <1>1, <2>1
<1>6. CASE Reset
  <2>1. pc' = "rename" /\ line' = line /\ m_data' = <<>> /\ held' = <<>>
    BY <1>6 DEF Reset, compressReset
  <2> QED BY <1>1, <2>1
<1>7. CASE Tick BY <1>2, <1>7 DEF Tick
<1>8. CASE CheckRotate BY <1>2, <1>8 DEF CheckRotate
<1>9. CASE Dump BY <1>2, <1>9 DEF Dump
<1>10. CASE Rename BY <1>2, <1>10 DEF Rename
<1>11. CASE PassEnd BY <1>2, <1>11 DEF PassEnd
<1>12. CASE UNCHANGED vars BY <1>2, <1>12 DEF vars
<1>13. CASE Finish
  <2>1. PICK a \in 0..line : StreamIs(a) BY DEF StreamInv
  <2>2. RoomInv' /\ line' = line /\ StreamIs(a)' BY <1>13, <2>1, FinishStream
  <2>3. a \in 0..line' BY <2>2
  <2> QED BY <2>2, <2>3 DEF StreamInv
<1>14. CASE Each \/ WriteAfter
  <2>1. PICK a \in 0..line : StreamIs(a) BY DEF StreamInv
  <2>2. RoomInv' /\ line' = line + 1 BY <1>14, LineStream
  <2>3. PICK b \in Nat : b = line' BY <1>0, <2>2
  <2>4. StreamIs(a)' \/ StreamIs(b)' BY <1>14, <2>1, <2>3, LineStream
  <2>5. a \in 0..line' /\ b \in 0..line' BY <1>0, <2>2, <2>3
  <2> QED BY <2>2, <2>4, <2>5 DEF StreamInv
<1> QED BY <1>3, <1>4, <1>5, <1>6, <1>7, <1>8, <1>9, <1>10, <1>11, <1>12, <1>13, <1>14 DEF Next

LEMMA StreamInit == ReserveIsEnough /\ Init => StreamInv
<1> SUFFICES ASSUME ReserveIsEnough, Init PROVE StreamInv OBVIOUS
<1>1. pc = "down" /\ m_data = <<>> /\ held = <<>> /\ line = 0 BY DEF Init, GzipInit
<1>2. kPending \in Nat /\ 0 < capacity /\ Len(<<>>) = 0 /\ <<>> \o <<>> = <<>>
  BY ConstantFacts, ConcatEmptySeq, EmptySeq DEF ReserveIsEnough
<1>3. RoomInv BY <1>1, <1>2 DEF RoomInv, m_size
<1>4. Run(0, 0) = <<>> BY RunEmpty
<1>5. StreamIs(0) BY <1>1, <1>2, <1>4 DEF StreamIs
<1> QED BY <1>1, <1>3, <1>5 DEF StreamInv

LEMMA StreamAlways == ASSUME ReserveIsEnough PROVE Spec => [](TypeInv /\ ControlInv /\ StreamInv)
<1>1. Init => TypeInv /\ ControlInv /\ StreamInv BY TypeInit, StreamInit
<1>2. TypeInv /\ ControlInv /\ StreamInv /\ [Next]_vars => (TypeInv /\ ControlInv /\ StreamInv)'
  BY TypeStep, StreamStep
<1> QED BY <1>1, <1>2, PTL DEF Spec

\* A stream and its trailer.
LEMMA Trailer ==
  ASSUME NEW s \in Seq(Int)
  PROVE  LET t == s \o <<End>>
         IN /\ t \in Seq(Int) /\ t # <<>> /\ Len(t) = Len(s) + 1 /\ Len(s) \in Nat
            /\ t[Len(t)] = End /\ \A k \in 1..Len(s) : t[k] = s[k]
            /\ SubSeq(t, 1, Len(t) - 1) = s
<1> DEFINE t == s \o <<End>>
           N == Len(s)
<1>1. N \in Nat BY LenProperties
<1>2. <<End>> \in Seq(Int) /\ Len(<<End>>) = 1 /\ <<End>>[1] = End BY DEF End
<1>3. /\ t \in Seq(Int) /\ Len(t) = N + 1
      /\ \A k \in 1..(N + 1) : t[k] = IF k <= N THEN s[k] ELSE <<End>>[k - N]
  BY <1>2, ConcatProperties
<1>4. \A k \in 1..N : k \in 1..(N + 1) /\ k <= N BY <1>1
<1>5. N + 1 \in 1..(N + 1) /\ N + 1 - N = 1 /\ N + 1 - 1 = N /\ ~(N + 1 <= N) BY <1>1
<1> HIDE DEF t, N
<1>6. \A k \in 1..N : t[k] = s[k] BY <1>3, <1>4
<1>7. t[N + 1] = End
  <2> DEFINE e == <<End>>
  <2>1. \A k \in 1..(N + 1) : t[k] = IF k <= N THEN s[k] ELSE e[k - N] BY <1>3
  <2>2. e[1] = End BY <1>2
  <2> HIDE DEF e
  <2> DEFINE n == N + 1
  <2>3. \A k \in 1..n : t[k] = IF k <= N THEN s[k] ELSE e[k - N] BY <2>1
  <2>4. n \in 1..n /\ n - N = 1 /\ ~(n <= N) BY <1>1
  <2> HIDE DEF n
  <2>5. t[n] = e[1] BY <2>3, <2>4
  <2> QED BY <2>2, <2>5 DEF n
<1>8. t # <<>> BY <1>1, <1>3, EmptySeq
<1>9. N \in 0..Len(t) BY <1>1, <1>3
<1> DEFINE p == SubSeq(t, 1, N)
<1>10. p \in Seq(Int) /\ Len(p) = N /\ \A k \in 1..N : p[k] = t[k]
  BY <1>3, <1>9, PrefixOfSeq
<1> HIDE DEF p
<1>11. p = s
  <2>1. Len(p) = Len(s) /\ \A k \in 1..Len(p) : p[k] = s[k] BY <1>6, <1>10 DEF N
  <2> QED BY <1>10, <2>1, SeqEqual
<1>12. SubSeq(t, 1, Len(t) - 1) = s
  <2>1. Len(t) - 1 = N BY <1>1, <1>3
  <2> QED BY <1>11, <2>1 DEF p
<1>13. Len(t) = N + 1 /\ t[Len(t)] = End BY <1>3, <1>7
<1> QED BY <1>1, <1>3, <1>6, <1>8, <1>12, <1>13 DEF t, N

\* The trailer is never a line, so that TextOf cuts off the trailer alone.
LEMMA TextOfRun ==
  ASSUME NEW a \in Nat, NEW b \in Nat, a <= b
  PROVE  /\ TextOf(Run(a, b)) = Run(a, b)
         /\ TextOf(Run(a, b) \o <<End>>) = Run(a, b)
         /\ \A k \in DOMAIN Run(a, b) : Run(a, b)[k] # End
<1> DEFINE s == Run(a, b)
           N == (b - a) * kLine
           t == s \o <<End>>
<1>1. s \in Seq((a + 1)..b) /\ Len(s) = N /\ N \in Nat /\ DOMAIN s = 1..N
  BY RunProperties
<1> HIDE DEF s, N
<1>2. \A k \in 1..N : s[k] \in (a + 1)..b BY <1>1
<1>3. \A k \in 1..N : s[k] # End BY <1>2 DEF End
<1>4. TextOf(s) = s
  <2>1. CASE s = <<>> BY <2>1 DEF TextOf
  <2>2. CASE s # <<>>
    <3>1. N \in 1..N BY <1>1, <2>2, EmptySeq
    <3>2. Last(s) # End BY <1>1, <1>3, <3>1 DEF Last
    <3> QED BY <3>2 DEF TextOf
  <2> QED BY <2>1, <2>2
<1>5. TextOf(t) = s
  <2>1. (a + 1)..b \subseteq Int OBVIOUS
  <2>2. s \in Seq(Int) BY ONLY <1>1, <2>1, SeqMonotonic
  <2>3. t # <<>> /\ t[Len(t)] = End /\ SubSeq(t, 1, Len(t) - 1) = s BY <2>2, Trailer
  <2> HIDE DEF t
  <2> QED BY <2>3 DEF TextOf, Last, Front
<1> QED BY <1>1, <1>3, <1>4, <1>5 DEF s, t

\* m_data and what zlib holds back are at every moment whole lines that were
\* produced one after the other: the reserve of kSafeThreshold is enough for
\* deflate never to drop part of a line.
THEOREM LinesStayWhole ==
  ASSUME ReserveIsEnough
  PROVE  Spec => []NoTornLine
<1>1. TypeInv /\ StreamInv => NoTornLine
  <2> SUFFICES ASSUME TypeInv, StreamInv PROVE IsRun(TextOf(m_data \o held)) BY DEF NoTornLine
  <2>1. PICK a \in 0..line : StreamIs(a) BY DEF StreamInv
  <2>2. line \in Nat /\ a \in Nat /\ a <= line BY ConstantFacts, <2>1 DEF TypeInv
  <2>3. IsRun(Run(a, line)) /\ IsRun(Run(line, line)) BY <2>2, RunIsRun
  <2>4. /\ TextOf(Run(a, line)) = Run(a, line)
        /\ TextOf(Run(a, line) \o <<End>>) = Run(a, line)
        /\ TextOf(Run(line, line)) = Run(line, line)
    BY <2>2, TextOfRun
  <2>5. Run(line, line) = <<>> BY <2>2, RunEmpty
  <2>6. held = <<>> => m_data \o held = m_data BY ConcatEmptySeq DEF TypeInv
  <2>7. \/ m_data \o held = Run(line, line) \/ m_data \o held = Run(a, line)
        \/ m_data \o held = Run(a, line) \o <<End>>
    BY <2>1, <2>5, <2>6 DEF StreamIs
  <2> QED BY <2>3, <2>4, <2>7
<1> QED BY <1>1, StreamAlways, PTL

----------------------------------------------------------------------------
\* The files.

\* The first trailer in data is at n, behind whole lines.
EndsAt(data, n) ==
  /\ n \in 1..Len(data) /\ data[n] = End
  /\ \A k \in 1..(n - 1) : data[k] # End
  /\ IsRun(SubSeq(data, 1, n - 1))

\* A stream is all there is in data, or data begins with one.
Complete(data) == EndsAt(data, Len(data))
Begins(data) == \E n \in Nat : EndsAt(data, n)

\* While every call works there is always a state to finish, and every file
\* holds what was finished.  A tmp is there from dumpCompressFile to rename, and
\* a crash can leave it; what is written over it then may be shorter.
WholeInv ==
  trouble \intersect {"disk", "memory"} = {} =>
    /\ pc \notin {"down", "dump", "reset"} => m_stream
    /\ pc \in {"dump", "reset"} => m_data # <<>>
    /\ \A f \in Names : tmp[f] # NoFile =>
         /\ Begins(tmp[f])
         /\ "crash" \notin trouble => Complete(tmp[f]) /\ f = name /\ pc \in {"reset", "rename"}
    /\ \A k \in DOMAIN published :
         /\ Begins(published[k].data)
         /\ "crash" \notin trouble => Complete(published[k].data)

LEMMA SelectIs ==
  ASSUME NEW data, NEW n, EndsAt(data, n), Len(data) \in Nat
  PROVE  SelectInSeq(data, LAMBDA u : u = End) = n
<1> DEFINE I == {i \in 1..Len(data) : data[i] = End}
<1>1. n \in I /\ n \in Int BY DEF EndsAt
<1>2. \A i \in I : i \in Int /\ n <= i
  <2> SUFFICES ASSUME NEW i \in 1..Len(data), data[i] = End, ~(n <= i) PROVE FALSE BY <1>1
  <2>1. i \in 1..(n - 1) BY <1>1
  <2> QED BY <2>1 DEF EndsAt
<1>3. SelectInSeq(data, LAMBDA u : u = End) = IF I # {} THEN Min(I) ELSE 0
  BY DEF SelectInSeq
<1> HIDE DEF I
<1>4. Min(I) \in I /\ \A i \in I : Min(I) <= i
  <2>1. \E x \in I : \A y \in I : x <= y BY <1>1, <1>2
  <2> QED BY <2>1, Zenon DEF Min
<1>5. Min(I) = n
  <2> DEFINE m == Min(I)
  <2>1. m \in I /\ m <= n BY <1>1, <1>4
  <2> HIDE DEF m
  <2>2. m = n BY <1>1, <1>2, <2>1
  <2> QED BY <2>2 DEF m
<1> QED BY <1>1, <1>3, <1>5

LEMMA RunComplete ==
  ASSUME NEW a \in Nat, NEW b \in Nat, a <= b
  PROVE  Complete(Run(a, b) \o <<End>>)
<1> DEFINE s == Run(a, b)
           t == s \o <<End>>
<1>1. s \in Seq(Int)
  <2>1. s \in Seq((a + 1)..b) BY RunProperties
  <2>2. (a + 1)..b \subseteq Int OBVIOUS
  <2> QED BY ONLY <2>1, <2>2, SeqMonotonic
<1>2. \A k \in 1..Len(s) : s[k] # End BY RunProperties, TextOfRun
<1>3. IsRun(s) BY RunIsRun
<1> HIDE DEF s
<1>4. /\ t \in Seq(Int) /\ Len(t) = Len(s) + 1 /\ Len(s) \in Nat
      /\ t[Len(t)] = End /\ \A k \in 1..Len(s) : t[k] = s[k]
      /\ SubSeq(t, 1, Len(t) - 1) = s
  BY <1>1, Trailer
<1> HIDE DEF t
<1>5. Len(t) \in 1..Len(t) /\ Len(t) - 1 = Len(s) BY <1>4
<1>6. \A k \in 1..(Len(t) - 1) : t[k] # End BY <1>2, <1>4, <1>5
<1>7. IsRun(SubSeq(t, 1, Len(t) - 1)) BY <1>3, <1>4, Zenon
<1>8. EndsAt(t, Len(t)) BY <1>4, <1>5, <1>6, <1>7, Zenon DEF EndsAt
<1> QED BY <1>8 DEF Complete, s, t

\* What stays of an old file behind the stream does not disturb it.
LEMMA OldBehind ==
  ASSUME NEW s \in Seq(Int), NEW t \in Seq(Int), NEW n, EndsAt(s, n)
  PROVE  EndsAt(s \o t, n)
<1> DEFINE w == s \o t
<1>1. /\ n \in 1..Len(s) /\ s[n] = End /\ \A k \in 1..(n - 1) : s[k] # End
      /\ IsRun(SubSeq(s, 1, n - 1)) /\ Len(s) \in Nat /\ Len(t) \in Nat
  BY LenProperties DEF EndsAt
<1>2. /\ w \in Seq(Int) /\ Len(w) = Len(s) + Len(t)
      /\ \A k \in 1..(Len(s) + Len(t)) : w[k] = IF k <= Len(s) THEN s[k] ELSE t[k - Len(s)]
  BY ConcatProperties
<1> HIDE DEF w
<1>3. \A k \in 1..Len(s) : w[k] = s[k]
  <2>1. \A k \in 1..Len(s) : k \in 1..(Len(s) + Len(t)) /\ k <= Len(s) BY <1>1
  <2> QED BY <1>2, <2>1
<1>4. n \in 1..Len(w) /\ n - 1 \in 0..Len(s) /\ n - 1 \in 0..Len(w)
      /\ 1..(n - 1) \subseteq 1..Len(s)
  BY <1>1, <1>2
<1> DEFINE m == n - 1
           x == SubSeq(s, 1, m)
           y == SubSeq(w, 1, m)
<1>5. m \in 0..Len(s) /\ m \in 0..Len(w) /\ 1..m \subseteq 1..Len(s) BY <1>4
<1> HIDE DEF m
<1>6. /\ x \in Seq(Int) /\ Len(x) = m /\ \A k \in 1..m : x[k] = s[k]
  BY <1>5, PrefixOfSeq
<1>7. /\ y \in Seq(Int) /\ Len(y) = m /\ \A k \in 1..m : y[k] = w[k]
  BY <1>2, <1>5, PrefixOfSeq
<1> HIDE DEF x, y
<1>8. x = y
  <2>1. Len(x) = Len(y) /\ \A k \in 1..Len(x) : x[k] = y[k] BY <1>3, <1>5, <1>6, <1>7
  <2> QED BY <1>6, <1>7, <2>1, SeqEqual
<1>9. IsRun(SubSeq(w, 1, n - 1)) BY <1>1, <1>8 DEF x, y, m
<1>10. w[n] = End /\ \A k \in 1..(n - 1) : w[k] # End BY <1>1, <1>3, <1>4
<1> QED BY <1>4, <1>9, <1>10 DEF EndsAt, w

\* What dumpCompressFile writes over an old file of the name, or over none.
LEMMA DumpedBegins ==
  ASSUME TypeInv, NEW old \in Seq(0..MaxLines), Complete(m_data)
  PROVE  Begins(dumped(old)) /\ (old = <<>> => dumped(old) = m_data)
<1> DEFINE rest == SubSeq(old, m_size + 1, Len(old))
<1>1. /\ m_data \in Seq(0..MaxLines) /\ MaxLines \in Nat /\ m_size \in Nat
      /\ Len(old) \in Nat /\ \A k \in 1..Len(old) : old[k] \in 0..MaxLines
  BY ConstantFacts, LenProperties DEF TypeInv, m_size
<1>2. rest \in Seq(0..MaxLines)
  <2>1. \A k \in (m_size + 1)..Len(old) : k \in 1..Len(old) BY <1>1
  <2>2. m_size + 1 \in Int /\ Len(old) \in Int BY <1>1
  <2> QED BY <1>1, <2>1, <2>2, SubSeqProperties
<1>3. old = <<>> => rest = <<>>
  <2> SUFFICES ASSUME old = <<>> PROVE rest = <<>> OBVIOUS
  <2>1. Len(old) = 0 BY EmptySeq
  <2>2. m_size + 1 \in Int /\ Len(old) \in Int /\ Len(old) < m_size + 1 BY <1>1, <2>1
  <2> QED BY <2>2, SubSeqEmpty
<1>4. dumped(old) = m_data \o rest BY DEF dumped
<1> HIDE DEF rest
<1>5. 0..MaxLines \subseteq Int /\ Len(m_data) \in Nat BY <1>1 DEF m_size
<1>6. m_data \in Seq(Int) /\ rest \in Seq(Int) BY ONLY <1>1, <1>2, <1>5, SeqMonotonic
<1>7. EndsAt(m_data \o rest, Len(m_data)) BY <1>6, OldBehind DEF Complete
<1>8. Begins(dumped(old)) BY <1>4, <1>5, <1>7 DEF Begins
<1>9. m_data \o <<>> = m_data BY <1>6, ConcatEmptySeq
<1> QED BY <1>3, <1>4, <1>8, <1>9

\* A step that leaves the files alone.
LEMMA FilesStay ==
  ASSUME WholeInv, UNCHANGED <<tmp, published>>, trouble \subseteq trouble',
         pc' \notin {"down", "dump", "reset"} =>
           m_stream' \/ trouble' \intersect {"disk", "memory"} # {},
         pc' \in {"dump", "reset"} =>
           m_data' # <<>> \/ trouble' \intersect {"disk", "memory"} # {},
         \/ "crash" \in trouble'
         \/ pc \notin {"reset", "rename"}
         \/ name' = name /\ pc' \in {"reset", "rename"}
  PROVE  WholeInv'
<1> SUFFICES ASSUME trouble' \intersect {"disk", "memory"} = {}
             PROVE  WholeInv'
  BY DEF WholeInv
<1>1. trouble \intersect {"disk", "memory"} = {} OBVIOUS
<1>2. "crash" \notin trouble' => "crash" \notin trouble OBVIOUS
<1>3. /\ \A f \in Names : tmp[f] # NoFile =>
           /\ Begins(tmp[f])
           /\ "crash" \notin trouble => Complete(tmp[f]) /\ f = name /\ pc \in {"reset", "rename"}
      /\ \A k \in DOMAIN published :
           /\ Begins(published[k].data)
           /\ "crash" \notin trouble => Complete(published[k].data)
  BY <1>1 DEF WholeInv
<1>4. \A f \in Names : tmp'[f] # NoFile =>
        /\ Begins(tmp'[f])
        /\ "crash" \notin trouble' => Complete(tmp'[f]) /\ f = name' /\ pc' \in {"reset", "rename"}
  BY <1>2, <1>3
<1>5. \A k \in DOMAIN published' :
        /\ Begins(published'[k].data)
        /\ "crash" \notin trouble' => Complete(published'[k].data)
  BY <1>2, <1>3
<1> QED BY <1>4, <1>5 DEF WholeInv

LEMMA WholeStep ==
  ASSUME ReserveIsEnough, TypeInv, ControlInv, StreamInv, WholeInv, [Next]_vars
  PROVE  WholeInv'
<1>1. CASE StartUp
  <2>1. PICK ok \in BOOLEAN : Works("memory", ok) /\ compressInit(ok) BY <1>1 DEF StartUp
  <2>2. /\ pc = "down" /\ pc' = "idle" /\ UNCHANGED <<tmp, published>>
        /\ trouble \subseteq trouble' /\ (ok \/ "memory" \in trouble') /\ m_stream' = ok
    BY <1>1, <2>1 DEF StartUp, Works, compressInit
  <2> QED BY <2>2, FilesStay
<1>2. CASE Crash
  <2>1. pc' = "down" /\ UNCHANGED <<tmp, published>> /\ trouble' = trouble \union {"crash"}
    BY <1>2 DEF Crash
  <2> QED BY <2>1, FilesStay
<1>3. CASE Clear
  <2>1. PICK ok \in BOOLEAN :
          /\ compressReset(ok)
          /\ trouble' = trouble \union {"clear"} \union (IF ok THEN {} ELSE {"memory"})
    BY <1>3 DEF Clear
  <2>2. /\ pc = "idle" /\ pc' = "idle" /\ UNCHANGED <<tmp, published>>
        /\ trouble \subseteq trouble' /\ (ok \/ "memory" \in trouble')
        /\ (ok => m_stream')
    BY <1>3, <2>1, ResetProperties DEF Clear
  <2>3. m_stream' \/ trouble' \intersect {"disk", "memory"} # {} BY <2>2
  <2> QED BY <2>2, <2>3, FilesStay
\* A step that leaves the stream alone.
<1>4. ASSUME UNCHANGED <<gzipVars, tmp, published, trouble>>,
             pc' \in {"dump", "reset", "down"} <=> pc \in {"dump", "reset", "down"},
             pc' \in {"dump", "reset"} <=> pc \in {"dump", "reset"},
             pc \notin {"reset", "rename"} \/ (name' = name /\ pc' = pc)
      PROVE  WholeInv'
  <2>1. m_stream' = m_stream /\ m_data' = m_data BY <1>4 DEF gzipVars
  <2>2. pc' \notin {"down", "dump", "reset"} =>
          m_stream' \/ trouble' \intersect {"disk", "memory"} # {}
    BY <1>4, <2>1 DEF WholeInv
  <2>3. pc' \in {"dump", "reset"} =>
          m_data' # <<>> \/ trouble' \intersect {"disk", "memory"} # {}
    BY <1>4, <2>1 DEF WholeInv
  <2> QED BY <1>4, <2>2, <2>3, FilesStay
<1>5. CASE Tick BY <1>4, <1>5 DEF Tick, passVars, name
<1>6. CASE CheckRotate BY <1>4, <1>6 DEF CheckRotate
<1>7. CASE PassEnd BY <1>4, <1>7 DEF PassEnd
<1>8. CASE UNCHANGED vars BY <1>4, <1>8 DEF vars, passVars, name
<1>9. CASE Each \/ WriteAfter
  <2>1. /\ pc \in {"each", "write"} /\ pc' = "each" /\ m_stream' = m_stream
        /\ UNCHANGED <<tmp, published, trouble>>
    BY <1>9, LineStream DEF Each, WriteAfter
  <2>2. m_stream' \/ trouble' \intersect {"disk", "memory"} # {} BY <2>1 DEF WholeInv
  <2> QED BY <2>1, <2>2, FilesStay
<1>10. CASE Finish
  <2>1. /\ pc = "each" /\ pc' = "dump" /\ UNCHANGED <<tmp, published, trouble>>
        /\ m_stream => m_data' # <<>>
    BY <1>10, FinishStream DEF Finish
  <2>2. m_data' # <<>> \/ trouble' \intersect {"disk", "memory"} # {} BY <2>1 DEF WholeInv
  <2> QED BY <2>1, <2>2, FilesStay
<1>11. CASE Reset
  <2>1. PICK ok \in BOOLEAN : Works("memory", ok) /\ compressReset(ok) BY <1>11 DEF Reset
  <2>2. /\ pc = "reset" /\ pc' = "rename" /\ name' = name /\ UNCHANGED <<tmp, published>>
        /\ trouble \subseteq trouble' /\ (ok \/ "memory" \in trouble')
        /\ (ok => m_stream')
    BY <1>11, <2>1, ResetProperties DEF Reset, Works, passVars, name
  <2>3. m_stream' \/ trouble' \intersect {"disk", "memory"} # {} BY <2>2
  <2> QED BY <2>2, <2>3, FilesStay
<1> SUFFICES ASSUME trouble' \intersect {"disk", "memory"} = {}, Dump \/ Rename
             PROVE  WholeInv'
  BY <1>1, <1>2, <1>3, <1>5, <1>6, <1>7, <1>8, <1>9, <1>10, <1>11 DEF Next, WholeInv
<1>12. CASE Dump
  <2>1. /\ pc = "dump" /\ pc' = "reset" /\ name' = name /\ m_data' = m_data /\ published' = published
    BY <1>12 DEF Dump, gzipVars, passVars, name
  <2>2. /\ \A f \in Names : f # name => tmp'[f] = tmp[f]
        /\ trouble' = trouble
        /\ tmp'[name] = dumped(IF tmp[name] = NoFile THEN <<>> ELSE tmp[name])
    BY <1>12, DumpProperties
  <2>3. /\ m_data # <<>> /\ name \in Names
        /\ \A f \in Names : tmp[f] # NoFile =>
             /\ Begins(tmp[f])
             /\ "crash" \notin trouble => Complete(tmp[f]) /\ f = name /\ pc \in {"reset", "rename"}
        /\ \A k \in DOMAIN published :
             /\ Begins(published[k].data)
             /\ "crash" \notin trouble => Complete(published[k].data)
    BY <2>1, <2>2, NameType DEF WholeInv
  <2>4. Complete(m_data)
    <3>1. PICK a \in 0..line : StreamIs(a) BY DEF StreamInv
    <3>2. m_data = Run(a, line) \o <<End>> BY <2>1, <2>3, <3>1 DEF StreamIs
    <3>3. line \in Nat /\ a \in Nat /\ a <= line BY ConstantFacts, <3>1 DEF TypeInv
    <3> QED BY <3>2, <3>3, RunComplete
  <2> DEFINE old == IF tmp[name] = NoFile THEN <<>> ELSE tmp[name]
  <2>5. old \in Seq(0..MaxLines)
    <3>1. tmp[name] \in Content BY <2>3 DEF TypeInv
    <3>2. <<>> \in Seq(0..MaxLines) OBVIOUS
    <3> QED BY <3>1, <3>2, Zenon DEF Content
  <2>6. "crash" \notin trouble => old = <<>> BY <2>1, <2>3
  <2>7. tmp'[name] = dumped(old) BY <2>2
  <2> HIDE DEF old
  <2>8. Begins(tmp'[name]) /\ ("crash" \notin trouble => Complete(tmp'[name]))
    BY <2>4, <2>5, <2>6, <2>7, DumpedBegins
  <2>9. \A f \in Names : tmp'[f] # NoFile =>
          /\ Begins(tmp'[f])
          /\ "crash" \notin trouble' => Complete(tmp'[f]) /\ f = name' /\ pc' \in {"reset", "rename"}
    <3> SUFFICES ASSUME NEW f \in Names, tmp'[f] # NoFile
                 PROVE  /\ Begins(tmp'[f])
                        /\ "crash" \notin trouble => Complete(tmp'[f]) /\ f = name
      BY <2>1, <2>2
    <3>1. CASE f = name BY <2>8, <3>1
    <3>2. CASE f # name BY <2>1, <2>2, <2>3, <3>2
    <3> QED BY <3>1, <3>2
  <2>10. \A k \in DOMAIN published' :
           /\ Begins(published'[k].data)
           /\ "crash" \notin trouble' => Complete(published'[k].data)
    BY <2>1, <2>2, <2>3
  <2> QED BY <2>1, <2>3, <2>9, <2>10 DEF WholeInv
<1>13. CASE Rename
  <2>1. pc = "rename" /\ pc' \in {"write", "idle"} /\ m_stream' = m_stream
    BY <1>13 DEF Rename, gzipVars
  <2>2. /\ \A f \in Names : tmp'[f] \in {tmp[f], NoFile}
        /\ name \in Names /\ published' \in Seq(FileRecord)
        /\ tmp'[name] = NoFile /\ trouble' \in {trouble, trouble \union {"clash"}}
        /\ \/ published' = published
           \/ /\ tmp[name] # NoFile
              /\ \E s \in Seq(FileRecord) :
                   /\ published' = Append(s, [name |-> name, data |-> tmp[name]])
                   /\ \A k \in DOMAIN s : \E n \in DOMAIN published : s[k] = published[n]
    <3>1. published \in Seq(FileRecord) BY DEF TypeInv
    <3>2. \A k \in DOMAIN published : \E n \in DOMAIN published : published[k] = published[n]
      OBVIOUS
    <3> QED BY <1>13, <3>1, <3>2, RenameProperties
  <2>3. /\ m_stream
        /\ \A f \in Names : tmp[f] # NoFile =>
             /\ Begins(tmp[f])
             /\ "crash" \notin trouble => Complete(tmp[f]) /\ f = name /\ pc \in {"reset", "rename"}
        /\ \A k \in DOMAIN published :
             /\ Begins(published[k].data)
             /\ "crash" \notin trouble => Complete(published[k].data)
    BY <2>1, <2>2 DEF WholeInv
  <2>4. "crash" \notin trouble' => "crash" \notin trouble BY <2>2
  <2>5. \A f \in Names : tmp'[f] # NoFile =>
          Begins(tmp'[f]) /\ "crash" \in trouble'
    <3> SUFFICES ASSUME NEW f \in Names, tmp'[f] # NoFile
                 PROVE  Begins(tmp'[f]) /\ "crash" \in trouble'
      OBVIOUS
    <3>1. tmp'[f] = tmp[f] /\ f # name BY <2>2
    <3> QED BY <2>3, <2>4, <3>1
  <2>6. \A k \in DOMAIN published' :
          /\ Begins(published'[k].data)
          /\ "crash" \notin trouble' => Complete(published'[k].data)
    <3>1. CASE published' = published BY <2>3, <2>4, <3>1
    <3>2. CASE published' # published
      <4> DEFINE new == [name |-> name, data |-> tmp[name]]
      <4>1. new \in FileRecord
        <5>1. tmp[name] \in Content BY <2>2 DEF TypeInv
        <5>2. tmp[name] \in Seq(0..MaxLines) BY <2>2, <3>2, <5>1, Zenon DEF Content
        <5> QED BY <2>2, <5>2 DEF FileRecord
      <4>2. PICK s \in Seq(FileRecord) :
              /\ published' = Append(s, new)
              /\ \A k \in DOMAIN s : \E n \in DOMAIN published : s[k] = published[n]
        BY <2>2, <3>2
      <4>3. new.data = tmp[name] OBVIOUS
      <4> HIDE DEF new
      <4>4. /\ Len(s) \in Nat /\ DOMAIN s = 1..Len(s) /\ Len(published') = Len(s) + 1
            /\ DOMAIN published' = 1..Len(published')
            /\ published'[Len(s) + 1] = new /\ \A k \in 1..Len(s) : published'[k] = s[k]
        BY <2>2, <4>1, <4>2, AppendProperties, LenProperties
      <4> SUFFICES ASSUME NEW k \in DOMAIN published'
                   PROVE  /\ Begins(published'[k].data)
                          /\ "crash" \notin trouble' => Complete(published'[k].data)
        OBVIOUS
      <4>5. CASE k = Len(s) + 1 BY <2>2, <2>3, <2>4, <3>2, <4>3, <4>4, <4>5
      <4>6. CASE k # Len(s) + 1
        <5>1. k \in DOMAIN s BY <4>4, <4>6
        <5>2. PICK n \in DOMAIN published : s[k] = published[n] BY <4>2, <5>1
        <5>3. published'[k] = published[n] BY <4>4, <5>1, <5>2
        <5> QED BY <2>3, <2>4, <5>3
      <4> QED BY <4>5, <4>6
    <3> QED BY <3>1, <3>2
  <2> QED BY <2>1, <2>3, <2>5, <2>6 DEF WholeInv
<1> QED BY <1>12, <1>13

\* outputFile never renames a cut stream into place: while open, write and the
\* allocations work, every published file begins with whole lines and their
\* trailer, wherever the process died, and without a crash that is all of it.
THEOREM PublishedAreWhole ==
  ASSUME ReserveIsEnough
  PROVE  Spec => []PublishedWhole
<1>1. Init => WholeInv
  <2> SUFFICES ASSUME Init PROVE WholeInv OBVIOUS
  <2>1. pc = "down" /\ tmp = [f \in Names |-> NoFile] /\ published = <<>> BY DEF Init
  <2>2. DOMAIN published = {} BY <2>1
  <2> QED BY <2>1, <2>2 DEF WholeInv
<1>2. TypeInv /\ ControlInv /\ StreamInv /\ WholeInv /\ [Next]_vars => WholeInv' BY WholeStep
<1>3. TypeInv /\ WholeInv => PublishedWhole
  <2> SUFFICES ASSUME TypeInv, WholeInv, trouble \intersect {"disk", "memory"} = {},
                      NEW k \in DOMAIN published
               PROVE  LET data == published[k].data
                          at == SelectInSeq(data, LAMBDA u : u = End)
                      IN /\ at > 0 /\ IsRun(SubSeq(data, 1, at - 1))
                         /\ "crash" \notin trouble => at = Len(data)
    BY DEF PublishedWhole
  <2> DEFINE data == published[k].data
             at == SelectInSeq(data, LAMBDA u : u = End)
  <2>1. data \in Seq(0..MaxLines)
    <3>1. published \in Seq(FileRecord) BY DEF TypeInv
    <3>2. published[k] \in FileRecord BY <3>1
    <3> QED BY <3>2 DEF FileRecord
  <2>2. Begins(data) /\ ("crash" \notin trouble => Complete(data)) BY DEF WholeInv
  <2> HIDE DEF data
  <2>3. Len(data) \in Nat BY <2>1, LenProperties
  <2>4. PICK n \in Nat : EndsAt(data, n) BY <2>2 DEF Begins
  <2>5. at = n BY <2>3, <2>4, SelectIs
  <2>6. "crash" \notin trouble => at = Len(data) BY <2>2, <2>3, SelectIs DEF Complete
  <2> HIDE DEF at
  <2>7. at > 0 /\ IsRun(SubSeq(data, 1, at - 1)) BY <2>4, <2>5 DEF EndsAt
  <2> QED BY <2>6, <2>7 DEF data, at
<1> QED BY <1>1, <1>2, <1>3, StreamAlways, PTL DEF Spec

----------------------------------------------------------------------------
\* The lines.

\* The texts are whole lines, later ones later lines, together 1..b.
Ordered(texts, b) ==
  /\ \A k \in DOMAIN texts : IsRun(texts[k])
  /\ \A k, n \in DOMAIN texts :
       k < n => \A x \in ToSet(texts[k]), y \in ToSet(texts[n]) : x < y
  /\ UNION {ToSet(texts[k]) : k \in DOMAIN texts} = 1..b

Filed == [k \in DOMAIN published |-> TextOf(published[k].data)]

\* The files hold the lines up to b; the lines after it are in the stream, or in
\* the tmp between compressReset and rename.
OrderInv ==
  trouble = {} =>
    \E b \in 0..line :
      /\ Ordered(Filed, b)
      /\ pc = "reset" => tmp[name] = m_data
      /\ IF pc = "rename" THEN tmp[name] = Run(b, line) \o <<End>> ELSE StreamIs(b)

LEMMA OrderedAppend ==
  ASSUME NEW S, NEW P \in Seq(S), NEW Q \in S, NEW b \in Nat, NEW c \in Nat, b <= c,
         Ordered(P, b), IsRun(Q), ToSet(Q) = (b + 1)..c
  PROVE  Ordered(Append(P, Q), c)
<1> DEFINE R == Append(P, Q)
           n == Len(P)
<1>1. /\ n \in Nat /\ DOMAIN P = 1..n /\ DOMAIN R = 1..(n + 1)
      /\ \A k \in 1..n : R[k] = P[k] /\ R[n + 1] = Q
  BY AppendProperties, LenProperties
<1>2. R[n + 1] = Q BY AppendProperties
<1>3. /\ \A k \in 1..n : IsRun(P[k])
      /\ \A k, i \in 1..n : k < i => \A x \in ToSet(P[k]), y \in ToSet(P[i]) : x < y
      /\ UNION {ToSet(P[k]) : k \in 1..n} = 1..b
  BY <1>1 DEF Ordered
<1> HIDE DEF R, n
<1>4. DOMAIN R = 1..n \union {n + 1} BY <1>1
<1>5. \A k \in DOMAIN R : IsRun(R[k]) BY <1>1, <1>2, <1>3, <1>4
<1>6. ASSUME NEW k \in DOMAIN R, NEW i \in DOMAIN R, k < i,
             NEW x \in ToSet(R[k]), NEW y \in ToSet(R[i])
      PROVE  x < y
  <2>1. k \in 1..n BY <1>1, <1>6
  <2>2. x \in ToSet(P[k]) BY <1>1, <1>6, <2>1
  <2>3. CASE i \in 1..n
    <3>1. y \in ToSet(P[i]) BY <1>1, <1>6, <2>3
    <3> QED BY <1>3, <1>6, <2>1, <2>2, <2>3, <3>1
  <2>4. CASE i = n + 1
    <3>1. y \in (b + 1)..c BY <1>2, <1>6, <2>4
    <3>2. x \in 1..b BY <1>3, <2>1, <2>2
    <3> QED BY <3>1, <3>2
  <2> QED BY <1>4, <2>3, <2>4
<1>7. UNION {ToSet(R[k]) : k \in DOMAIN R} = 1..c
  <2>1. ASSUME NEW k \in DOMAIN R, NEW x \in ToSet(R[k]) PROVE x \in 1..c
    <3>1. CASE k \in 1..n
      <4>1. x \in ToSet(P[k]) BY <1>1, <2>1, <3>1
      <4>2. x \in 1..b BY <1>3, <3>1, <4>1
      <4> QED BY <4>2
    <3>2. CASE k = n + 1
      <4>1. x \in (b + 1)..c BY <1>2, <2>1, <3>2
      <4> QED BY <4>1
    <3> QED BY <1>4, <3>1, <3>2
  <2>2. ASSUME NEW x \in 1..c PROVE \E k \in DOMAIN R : x \in ToSet(R[k])
    <3>1. CASE x <= b
      <4>1. x \in 1..b BY <3>1
      <4>2. PICK k \in 1..n : x \in ToSet(P[k])
        <5>1. x \in UNION {ToSet(P[k]) : k \in 1..n} BY ONLY <1>3, <4>1, Zenon
        <5> QED BY ONLY <5>1, Zenon
      <4>3. k \in DOMAIN R /\ R[k] = P[k] BY <1>1, <1>4, <4>2
      <4> QED BY <4>2, <4>3
    <3>2. CASE ~(x <= b)
      <4>1. x \in (b + 1)..c BY <3>2
      <4> QED BY <1>2, <1>4, <4>1
    <3> QED BY <3>1, <3>2
  <2> QED BY <2>1, <2>2
<1>8. \A k, i \in DOMAIN R : k < i => \A x \in ToSet(R[k]), y \in ToSet(R[i]) : x < y
  BY <1>6
<1>9. Ordered(R, c) BY <1>5, <1>7, <1>8 DEF Ordered
<1> QED BY <1>9 DEF R

LEMMA TextType ==
  ASSUME NEW S, NEW data \in Seq(S)
  PROVE  TextOf(data) \in Seq(S)
<1>1. CASE data # <<>> /\ Last(data) = End
  <2>1. Len(data) \in Nat /\ Len(data) # 0 BY <1>1, EmptySeq, LenProperties
  <2>2. Len(data) - 1 \in 0..Len(data) BY <2>1
  <2>3. Front(data) \in Seq(S) BY <2>2, PrefixOfSeq DEF Front
  <2> QED BY <1>1, <2>3 DEF TextOf
<1>2. CASE ~(data # <<>> /\ Last(data) = End) BY <1>2 DEF TextOf
<1> QED BY <1>1, <1>2

LEMMA FiledType == ASSUME TypeInv PROVE Filed \in Seq(Seq(0..MaxLines))
<1> DEFINE n == Len(published)
<1>1. published \in Seq(FileRecord) BY DEF TypeInv
<1>2. n \in Nat /\ DOMAIN published = 1..n BY <1>1, LenProperties
<1>3. ASSUME NEW k \in 1..n PROVE TextOf(published[k].data) \in Seq(0..MaxLines)
  <2>1. published[k] \in FileRecord BY <1>1, <1>2
  <2>2. published[k].data \in Seq(0..MaxLines) BY <2>1 DEF FileRecord
  <2> QED BY <2>2, TextType
<1> HIDE DEF n
<1>4. Filed \in [1..n -> Seq(0..MaxLines)] BY <1>2, <1>3 DEF Filed
<1> QED BY <1>2, <1>4

\* A finished stream is not the mark of a missing file.
LEMMA RunIsFile ==
  ASSUME NEW a \in Nat, NEW b \in Nat, a <= b
  PROVE  Run(a, b) \o <<End>> # NoFile /\ Run(a, b) \o <<End>> # <<>>
<1> DEFINE t == Run(a, b) \o <<End>>
<1>1. EndsAt(t, Len(t)) BY RunComplete DEF Complete
<1> HIDE DEF t
<1>2. Len(t) \in 1..Len(t) /\ t[Len(t)] = 0 BY <1>1 DEF EndsAt, End
<1>3. Len(<<-1>>) = 1 /\ <<-1>>[1] = -1 /\ Len(<<>>) = 0 BY EmptySeq
<1>4. t # <<-1>>
  <2> SUFFICES ASSUME t = <<-1>> PROVE FALSE OBVIOUS
  <2>1. t[1] = -1 /\ Len(t) = 1 BY <1>3
  <2> QED BY <1>2, <2>1
<1>5. t # <<>> BY <1>2, <1>3
<1> QED BY <1>4, <1>5 DEF t, NoFile

\* A step that leaves the files that are in place alone.
LEMMA FiledStays ==
  ASSUME published' = published, NEW b \in 0..line', Ordered(Filed, b),
         pc' = "reset" => tmp'[name'] = m_data',
         IF pc' = "rename" THEN tmp'[name'] = Run(b, line') \o <<End>> ELSE StreamIs(b)'
  PROVE  OrderInv'
<1>1. Filed' = Filed BY DEF Filed
<1>2. Ordered(Filed', b) BY <1>1
<1> QED BY <1>2 DEF OrderInv

LEMMA OrderStep ==
  ASSUME ReserveIsEnough, TypeInv, ControlInv, StreamInv, WholeInv, OrderInv, [Next]_vars
  PROVE  OrderInv'
<1> SUFFICES ASSUME trouble' = {} PROVE OrderInv' BY DEF OrderInv
<1>0. /\ line \in Nat /\ <<>> \o <<>> = <<>> /\ name \in Names
      /\ trouble' \intersect {"disk", "memory"} = {}
  BY ConstantFacts, ConcatEmptySeq, EmptySeq, NameType DEF TypeInv
<1> DEFINE Holds(b) ==
      /\ b \in 0..line /\ b \in Nat /\ b <= line /\ Ordered(Filed, b)
      /\ pc = "reset" => tmp[name] = m_data
      /\ IF pc = "rename" THEN tmp[name] = Run(b, line) \o <<End>> ELSE StreamIs(b)
<1>1. ASSUME trouble = {} PROVE \E b \in Nat : Holds(b)
  <2>1. PICK b \in 0..line :
          /\ Ordered(Filed, b)
          /\ pc = "reset" => tmp[name] = m_data
          /\ IF pc = "rename" THEN tmp[name] = Run(b, line) \o <<End>> ELSE StreamIs(b)
    BY <1>1 DEF OrderInv
  <2>2. b \in Nat /\ b <= line BY <1>0
  <2> QED BY <2>1, <2>2
\* A step that leaves the stream empty, as it was.
<1>2. ASSUME trouble' = trouble, UNCHANGED <<line, published>>,
             m_data = <<>>, held = <<>>, m_data' = <<>>, held' = <<>>,
             pc \notin {"dump", "reset", "rename"}, pc' \notin {"dump", "reset", "rename"}
      PROVE  OrderInv'
  <2>1. PICK b \in Nat : Holds(b) BY <1>1, <1>2
  <2>2. m_data \o held = Run(b, line) BY <1>2, <2>1 DEF StreamIs
  <2>3. StreamIs(b)' BY <1>2, <2>2 DEF StreamIs
  <2>4. b \in 0..line' BY <1>2, <2>1
  <2> QED BY <1>2, <2>1, <2>3, <2>4, FiledStays
\* A step that leaves the stream alone.
<1>3. ASSUME UNCHANGED <<gzipVars, line, tmp, published, trouble>>,
             \/ name' = name /\ pc' = pc
             \/ pc \in {"idle", "each"} /\ pc' \in {"idle", "each"}
      PROVE  OrderInv'
  <2>1. PICK b \in Nat : Holds(b) BY <1>1, <1>3
  <2>2. b \in 0..line' BY <1>3, <2>1
  <2>3. StreamIs(b) => StreamIs(b)' BY <1>3 DEF StreamIs, gzipVars
  <2>4. pc' = "reset" => tmp'[name'] = m_data' BY <1>3, <2>1 DEF gzipVars
  <2>5. IF pc' = "rename" THEN tmp'[name'] = Run(b, line') \o <<End>> ELSE StreamIs(b)'
    BY <1>3, <2>1, <2>3
  <2> QED BY <1>3, <2>1, <2>2, <2>4, <2>5, FiledStays
<1>4. CASE StartUp
  <2>1. /\ pc = "down" /\ pc' = "idle" /\ m_data' = <<>> /\ held' = <<>>
        /\ UNCHANGED <<line, published>> /\ trouble \subseteq trouble'
    BY <1>4 DEF StartUp, compressInit, Works
  <2>2. trouble' = trouble BY <2>1
  <2>3. m_data = <<>> /\ held = <<>> BY <2>1 DEF StreamInv, RoomInv
  <2> QED BY <1>2, <2>1, <2>2, <2>3
<1>5. CASE Crash \/ Clear
  <2>1. "crash" \in trouble' \/ "clear" \in trouble' BY <1>5 DEF Crash, Clear
  <2> QED BY <2>1
<1>6. CASE Tick BY <1>3, <1>6 DEF Tick, passVars, name
<1>7. CASE CheckRotate BY <1>3, <1>7 DEF CheckRotate
<1>8. CASE PassEnd BY <1>3, <1>8 DEF PassEnd
<1>9. CASE UNCHANGED vars BY <1>3, <1>9 DEF vars, passVars, name
<1>10. CASE Each \/ WriteAfter
  <2>1. /\ pc \in {"each", "write"} /\ pc' = "each" /\ line' = line + 1
        /\ published' = published /\ trouble' = trouble
    BY <1>10, LineStream DEF Each, WriteAfter
  <2>2. m_stream BY <1>0, <2>1 DEF WholeInv
  <2>3. PICK b \in Nat : Holds(b) BY <1>1, <2>1
  <2>4. StreamIs(b) BY <2>1, <2>3
  <2>5. StreamIs(b)' BY <1>10, <2>2, <2>3, <2>4, LineStream
  <2>6. b \in 0..line' BY <1>0, <2>1, <2>3
  <2> QED BY <2>1, <2>3, <2>5, <2>6, FiledStays
<1>11. CASE Finish
  <2>1. /\ pc = "each" /\ pc' = "dump" /\ line' = line
        /\ published' = published /\ trouble' = trouble
    BY <1>11, FinishStream DEF Finish
  <2>2. PICK b \in Nat : Holds(b) BY <1>1, <2>1
  <2>3. StreamIs(b) BY <2>1, <2>2
  <2>4. StreamIs(b)' BY <1>11, <2>2, <2>3, FinishStream
  <2>5. b \in 0..line' BY <2>1, <2>2
  <2> QED BY <2>1, <2>2, <2>4, <2>5, FiledStays
<1>12. CASE Dump
  <2>1. /\ pc = "dump" /\ pc' = "reset" /\ name' = name /\ line' = line
        /\ m_data' = m_data /\ held' = held /\ published' = published
    BY <1>12 DEF Dump, gzipVars, passVars, name
  <2>2. trouble' = trouble /\ tmp'[name] = dumped(IF tmp[name] = NoFile THEN <<>> ELSE tmp[name])
    BY <1>12, DumpProperties
  <2>3. PICK b \in Nat : Holds(b) BY <1>1, <2>2
  <2>4. m_data # <<>> /\ tmp[name] = NoFile BY <1>0, <2>1, <2>2 DEF WholeInv
  <2>5. m_data = Run(b, line) \o <<End>> BY <2>1, <2>3, <2>4 DEF StreamIs
  <2>6. Complete(m_data) BY <1>0, <2>3, <2>5, RunComplete
  <2>7. <<>> \in Seq(0..MaxLines) OBVIOUS
  <2>8. dumped(<<>>) = m_data BY <2>6, <2>7, DumpedBegins
  <2>9. tmp'[name'] = m_data' BY <2>1, <2>2, <2>4, <2>8
  <2>10. StreamIs(b)' BY <2>1, <2>3 DEF StreamIs
  <2>11. b \in 0..line' BY <2>1, <2>3
  <2> QED BY <2>1, <2>3, <2>9, <2>10, <2>11, FiledStays
<1>13. CASE Reset
  <2>1. /\ pc = "reset" /\ pc' = "rename" /\ name' = name
        /\ UNCHANGED <<line, tmp, published>> /\ trouble \subseteq trouble'
    BY <1>13 DEF Reset, Works, passVars, name
  <2>2. trouble' = trouble BY <2>1
  <2>3. PICK b \in Nat : Holds(b) BY <1>1, <2>2
  <2>4. m_data # <<>> BY <1>0, <2>1, <2>2 DEF WholeInv
  <2>5. m_data = Run(b, line) \o <<End>> /\ tmp[name] = m_data
    BY <2>1, <2>3, <2>4 DEF StreamIs
  <2>6. tmp'[name'] = Run(b, line') \o <<End>> BY <2>1, <2>5
  <2>7. b \in 0..line' BY <2>1, <2>3
  <2> QED BY <2>1, <2>3, <2>6, <2>7, FiledStays
<1>14. CASE Rename
  <2>1. /\ pc = "rename" /\ pc' \in {"write", "idle"} /\ UNCHANGED <<line, m_data, held>>
    BY <1>14 DEF Rename, gzipVars
  <2>2. trouble \subseteq trouble' BY <1>14, RenameProperties
  <2>3. PICK b \in Nat : Holds(b) BY <1>1, <2>2
  <2>4. tmp[name] = Run(b, line) \o <<End>> BY <2>1, <2>3
  <2>5. tmp[name] # NoFile BY <1>0, <2>3, <2>4, RunIsFile
  <2> DEFINE new == [name |-> name, data |-> tmp[name]]
  <2>6. /\ published' = Append(published, new)
        /\ tmp[name] \in Seq(0..MaxLines)
    <3>1. "clash" \notin trouble' OBVIOUS
    <3> QED BY <1>14, <2>5, <3>1, RenameProperties
  <2>7. TextOf(tmp[name]) = Run(b, line) BY <1>0, <2>3, <2>4, TextOfRun
  <2>8. Run(b, line) \in Seq(0..MaxLines) BY <2>6, <2>7, TextType
  <2>9. Filed' = Append(Filed, Run(b, line))
    <3> DEFINE n == Len(published)
               R == Append(Filed, Run(b, line))
    <3>1. published \in Seq(FileRecord) /\ Filed \in Seq(Seq(0..MaxLines)) /\ new \in FileRecord
      <4>1. new \in FileRecord BY <1>0, <2>6 DEF FileRecord
      <4> QED BY <4>1, FiledType DEF TypeInv
    <3>2. new.data = tmp[name] OBVIOUS
    <3> HIDE DEF new
    <3>3. /\ n \in Nat /\ DOMAIN published = 1..n /\ DOMAIN published' = 1..(n + 1)
          /\ \A k \in 1..n : published'[k] = published[k]
      BY <2>6, <3>1, AppendProperties, LenProperties
    <3>4. published'[n + 1] = new BY <2>6, <3>1, AppendProperties
    <3>5. DOMAIN Filed = 1..n /\ Len(Filed) = n
      <4>1. DOMAIN Filed = 1..n BY <3>3 DEF Filed
      <4>2. DOMAIN Filed = 1..Len(Filed) /\ Len(Filed) \in Nat BY <3>1, LenProperties
      <4> QED BY <3>3, <4>1, <4>2
    <3>6. /\ DOMAIN R = 1..(n + 1) /\ R[n + 1] = Run(b, line)
          /\ \A k \in 1..n : R[k] = Filed[k]
          /\ R \in Seq(Seq(0..MaxLines)) /\ Len(R) = n + 1
      BY <2>8, <3>1, <3>3, <3>5, AppendProperties, LenProperties
    <3>7. Filed' = [k \in 1..(n + 1) |-> TextOf(published'[k].data)] BY <3>3 DEF Filed
    <3>8. Filed = [k \in 1..n |-> TextOf(published[k].data)] BY <3>3 DEF Filed
    <3>9. ASSUME NEW k \in 1..(n + 1) PROVE R[k] = TextOf(published'[k].data)
      <4>1. CASE k = n + 1 BY <2>7, <3>2, <3>4, <3>6, <4>1
      <4>2. CASE k # n + 1
        <5>1. k \in 1..n BY <3>3, <4>2
        <5> QED BY <3>3, <3>6, <3>8, <5>1
      <4> QED BY <4>1, <4>2
    <3> HIDE DEF n, R
    <3>10. R = [k \in 1..(n + 1) |-> R[k]] BY <3>6
    <3>11. R = [k \in 1..(n + 1) |-> TextOf(published'[k].data)] BY <3>9, <3>10, Zenon
    <3> QED BY <3>7, <3>11 DEF R
  <2>10. Ordered(Filed', line)
    <3>1. Filed \in Seq(Seq(0..MaxLines)) BY FiledType
    <3>2. IsRun(Run(b, line)) /\ ToSet(Run(b, line)) = (b + 1)..line
      BY <1>0, <2>3, RunIsRun
    <3>3. Ordered(Append(Filed, Run(b, line)), line)
      BY <1>0, <2>3, <2>8, <3>1, <3>2, OrderedAppend
    <3> QED BY <2>9, <3>3
  <2>11. PICK c \in Nat : c = line BY <1>0
  <2>12. StreamIs(c)'
    <3>1. m_data' = <<>> /\ held' = <<>> BY <2>1 DEF StreamInv, RoomInv
    <3>2. Run(c, c) = <<>> BY RunEmpty
    <3> QED BY <1>0, <2>1, <2>11, <3>1, <3>2 DEF StreamIs
  <2>13. c \in 0..line' /\ Ordered(Filed', c) BY <2>1, <2>10, <2>11
  <2> QED BY <2>1, <2>12, <2>13 DEF OrderInv
<1> QED BY <1>4, <1>5, <1>6, <1>7, <1>8, <1>9, <1>10, <1>11, <1>12, <1>13, <1>14 DEF Next

LEMMA AppendTwo ==
  ASSUME NEW S, NEW P \in Seq(S), NEW x \in S, NEW y \in S
  PROVE  P \o <<x, y>> = Append(Append(P, x), y)
<1> DEFINE n == Len(P)
           t == <<x, y>>
           L == P \o t
           R1 == Append(P, x)
           R == Append(R1, y)
<1>1. n \in Nat /\ t \in Seq(S) /\ Len(t) = 2 /\ t[1] = x /\ t[2] = y
  BY LenProperties
<1>2. /\ L \in Seq(S) /\ Len(L) = n + 2
      /\ \A k \in 1..(n + 2) : L[k] = IF k <= n THEN P[k] ELSE t[k - n]
  BY <1>1, ConcatProperties
<1>3. /\ R1 \in Seq(S) /\ Len(R1) = n + 1 /\ R1[n + 1] = x
      /\ \A k \in 1..n : R1[k] = P[k]
  BY AppendProperties
<1>4. /\ R \in Seq(S) /\ Len(R) = Len(R1) + 1 /\ R[Len(R1) + 1] = y
      /\ \A k \in 1..Len(R1) : R[k] = R1[k]
  BY <1>3, AppendProperties
<1> HIDE DEF n, t, L, R1, R
<1>5. ASSUME NEW k \in 1..(n + 2) PROVE L[k] = R[k]
  <2>1. CASE k <= n
    <3>1. k \in 1..n /\ k \in 1..Len(R1) BY <1>1, <1>3, <2>1
    <3> QED BY <1>2, <1>3, <1>4, <2>1, <3>1
  <2>2. CASE k = n + 1
    <3>1. k \in 1..Len(R1) /\ ~(k <= n) /\ k - n = 1 BY <1>1, <1>3, <2>2
    <3>2. L[k] = x BY <1>1, <1>2, <3>1
    <3> QED BY <1>3, <1>4, <2>2, <3>1, <3>2
  <2>3. CASE k = n + 2
    <3>1. k = Len(R1) + 1 /\ ~(k <= n) /\ k - n = 2 BY <1>1, <1>3, <2>3
    <3>2. L[k] = y BY <1>1, <1>2, <3>1
    <3> QED BY <1>4, <3>1, <3>2
  <2> QED BY <1>1, <2>1, <2>2, <2>3
<1>6. Len(L) = n + 2 /\ Len(R) = n + 2 BY <1>1, <1>2, <1>3, <1>4
<1>7. L = R BY <1>2, <1>4, <1>5, <1>6, SeqEqual
<1> QED BY <1>7 DEF L, R, R1, t

\* While nothing fails and no two files share a name, the published files, the
\* file on its way to rename and the stream are every line produced so far, each
\* in its place: no line is lost, doubled, cut or moved by outputFile's calls.
THEOREM LinesInOrder ==
  ASSUME ReserveIsEnough
  PROVE  Spec => []InOrder
<1>1. Init => WholeInv /\ OrderInv
  <2> SUFFICES ASSUME Init PROVE WholeInv /\ OrderInv OBVIOUS
  <2>1. /\ pc = "down" /\ tmp = [f \in Names |-> NoFile] /\ published = <<>>
        /\ m_data = <<>> /\ held = <<>> /\ line = 0
    BY DEF Init, GzipInit
  <2>2. DOMAIN published = {} BY <2>1
  <2>3. WholeInv BY <2>1, <2>2 DEF WholeInv
  <2>4. DOMAIN Filed = {} BY <2>2 DEF Filed
  <2>5. Ordered(Filed, 0)
    <3>1. 1..0 = {} OBVIOUS
    <3> QED BY <2>4, <3>1 DEF Ordered
  <2>6. Run(0, 0) = <<>> /\ <<>> \o <<>> = <<>> BY RunEmpty, ConcatEmptySeq, EmptySeq
  <2>7. StreamIs(0) BY <2>1, <2>6 DEF StreamIs
  <2>8. 0 \in 0..line BY <2>1
  <2>9. OrderInv BY <2>1, <2>5, <2>7, <2>8 DEF OrderInv
  <2> QED BY <2>3, <2>9
<1>2. /\ TypeInv /\ ControlInv /\ StreamInv /\ WholeInv /\ [Next]_vars => WholeInv'
      /\ TypeInv /\ ControlInv /\ StreamInv /\ WholeInv /\ OrderInv /\ [Next]_vars => OrderInv'
  BY WholeStep, OrderStep
<1>3. TypeInv /\ StreamInv /\ WholeInv /\ OrderInv => InOrder
  <2> SUFFICES ASSUME TypeInv, StreamInv, WholeInv, OrderInv, trouble = {}
               PROVE  Ordered(Texts, line)
    BY DEF InOrder, Ordered
  <2>1. PICK b \in 0..line :
          /\ Ordered(Filed, b)
          /\ IF pc = "rename" THEN tmp[name] = Run(b, line) \o <<End>> ELSE StreamIs(b)
    BY DEF OrderInv
  <2>2. line \in Nat /\ b \in Nat /\ b <= line /\ line \in 0..MaxLines
    BY ConstantFacts, <2>1 DEF TypeInv
  <2> DEFINE onItsWay == IF pc = "rename" THEN TextOf(tmp[name]) ELSE <<>>
             inStream == TextOf(m_data \o held)
  <2>3. /\ TextOf(Run(b, line)) = Run(b, line)
        /\ TextOf(Run(b, line) \o <<End>>) = Run(b, line)
        /\ Run(line, line) = <<>> /\ Run(b, b) = <<>>
        /\ TextOf(<<>>) = <<>>
    <3>1. TextOf(Run(line, line)) = Run(line, line) BY <2>2, TextOfRun
    <3> QED BY <2>2, <3>1, TextOfRun, RunEmpty
  <2>4. m_data \in Seq(0..MaxLines) /\ (held = <<>> => m_data \o held = m_data)
    BY ConcatEmptySeq DEF TypeInv
  <2>5. \E c \in b..line : onItsWay = Run(b, c) /\ inStream = Run(c, line)
    <3>1. CASE pc = "rename"
      <4>1. m_data = <<>> /\ held = <<>> BY <3>1 DEF StreamInv, RoomInv
      <4>2. inStream = Run(line, line) BY <2>3, <2>4, <4>1
      <4>3. onItsWay = Run(b, line) BY <2>1, <2>3, <3>1
      <4>4. line \in b..line BY <2>2
      <4> QED BY <4>2, <4>3, <4>4
    <3>2. CASE pc # "rename"
      <4>1. StreamIs(b) BY <2>1, <3>2
      <4>2. pc \in {"dump", "reset"} => m_data # <<>> BY DEF WholeInv
      <4>3. inStream = Run(b, line) BY <2>3, <2>4, <4>1, <4>2 DEF StreamIs
      <4>4. onItsWay = Run(b, b) BY <2>3, <3>2
      <4>5. b \in b..line BY <2>2
      <4> QED BY <4>3, <4>4, <4>5
    <3> QED BY <3>1, <3>2
  <2>6. PICK c \in b..line : onItsWay = Run(b, c) /\ inStream = Run(c, line) BY <2>5
  <2>7. c \in Nat /\ b <= c /\ c <= line BY <2>2
  <2>8. Run(b, c) \in Seq(0..MaxLines) /\ Run(c, line) \in Seq(0..MaxLines)
    <3>1. Run(b, c) \in Seq((b + 1)..c) /\ Run(c, line) \in Seq((c + 1)..line)
      BY <2>2, <2>7, RunProperties
    <3>2. (b + 1)..c \subseteq 0..MaxLines /\ (c + 1)..line \subseteq 0..MaxLines
      BY <2>2, <2>7, ConstantFacts
    <3> QED BY ONLY <3>1, <3>2, SeqMonotonic
  <2> HIDE DEF onItsWay, inStream
  <2>9. Filed \in Seq(Seq(0..MaxLines)) BY FiledType
  <2>10. Ordered(Append(Filed, onItsWay), c)
    <3>1. IsRun(Run(b, c)) /\ ToSet(Run(b, c)) = (b + 1)..c BY <2>2, <2>7, RunIsRun
    <3> QED BY <2>1, <2>2, <2>6, <2>7, <2>8, <2>9, <3>1, OrderedAppend
  <2>11. Ordered(Append(Append(Filed, onItsWay), inStream), line)
    <3>1. IsRun(Run(c, line)) /\ ToSet(Run(c, line)) = (c + 1)..line BY <2>2, <2>7, RunIsRun
    <3>2. Append(Filed, onItsWay) \in Seq(Seq(0..MaxLines))
      BY <2>6, <2>8, <2>9, AppendProperties
    <3> QED BY <2>2, <2>6, <2>7, <2>8, <2>10, <3>1, <3>2, OrderedAppend
  <2>12. Texts = Append(Append(Filed, onItsWay), inStream)
    <3>1. Filed \o <<onItsWay, inStream>> = Append(Append(Filed, onItsWay), inStream)
      BY <2>6, <2>8, <2>9, AppendTwo
    <3> QED BY <3>1 DEF Texts, Filed, onItsWay, inStream
  <2> QED BY <2>11, <2>12
<1> QED BY <1>1, <1>2, <1>3, StreamAlways, PTL DEF Spec
====
