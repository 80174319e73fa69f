---- MODULE PcapReaderProofs ----
(***************************************************************************)
(* Theorems about PcapReader: for every capture, content of the memory     *)
(* around the buffer, number of threads and width of group_num_.  The walk *)
(* over the buffer is compared with the places the records have in the     *)
(* file of the capture.                                                    *)
(***************************************************************************)
EXTENDS PcapReader, CommonLemmas

----------------------------------------------------------------------------
\* The layout of a capture file.

Record(x) == <<Len(x)>> \o x
Records(P) == [k \in DOMAIN P |-> Record(P[k])]

LEMMA RecordIs ==
  ASSUME NEW x \in Seq(Nat)
  PROVE  /\ Record(x) \in Seq(Nat) /\ Len(Record(x)) = Len(x) + 1 /\ Len(x) \in Nat
         /\ Record(x)[1] = Len(x) /\ \A k \in 1..Len(x) : Record(x)[k + 1] = x[k]
<1> DEFINE n == Len(x)
           h == <<n>>
           r == h \o x
<1>1. n \in Nat BY LenProperties
<1>2. h \in Seq(Nat) /\ Len(h) = 1 /\ h[1] = n BY <1>1
<1> HIDE DEF h, n
<1>3. /\ r \in Seq(Nat) /\ Len(r) = Len(h) + Len(x)
      /\ \A i \in 1..(Len(h) + Len(x)) : r[i] = IF i <= Len(h) THEN h[i] ELSE x[i - Len(h)]
  BY <1>2, ConcatProperties
<1>4. Len(h) + Len(x) = n + 1 BY <1>1, <1>2 DEF n
<1>5. r \in Seq(Nat) /\ Len(r) = n + 1 /\ \A i \in 1..(n + 1) : r[i] = IF i <= 1 THEN h[i] ELSE x[i - 1]
  BY <1>2, <1>3, <1>4, Zenon
<1> HIDE DEF r
<1>6. 1 \in 1..(n + 1) /\ 1 <= 1 BY <1>1
<1>7. \A k \in 1..n : k + 1 \in 1..(n + 1) /\ ~(k + 1 <= 1) /\ (k + 1) - 1 = k BY <1>1
<1>8. r[1] = n BY <1>2, <1>5, <1>6, Zenon
<1>9. \A k \in 1..n : r[k + 1] = x[k] BY <1>5, <1>7, Zenon
<1>10. r = Record(x) BY Zenon DEF r, h, n, Record
<1> QED BY <1>1, <1>5, <1>8, <1>9, <1>10 DEF n

LEMMA FileOfIs ==
  ASSUME NEW P \in Seq(Seq(Nat))
  PROVE  /\ FileOf(P) \in Seq(Nat) /\ Records(P) \in Seq(Seq(Nat))
         /\ FileOf(P) = <<0>> \o FlattenSeq(Records(P))
<1> DEFINE n == Len(P)
           e(k) == Record(P[k])
<1>1. n \in Nat /\ DOMAIN P = 1..n /\ \A k \in 1..n : P[k] \in Seq(Nat) BY LenProperties
<1>2. \A k \in 1..n : e(k) \in Seq(Nat) BY <1>1, RecordIs
<1>3. Records(P) = [k \in 1..n |-> e(k)] BY <1>1, Zenon DEF Records
<1>4. Records(P) \in Seq(Seq(Nat))
  <2> HIDE DEF e, n
  <2>1. [k \in 1..n |-> e(k)] \in Seq(Seq(Nat)) BY <1>1, <1>2, IsASeq
  <2> QED BY <1>3, <2>1
<1>5. FileOf(P) = <<0>> \o FlattenSeq(Records(P)) BY Zenon DEF FileOf, Records, Record
<1>6. FlattenSeq(Records(P)) \in Seq(Nat) BY <1>4, FlattenProperties
<1>7. <<0>> \in Seq(Nat) OBVIOUS
<1>8. <<0>> \o FlattenSeq(Records(P)) \in Seq(Nat) BY <1>6, <1>7, ConcatProperties
<1> QED BY <1>4, <1>5, <1>8

LEMMA FileOfEmpty == FileOf(<<>>) = <<0>> /\ <<0>> \in Seq(Nat) /\ Len(<<0>>) = 1
<1>1. <<>> \in Seq(Seq(Nat)) OBVIOUS
<1>2. FileOf(<<>>) = <<0>> \o FlattenSeq(Records(<<>>)) BY <1>1, FileOfIs
<1>3. Records(<<>>) = <<>> BY DEF Records
<1>4. FlattenSeq(<<>>) = <<>> BY DEF FlattenSeq
<1>5. <<0>> \in Seq(Nat) /\ Len(<<0>>) = 1 OBVIOUS
<1>6. <<0>> \o <<>> = <<0>> BY <1>5, ConcatEmptySeq
<1> QED BY <1>2, <1>3, <1>4, <1>5, <1>6

LEMMA FileOfAppend ==
  ASSUME NEW P \in Seq(Seq(Nat)), NEW x \in Seq(Nat)
  PROVE  FileOf(Append(P, x)) = FileOf(P) \o Record(x)
<1> DEFINE n == Len(P)
           Q == Append(P, x)
<1>1. n \in Nat /\ DOMAIN P = 1..n BY LenProperties
<1>2. Q \in Seq(Seq(Nat)) /\ Len(Q) = n + 1 /\ Q[n + 1] = x /\ \A k \in 1..n : Q[k] = P[k]
  BY AppendProperties
<1> HIDE DEF Q
<1>3. DOMAIN Q = 1..(n + 1) BY <1>2, LenProperties
<1>4. /\ Records(P) \in Seq(Seq(Nat)) /\ FileOf(P) = <<0>> \o FlattenSeq(Records(P))
      /\ Records(Q) \in Seq(Seq(Nat)) /\ FileOf(Q) = <<0>> \o FlattenSeq(Records(Q))
  BY <1>2, FileOfIs
<1>5. Record(x) \in Seq(Nat) BY RecordIs
<1> DEFINE A == Append(Records(P), Record(x))
<1>6. Len(Records(P)) = n /\ Len(Records(Q)) = n + 1
  <2>1. DOMAIN Records(P) = 1..n /\ DOMAIN Records(Q) = 1..(n + 1) BY <1>1, <1>3 DEF Records
  <2> HIDE DEF n
  <2>2. n + 1 \in Nat BY <1>1
  <2> QED BY <1>1, <1>4, <2>1, <2>2, LenProperties
<1>7. /\ A \in Seq(Seq(Nat)) /\ Len(A) = n + 1 /\ A[n + 1] = Record(x)
      /\ \A k \in 1..n : A[k] = Records(P)[k]
  <2>1. /\ A \in Seq(Seq(Nat)) /\ Len(A) = Len(Records(P)) + 1 /\ A[Len(Records(P)) + 1] = Record(x)
        /\ \A k \in 1..Len(Records(P)) : A[k] = Records(P)[k]
    BY <1>4, <1>5, AppendProperties
  <2> QED BY <1>6, <2>1, Zenon
<1> HIDE DEF A, n
<1>8. \A k \in 1..n : Records(P)[k] = Record(P[k]) BY <1>1 DEF Records
<1>9. \A k \in 1..(n + 1) : Records(Q)[k] = Record(Q[k]) BY <1>3 DEF Records
<1>10. \A k \in 1..(n + 1) : A[k] = Records(Q)[k]
  <2>1. \A k \in 1..(n + 1) : k = n + 1 \/ k \in 1..n BY <1>1
  <2> QED BY <1>2, <1>7, <1>8, <1>9, <2>1, Zenon
<1>11. A = Records(Q) BY <1>4, <1>6, <1>7, <1>10, SeqEqual
<1>12. FlattenSeq(A) = FlattenSeq(Records(P)) \o Record(x) BY <1>4, <1>5, FlattenAppend DEF A
<1>13. FlattenSeq(Records(P)) \in Seq(Nat) BY <1>4, FlattenProperties
<1>14. <<0>> \in Seq(Nat) OBVIOUS
<1> DEFINE u == FlattenSeq(Records(P))
           v == Record(x)
<1> HIDE DEF u, v
<1>15. <<0>> \o (u \o v) = (<<0>> \o u) \o v
  <2>1. u \in Seq(Nat) /\ v \in Seq(Nat) BY <1>5, <1>13 DEF u, v
  <2>2. \A w \in Seq(Nat) : (w \o u) \o v = w \o (u \o v) BY <2>1, ConcatAssociative, SMTT(40)
  <2> QED BY <1>14, <2>2
<1> QED BY <1>4, <1>11, <1>12, <1>15 DEF Q, u, v

\* Where the k-th record is, and that g holds it there.
Place(P, k) == Len(FileOf(SubSeq(P, 1, k - 1)))
Holds(g, P, k) ==
  /\ Place(P, k) + 1 + Len(P[k]) <= Len(g)
  /\ g[Place(P, k) + 1] = Len(P[k])
  /\ \A i \in 1..Len(P[k]) : g[Place(P, k) + 1 + i] = P[k][i]

\* The records before the k-th, and with it.
LEMMA OneMore ==
  ASSUME NEW P \in Seq(Seq(Nat)), NEW k \in 1..Len(P)
  PROVE  LET g == FileOf(SubSeq(P, 1, k - 1))
             h == FileOf(SubSeq(P, 1, k))
             a == Place(P, k)
             n == Len(P[k])
         IN  /\ a \in Nat /\ n \in Nat /\ Len(g) = a /\ Len(h) = a + 1 + n
             /\ \A i \in 1..a : h[i] = g[i]
             /\ h[a + 1] = n /\ \A i \in 1..n : h[a + 1 + i] = P[k][i]
<1> DEFINE g == FileOf(SubSeq(P, 1, k - 1))
           h == FileOf(SubSeq(P, 1, k))
           x == P[k]
           n == Len(x)
           r == Record(x)
           a == Place(P, k)
           q == SubSeq(P, 1, k - 1)
<1>1. Len(P) \in Nat /\ k - 1 \in 0..Len(P) /\ k \in 0..Len(P) /\ k \in Nat /\ (k - 1) + 1 = k
  BY LenProperties
<1>2. x \in Seq(Nat) BY ElementOfSeq
<1>3. q \in Seq(Seq(Nat)) /\ Len(q) = k - 1 /\ \A i \in 1..(k - 1) : q[i] = P[i]
  BY <1>1, PrefixOfSeq
<1>4. SubSeq(P, 1, k) = Append(q, x)
  <2> DEFINE u == SubSeq(P, 1, k)
             v == Append(q, x)
  <2>1. u \in Seq(Seq(Nat)) /\ Len(u) = k /\ \A i \in 1..k : u[i] = P[i] BY <1>1, PrefixOfSeq
  <2> HIDE DEF u, q
  <2>2. /\ v \in Seq(Seq(Nat)) /\ Len(v) = Len(q) + 1 /\ v[Len(q) + 1] = x
        /\ \A i \in 1..Len(q) : v[i] = q[i]
    BY <1>2, <1>3, AppendProperties
  <2>3. Len(v) = k /\ v[k] = x /\ \A i \in 1..(k - 1) : v[i] = P[i]
    BY <1>1, <1>3, <2>2, Zenon
  <2> HIDE DEF v
  <2>4. \A i \in 1..k : i = k \/ i \in 1..(k - 1) BY <1>1
  <2>5. \A i \in 1..k : u[i] = v[i] BY <2>1, <2>3, <2>4, Zenon
  <2>6. u = v BY <2>1, <2>2, <2>3, <2>5, SeqEqual
  <2> QED BY <2>6 DEF u, v
<1> HIDE DEF q
<1>5. h = FileOf(q) \o r BY <1>2, <1>3, <1>4, FileOfAppend
<1>6. g = FileOf(q) /\ g \in Seq(Nat) BY <1>3, FileOfIs DEF q
<1>7. a = Len(g) BY Zenon DEF Place
<1> HIDE DEF g, h, a, x
<1>8. /\ r \in Seq(Nat) /\ Len(r) = n + 1 /\ n \in Nat /\ r[1] = n
      /\ \A i \in 1..n : r[i + 1] = x[i]
  BY <1>2, RecordIs
<1> HIDE DEF r, n
<1>9. a \in Nat BY <1>6, <1>7, LenProperties
<1>10. /\ Len(g \o r) = Len(g) + Len(r)
       /\ \A i \in 1..(Len(g) + Len(r)) : (g \o r)[i] = IF i <= Len(g) THEN g[i] ELSE r[i - Len(g)]
  BY <1>6, <1>8, ConcatProperties
<1>11. Len(g) + Len(r) = a + 1 + n BY <1>7, <1>8, <1>9
<1>12. Len(h) = a + 1 + n /\ \A i \in 1..(a + 1 + n) : h[i] = IF i <= a THEN g[i] ELSE r[i - a]
  BY <1>5, <1>6, <1>7, <1>10, <1>11, Zenon
<1>13. \A i \in 1..a : i \in 1..(a + 1 + n) /\ i <= a BY <1>8, <1>9
<1>14. a + 1 \in 1..(a + 1 + n) /\ ~(a + 1 <= a) /\ (a + 1) - a = 1 BY <1>8, <1>9
<1>15. \A i \in 1..n : a + 1 + i \in 1..(a + 1 + n) /\ ~(a + 1 + i <= a) /\ (a + 1 + i) - a = i + 1
  BY <1>8, <1>9
<1>16. h[a + 1] = n BY <1>8, <1>12, <1>14, Zenon
<1>17. \A i \in 1..n : h[a + 1 + i] = x[i] BY <1>8, <1>12, <1>15, Zenon
<1>18. \A i \in 1..a : h[i] = g[i] BY <1>12, <1>13, Zenon
<1>19. a \in Nat /\ n \in Nat /\ Len(g) = a /\ Len(h) = a + 1 + n BY <1>7, <1>8, <1>9, <1>12
<1> QED BY <1>16, <1>17, <1>18, <1>19, Zenon DEF g, h, a, n, x

LEMMA PrefixHolds ==
  ASSUME NEW P \in Seq(Seq(Nat))
  PROVE  \A m \in 0..Len(P) : \A k \in 1..m : Holds(FileOf(SubSeq(P, 1, m)), P, k)
<1> DEFINE n == Len(P)
           G(m) == FileOf(SubSeq(P, 1, m))
           Q == {m \in 0..n : \A k \in 1..m : Holds(G(m), P, k)}
<1>1. n \in Nat BY LenProperties
<1>2. 0 \in Q
  <2>1. \A k \in 1..0 : FALSE OBVIOUS
  <2>2. 0 \in 0..n BY <1>1
  <2> QED BY <2>1, <2>2, Zenon
<1>3. ASSUME NEW m \in 0..(n - 1), m \in Q PROVE m + 1 \in Q
  <2> DEFINE l == m + 1
             a == Place(P, l)
             c == Len(P[l])
  <2>1. l \in 1..n /\ l \in 0..n /\ l - 1 = m BY <1>1
  <2>2. LET g == FileOf(SubSeq(P, 1, l - 1))
            h == FileOf(SubSeq(P, 1, l))
        IN  /\ a \in Nat /\ c \in Nat /\ Len(g) = a /\ Len(h) = a + 1 + c
            /\ \A i \in 1..a : h[i] = g[i]
            /\ h[a + 1] = c /\ \A i \in 1..c : h[a + 1 + i] = P[l][i]
    BY <2>1, OneMore
  <2> DEFINE g == G(m)
             h == G(l)
  <2>3. /\ a \in Nat /\ c \in Nat /\ Len(g) = a /\ Len(h) = a + 1 + c
        /\ \A i \in 1..a : h[i] = g[i]
        /\ h[a + 1] = c /\ \A i \in 1..c : h[a + 1 + i] = P[l][i]
    BY <2>1, <2>2, Zenon
  <2>4. \A k \in 1..m : Holds(g, P, k) BY <1>3
  <2> HIDE DEF l, a, c, g, h, n
  <2>5. ASSUME NEW k \in 1..m PROVE Holds(h, P, k)
    <3> DEFINE b == Place(P, k)
               d == Len(P[k])
    <3>1. k \in 1..n BY <1>1
    <3>2. b \in Nat /\ d \in Nat BY <3>1, OneMore DEF n
    <3>3. b + 1 + d <= Len(g) /\ g[b + 1] = d /\ \A i \in 1..d : g[b + 1 + i] = P[k][i]
      BY <2>4, Zenon DEF Holds
    <3> HIDE DEF b, d
    <3>4. b + 1 \in 1..a /\ b + 1 + d <= Len(h) BY <2>3, <3>2, <3>3
    <3>5. \A i \in 1..d : b + 1 + i \in 1..a BY <2>3, <3>2, <3>3
    <3>6. h[b + 1] = d /\ \A i \in 1..d : h[b + 1 + i] = P[k][i] BY <2>3, <3>3, <3>4, <3>5
    <3> QED BY <3>4, <3>6, Zenon DEF Holds, b, d
  <2>6. Holds(h, P, l)
    <3>1. a + 1 + c <= Len(h) BY <2>3
    <3> QED BY <2>3, <3>1, Zenon DEF Holds, a, c
  <2>7. \A k \in 1..l : k = l \/ k \in 1..m BY <1>1 DEF l
  <2>8. \A k \in 1..l : Holds(h, P, k) BY <2>5, <2>6, <2>7, Zenon
  <2> QED BY <2>1, <2>8 DEF l, h
<1> HIDE DEF Q
<1>4. \A m \in 0..n : m \in Q BY <1>1, <1>2, <1>3, UpTo
<1> QED BY <1>4 DEF Q

\* The file holds every record at its place, and the places are in order.
LEMMA Layout ==
  ASSUME NEW P \in Seq(Seq(Nat))
  PROVE  LET n == Len(P)
         IN  /\ n \in Nat /\ \A k \in 1..(n + 1) : Place(P, k) \in Nat
             /\ Place(P, 1) = 1 /\ Place(P, n + 1) = Len(FileOf(P))
             /\ \A k \in 1..n : /\ P[k] \in Seq(Nat) /\ Len(P[k]) \in Nat
                                /\ Place(P, k + 1) = Place(P, k) + 1 + Len(P[k])
                                /\ Holds(FileOf(P), P, k)
             /\ \A k \in 1..(n + 1) : \A j \in 1..(k - 1) :
                  Place(P, j) + 1 + Len(P[j]) <= Place(P, k)
<1> DEFINE n == Len(P)
           G(m) == FileOf(SubSeq(P, 1, m))
<1>1. n \in Nat /\ \A k \in 1..n : P[k] \in Seq(Nat) /\ Len(P[k]) \in Nat BY LenProperties
<1>2. \A k \in 1..(n + 1) : Place(P, k) = Len(G(k - 1)) BY Zenon DEF Place
<1>3. SubSeq(P, 1, n) = P BY SubSeqFull
<1>4. \A m \in 0..n : G(m) \in Seq(Nat) /\ Len(G(m)) \in Nat
  <2> SUFFICES ASSUME NEW m \in 0..n PROVE G(m) \in Seq(Nat) OBVIOUS
  <2>1. SubSeq(P, 1, m) \in Seq(Seq(Nat)) BY PrefixOfSeq
  <2> QED BY <2>1, FileOfIs
<1>5. Place(P, 1) = 1
  <2>1. SubSeq(P, 1, 0) = <<>>
    <3>1. 0 \in 0..Len(P) BY <1>1
    <3>2. SubSeq(P, 1, 0) \in Seq(Seq(Nat)) /\ Len(SubSeq(P, 1, 0)) = 0 BY <3>1, PrefixOfSeq
    <3> QED BY <3>2, EmptySeq
  <2>2. Place(P, 1) = Len(FileOf(SubSeq(P, 1, 0))) BY DEF Place
  <2> QED BY <2>1, <2>2, FileOfEmpty
<1>6. \A k \in 1..n : Place(P, k + 1) = Place(P, k) + 1 + Len(P[k])
  <2> SUFFICES ASSUME NEW k \in 1..n PROVE Place(P, k + 1) = Place(P, k) + 1 + Len(P[k])
    OBVIOUS
  <2>1. Len(FileOf(SubSeq(P, 1, k))) = Place(P, k) + 1 + Len(P[k]) BY OneMore
  <2>2. (k + 1) - 1 = k OBVIOUS
  <2>3. Place(P, k + 1) = Len(FileOf(SubSeq(P, 1, k))) BY <2>2, Zenon DEF Place
  <2> QED BY <2>1, <2>3
<1>7. \A m \in 0..n : \A k \in 1..m : Holds(G(m), P, k) BY PrefixHolds
<1>8. \A k \in 1..n : Holds(FileOf(P), P, k)
  <2>1. n \in 0..n BY <1>1
  <2> QED BY <1>3, <1>7, <2>1
<1>9. Place(P, n + 1) = Len(FileOf(P))
  <2>1. (n + 1) - 1 = n BY <1>1
  <2> QED BY <1>3, <2>1, Zenon DEF Place
<1>10. \A k \in 1..(n + 1) : k - 1 \in 0..n BY <1>1
<1>11. \A k \in 1..(n + 1) : Place(P, k) \in Nat BY <1>2, <1>4, <1>10
<1>12. \A k \in 1..(n + 1) : \A j \in 1..(k - 1) : Place(P, j) + 1 + Len(P[j]) <= Place(P, k)
  <2> SUFFICES ASSUME NEW k \in 1..(n + 1), NEW j \in 1..(k - 1)
               PROVE  Place(P, j) + 1 + Len(P[j]) <= Place(P, k)
    OBVIOUS
  <2>1. Holds(G(k - 1), P, j) BY <1>7, <1>10
  <2> QED BY <1>2, <2>1 DEF Holds
<1> QED BY <1>1, <1>5, <1>6, <1>8, <1>9, <1>11, <1>12

----------------------------------------------------------------------------
\* Types.

PcapPacket == [scr_ipv4 : Nat, dst_ipv4 : Nat, scr_port : Nat, dst_port : Nat, at : Nat]
Groups == 0..(group_num_ - 1)
Labels == {"stat", "create", "header", "packets", "done", "failed", "crashed"}

TypeInv ==
  /\ capture \in Captures /\ packet_core_num \in Nat /\ group_num_ \in Nat
  /\ file # Missing => file \in Seq(Nat)
  /\ data \in Seq(Nat) /\ length \in Nat /\ heap \in [0..1 -> Nat]
  /\ offset \in Nat /\ datas_ \in [Groups -> Seq(PcapPacket)]
  /\ pc \in Labels /\ DOMAIN got = Threads

\* Once the size is known the file does not get shorter, and the vectors are
\* empty until then.
StageInv ==
  /\ pc = "create" => file # Missing /\ length <= Len(file)
  /\ pc = "stat" => \A g \in Groups : datas_[g] = <<>>

\* Each packet is in the group of its hash, from a record that starts within
\* the size of the file.
GroupInv ==
  \A g \in Groups : \A k \in 1..Len(datas_[g]) :
    /\ Hash4Tuple(datas_[g][k]) % group_num_ = g
    /\ datas_[g][k].at <= length

\* The threads copy after the last packet is in its group.
CopyInv ==
  /\ pc \notin {"done", "failed", "crashed"} => \A t \in Threads : got[t] = NotYet
  /\ \A t \in Threads : got[t] = NotYet \/ got[t] = datas_[GroupOf(t)]

PcapInv == TypeInv /\ StageInv /\ GroupInv /\ CopyInv

LEMMA OptionsFacts ==
  /\ DOMAIN Options = 1..2
  /\ \A n \in DOMAIN Options : n \in Nat /\ Options[n] \in Nat
  BY DEF Options

LEMMA GroupNumNat == ASSUME NEW n \in Nat PROVE n % 2 ^ kGroupBits \in Nat
  BY PcapAssumption, PowerPositive, DivMod

LEMMA CellNat ==
  ASSUME TypeInv, NEW k \in Nat
  PROVE  Cell(k) \in Nat
<1>1. data \in Seq(Nat) /\ heap \in [0..1 -> Nat] BY DEF TypeInv
<1>2. k % 2 \in 0..1 OBVIOUS
<1>3. CASE k < Len(data)
  <2>1. k + 1 \in 1..Len(data) BY <1>1, <1>3
  <2>2. data[k + 1] \in Nat BY <1>1, <2>1
  <2> QED BY <1>3, <2>2 DEF Cell
<1>4. CASE ~(k < Len(data)) BY <1>1, <1>2, <1>4 DEF Cell
<1> QED BY <1>3, <1>4

\* Whatever the cells are, a packet that is kept has numbers in its fields.
LEMMA ParsedPacket ==
  ASSUME TypeInv, NEW start \in Nat \ {0}, Parsed(start)
  PROVE  /\ ParsePacket(start) \in PcapPacket
         /\ ParsePacket(start).at = start - 1
<1>1. Options[Cell(start + 1)] \in Nat BY OptionsFacts DEF Parsed
<1>2. /\ start + 2 \in Nat /\ start + 3 + Options[Cell(start + 1)] \in Nat
      /\ start - 1 \in Nat
  BY <1>1
<1>3. Cell(start + 2) \in Nat /\ Ports(start) \in Nat BY <1>2, CellNat DEF Ports
<1>4. \A n \in Nat : n \div 2 \in Nat /\ n % 2 \in Nat OBVIOUS
<1> QED BY <1>2, <1>3, <1>4 DEF ParsePacket, PcapPacket

----------------------------------------------------------------------------
\* The invariant holds.

LEMMA PcapInit == Init => PcapInv
<1> SUFFICES ASSUME Init PROVE PcapInv OBVIOUS
<1>1. FileOf(capture) \in Seq(Nat) BY PcapAssumption, FileOfIs DEF Init
<1>2. file # Missing => file \in Seq(Nat)
  <2> SUFFICES ASSUME NEW n \in 0..Len(FileOf(capture)), file = SubSeq(FileOf(capture), 1, n)
               PROVE  file \in Seq(Nat)
      BY DEF Init
  <2> QED BY <1>1, PrefixOfSeq
<1>3. packet_core_num \in Nat BY PcapAssumption DEF Init
<1>4. group_num_ \in Nat BY <1>3, GroupNumNat DEF group_num_
<1>5. heap \in [0..1 -> Nat] BY PcapAssumption DEF Init
<1>6. datas_ = [g \in Groups |-> <<>>] /\ got = [t \in Threads |-> NotYet]
  BY DEF Init, Groups
<1>7. <<>> \in Seq(Nat) /\ <<>> \in Seq(PcapPacket) OBVIOUS
<1>8. datas_ \in [Groups -> Seq(PcapPacket)] BY <1>6, <1>7, Zenon
<1>9. TypeInv BY <1>2, <1>3, <1>4, <1>5, <1>6, <1>7, <1>8 DEF Init, TypeInv, Labels
<1>10. \A g \in Groups : datas_[g] = <<>> BY <1>6, Zenon
<1>11. GroupInv BY <1>10 DEF GroupInv
<1>12. StageInv BY <1>10 DEF StageInv, Init
<1>13. CopyInv BY <1>6 DEF CopyInv
<1> QED BY <1>9, <1>11, <1>12, <1>13 DEF PcapInv

\* The steps that leave the vectors and the copies alone.
LEMMA QuietStep ==
  ASSUME PcapInv, UNCHANGED <<inputs, heap, datas_, got>>, TypeInv', StageInv',
         pc = "stat" \/ length' = length,
         pc' \in {"done", "failed", "crashed"} \/ pc \notin {"done", "failed", "crashed"}
  PROVE  PcapInv'
<1>1. UNCHANGED <<packet_core_num, group_num_, Threads, Groups, datas_, got>>
  BY DEF inputs, group_num_, Threads, Groups
<1>2. GroupInv'
  <2>1. CASE pc = "stat"
    <3>1. \A g \in Groups : datas_[g] = <<>> BY <2>1 DEF PcapInv, StageInv
    <3> QED BY <3>1, <1>1 DEF GroupInv
  <2>2. CASE length' = length BY <2>2, <1>1 DEF PcapInv, GroupInv, Hash4Tuple
  <2> QED BY <2>1, <2>2
<1>3. CopyInv' BY <1>1 DEF PcapInv, CopyInv, GroupOf
<1> QED BY <1>2, <1>3 DEF PcapInv

LEMMA PcapStep == PcapInv /\ [Next]_vars => PcapInv'
<1> SUFFICES ASSUME PcapInv, [Next]_vars PROVE PcapInv' OBVIOUS
<1>0. TypeInv /\ StageInv /\ GroupInv /\ CopyInv BY DEF PcapInv
<1>1. CASE Capture
  <2>1. file \in Seq(Nat) /\ FileOf(capture) \in Seq(Nat) /\ Len(file) \in Nat
    BY <1>0, <1>1, PcapAssumption, FileOfIs DEF TypeInv, Capture
  <2> DEFINE n == Len(file) + 1
  <2>2. n \in Nat /\ n \in 0..Len(FileOf(capture)) BY <1>1, <2>1, LenProperties DEF Capture
  <2>3. file' \in Seq(Nat) /\ Len(file') = n
    <3>1. file' = SubSeq(FileOf(capture), 1, n) BY <1>1 DEF Capture
    <3> HIDE DEF n
    <3> QED BY <2>1, <2>2, <3>1, PrefixOfSeq
  <2>4. file' # Missing
    <3> SUFFICES ASSUME file' = Missing PROVE FALSE OBVIOUS
    <3>1. Missing[1] = -1 /\ 1 \in 1..Len(Missing) BY DEF Missing
    <3>2. Missing[1] \in Nat BY <2>3, <3>1, LenProperties
    <3> QED BY <3>1, <3>2
  <2>5. /\ UNCHANGED <<capture, packet_core_num, data, length, heap, offset, datas_, pc, got>>
        /\ pc \in {"stat", "create"}
    BY <1>1 DEF Capture, inputs, bufferVars
  <2>6. UNCHANGED <<group_num_, Threads, Groups>> BY <2>5 DEF group_num_, Threads, Groups
  <2>7. TypeInv' BY <1>0, <2>3, <2>5, <2>6 DEF TypeInv
  <2>8. StageInv'
    <3>1. length \in Nat BY <1>0 DEF TypeInv
    <3> QED BY <1>0, <2>1, <2>3, <2>4, <2>5, <2>6, <3>1 DEF StageInv
  <2> QED BY <2>5, <2>7, <2>8, QuietStep DEF inputs
<1>2. CASE Stat
  <2>1. /\ UNCHANGED <<capture, packet_core_num, file, data, heap, offset, datas_, got>>
        /\ pc = "stat" /\ pc' \in {"failed", "create"}
        /\ \/ pc' = "failed" /\ length' = length
           \/ file # Missing /\ length' = Len(file)
    BY <1>2 DEF Stat, inputs
  <2>2. length' \in Nat /\ (pc' = "create" => file # Missing /\ length' <= Len(file))
    <3>1. file # Missing => Len(file) \in Nat BY <1>0, LenProperties DEF TypeInv
    <3> QED BY <1>0, <1>2, <2>1, <3>1 DEF TypeInv, Stat
  <2>3. UNCHANGED <<group_num_, Threads, Groups>> BY <2>1 DEF group_num_, Threads, Groups
  <2>4. TypeInv' BY <1>0, <2>1, <2>2, <2>3 DEF TypeInv, Labels
  <2>5. StageInv' BY <2>1, <2>2 DEF StageInv
  <2> QED BY <2>1, <2>4, <2>5, QuietStep DEF inputs
<1>3. CASE Create
  <2>1. PICK n \in 0..length : data' = SubSeq(file, 1, n) BY <1>3 DEF Create
  <2>2. /\ UNCHANGED <<capture, packet_core_num, file, length, heap, offset, datas_, got>>
        /\ pc = "create" /\ pc' = "header"
    BY <1>3 DEF Create, inputs
  <2>3. file \in Seq(Nat) /\ length \in Nat /\ length <= Len(file)
    BY <1>0, <2>2 DEF TypeInv, StageInv
  <2>4. n \in 0..Len(file) BY <2>3, LenProperties
  <2>5. data' \in Seq(Nat) BY <2>1, <2>3, <2>4, PrefixOfSeq
  <2>6. UNCHANGED <<group_num_, Threads, Groups>> BY <2>2 DEF group_num_, Threads, Groups
  <2>7. TypeInv' BY <1>0, <2>2, <2>5, <2>6 DEF TypeInv, Labels
  <2>8. StageInv' BY <2>2 DEF StageInv
  <2> QED BY <2>2, <2>7, <2>8, QuietStep DEF inputs
<1>4. CASE CreateFails \/ ReadHeader \/ ReadDone
  <2>1. /\ UNCHANGED <<capture, packet_core_num, file, data, length, heap, datas_, got>>
        /\ pc \in {"create", "header", "packets"} /\ pc' \in {"failed", "packets", "done"}
        /\ offset' \in {offset, offset + 1}
    BY <1>4 DEF CreateFails, ReadHeader, ReadDone, inputs, bufferVars
  <2>2. offset' \in Nat BY <1>0, <2>1 DEF TypeInv
  <2>3. UNCHANGED <<group_num_, Threads, Groups>> BY <2>1 DEF group_num_, Threads, Groups
  <2>4. TypeInv' BY <1>0, <2>1, <2>2, <2>3 DEF TypeInv, Labels
  <2>5. StageInv' BY <2>1 DEF StageInv
  <2> QED BY <2>1, <2>4, <2>5, QuietStep DEF inputs
<1>5. CASE ReadPacket
  <2> DEFINE start == offset + 1
             packet == ParsePacket(start)
             h == Hash4Tuple(packet) % group_num_
  <2>1. /\ UNCHANGED <<capture, packet_core_num, file, data, length, heap, got>>
        /\ pc = "packets" /\ offset <= length /\ offset' = start + Cell(offset)
    BY <1>5 DEF ReadPacket, inputs, bufferVars, Another
  <2>2. offset \in Nat /\ length \in Nat /\ start \in Nat \ {0} /\ start - 1 = offset
    BY <1>0 DEF TypeInv
  <2>3. offset' \in Nat
    <3>1. Cell(offset) \in Nat BY <1>0, <2>2, CellNat
    <3> QED BY <2>1, <2>2, <3>1
  <2>4. UNCHANGED <<group_num_, Threads, Groups>> BY <2>1 DEF group_num_, Threads, Groups
  <2>5. StageInv' /\ (\A t \in Threads : got[t] = NotYet)
    <3>1. pc' # "create" /\ pc' # "stat" BY <1>5, <2>1 DEF ReadPacket
    <3> QED BY <1>0, <2>1, <3>1 DEF StageInv, CopyInv
  <2>6. CopyInv' BY <2>1, <2>4, <2>5 DEF CopyInv
  <2>7. CASE UNCHANGED datas_
    <3>1. pc' \in Labels BY <1>0, <1>5 DEF ReadPacket, TypeInv, Labels
    <3>2. TypeInv' BY <1>0, <2>1, <2>3, <2>4, <2>7, <3>1 DEF TypeInv
    <3>3. GroupInv' BY <1>0, <2>1, <2>4, <2>7 DEF GroupInv, Hash4Tuple
    <3> QED BY <2>5, <2>6, <3>2, <3>3 DEF PcapInv
  <2>8. CASE ~UNCHANGED datas_
    <3>1. /\ Parsed(start) /\ pc' = pc
          /\ datas_' = [datas_ EXCEPT ![h] = Append(@, packet)]
      BY <1>5, <2>8 DEF ReadPacket
    <3>2. packet \in PcapPacket /\ packet.at = offset
      BY <1>0, <2>2, <3>1, ParsedPacket
    <3> HIDE DEF packet, start, h
    <3>3. datas_ \in [Groups -> Seq(PcapPacket)] BY <1>0 DEF TypeInv
    <3>4. datas_' \in [Groups -> Seq(PcapPacket)]
      <4>1. \A s \in Seq(PcapPacket) : Append(s, packet) \in Seq(PcapPacket) BY <3>2
      <4>2. h \in Groups => Append(datas_[h], packet) \in Seq(PcapPacket) BY <3>3, <4>1
      <4> HIDE DEF PcapPacket, Groups
      <4> QED BY <3>1, <3>3, <4>2
    <3>5. TypeInv' BY <1>0, <2>1, <2>3, <2>4, <3>1, <3>4 DEF TypeInv
    <3>6. ASSUME NEW g \in Groups, NEW k \in 1..Len(datas_'[g])
          PROVE  /\ Hash4Tuple(datas_'[g][k]) % group_num_ = g
                 /\ datas_'[g][k].at <= length
      <4>1. CASE g = h
        <5>1. datas_'[g] = Append(datas_[g], packet) /\ datas_[g] \in Seq(PcapPacket)
          BY <3>1, <3>3, <4>1
        <5>2. CASE k \in 1..Len(datas_[g])
          <6>1. datas_'[g][k] = datas_[g][k] BY <5>1, <5>2
          <6> QED BY <1>0, <5>2, <6>1 DEF GroupInv
        <5>3. CASE k \notin 1..Len(datas_[g])
          <6>1. datas_'[g][k] = packet BY <3>6, <5>1, <5>3
          <6> QED BY <2>1, <2>2, <3>2, <4>1, <6>1 DEF h
        <5> QED BY <5>2, <5>3
      <4>2. CASE g # h
        <5>1. datas_'[g] = datas_[g] BY <3>1, <3>3, <4>2
        <5> QED BY <1>0, <3>6, <5>1 DEF GroupInv
      <4> QED BY <4>1, <4>2
    <3>7. GroupInv' BY <2>1, <2>4, <3>6 DEF GroupInv, Hash4Tuple
    <3> QED BY <2>5, <2>6, <3>5, <3>7 DEF PcapInv
  <2> QED BY <2>7, <2>8
<1>6. ASSUME NEW id \in Threads, Get(id) PROVE PcapInv'
  <2>1. /\ UNCHANGED <<capture, packet_core_num, file, data, length, heap, offset, datas_>>
        /\ pc \in {"done", "failed"} /\ pc' \in {pc, "crashed"}
    BY <1>6 DEF Get, inputs, bufferVars
  <2>2. UNCHANGED <<group_num_, Threads, Groups>> BY <2>1 DEF group_num_, Threads, Groups
  <2>3. got' = got \/ got' = [got EXCEPT ![id] = datas_[GroupOf(id)]] BY <1>6 DEF Get
  <2>4. DOMAIN got = Threads BY <1>0 DEF TypeInv
  <2>5. TypeInv' BY <1>0, <2>1, <2>2, <2>3 DEF TypeInv, Labels
  <2>6. StageInv' BY <2>1 DEF StageInv
  <2>7. GroupInv' BY <1>0, <2>1, <2>2 DEF GroupInv, Hash4Tuple
  <2>8. CopyInv'
    <3>1. \A t \in Threads : got'[t] = got[t] \/ got'[t] = datas_[GroupOf(t)]
      BY <2>3, <2>4
    <3>2. \A t \in Threads : got'[t] = NotYet \/ got'[t] = datas_[GroupOf(t)]
      BY <1>0, <3>1 DEF CopyInv
    <3> QED BY <2>1, <2>2, <3>2 DEF CopyInv, GroupOf
  <2> QED BY <2>5, <2>6, <2>7, <2>8 DEF PcapInv
<1>7. CASE UNCHANGED vars
  <2>1. UNCHANGED <<capture, packet_core_num, file, data, length, heap, offset, datas_, pc, got>>
    BY <1>7 DEF vars, inputs, bufferVars
  <2>2. UNCHANGED <<group_num_, Threads, Groups>> BY <2>1 DEF group_num_, Threads, Groups
  <2>3. TypeInv' /\ StageInv' BY <1>0, <2>1, <2>2 DEF TypeInv, StageInv
  <2> QED BY <2>1, <2>3, QuietStep DEF inputs
<1> QED BY <1>1, <1>2, <1>3, <1>4, <1>5, <1>6, <1>7 DEF Next

LEMMA SpecPcap == Spec => []PcapInv
  BY PcapInit, PcapStep, PTL DEF Spec

----------------------------------------------------------------------------
\* What a vector holds.

LEMMA PacketOfRange ==
  ASSUME NEW S, NEW s \in Seq(S), NEW x \in Range(s)
  PROVE  \E k \in 1..Len(s) : s[k] = x
  BY DEF Range

\* Every packet kept started inside the file, and every vector exists, for any
\* content of the file and of the memory behind it.
THEOREM Types == Spec => []TypeOK
<1>1. ASSUME PcapInv PROVE TypeOK
  <2>0. TypeInv /\ GroupInv BY <1>1 DEF PcapInv
  <2>1. /\ data \in Seq(Nat) /\ datas_ \in [Groups -> Seq(PcapPacket)]
        /\ length \in Nat /\ offset \in Nat /\ pc \in Labels /\ DOMAIN got = Threads
    BY <2>0 DEF TypeInv
  <2>2. \A k \in DOMAIN data : data[k] \in Nat BY <2>1, LenProperties
  <2>3. DOMAIN datas_ = 0..(group_num_ - 1) BY <2>1 DEF Groups
  <2>4. ASSUME NEW packet \in Packets PROVE packet.at <= length
    <3>1. PICK g \in Groups : packet \in Range(datas_[g])
      BY <2>3, <2>4 DEF Packets, Groups
    <3>2. PICK k \in 1..Len(datas_[g]) : datas_[g][k] = packet
      <4>1. datas_[g] \in Seq(PcapPacket) BY <2>1
      <4> QED BY <3>1, <4>1, PacketOfRange
    <3> QED BY <2>0, <3>2 DEF GroupInv
  <2> QED BY <2>1, <2>2, <2>3, <2>4 DEF TypeOK, Labels
<1> QED BY <1>1, SpecPcap, PTL

\* The hash sees the four fields of a flow and nothing else.
LEMMA HashOfFlow ==
  ASSUME NEW p, NEW q, Flow(p) = Flow(q)
  PROVE  Hash4Tuple(p) = Hash4Tuple(q)
<1>1. /\ p.scr_ipv4 = q.scr_ipv4 /\ p.dst_ipv4 = q.dst_ipv4
      /\ p.scr_port = q.scr_port /\ p.dst_port = q.dst_port
  BY DEF Flow
<1> QED BY <1>1, Zenon DEF Hash4Tuple

\* The packets of a flow all go to one thread, and each packet to some thread,
\* for every number of threads that group_num_ can hold, whatever ^ computes.
THEOREM FlowsToOneThread == Spec => []FlowsStayTogether
<1>1. ASSUME PcapInv PROVE FlowsStayTogether
  <2> SUFFICES ASSUME packet_core_num \in 1..(2 ^ kGroupBits - 1),
                      \A id \in Threads : got[id] # NotYet
               PROVE  /\ Packets = UNION {Range(got[id]) : id \in Threads}
                      /\ \A id, jd \in Threads : id # jd =>
                           {Flow(packet) : packet \in Range(got[id])} \intersect
                           {Flow(packet) : packet \in Range(got[jd])} = {}
      BY DEF FlowsStayTogether
  <2>0. TypeInv /\ GroupInv /\ CopyInv BY <1>1 DEF PcapInv
  <2>1. 2 ^ kGroupBits \in Nat \ {0} BY PcapAssumption, PowerPositive
  <2>2. group_num_ = packet_core_num /\ packet_core_num \in Nat \ {0}
    BY <2>1 DEF group_num_
  <2>3. Threads = Groups /\ \A id \in Threads : GroupOf(id) = id
    BY <2>2 DEF Threads, Groups, GroupOf
  <2>4. \A id \in Threads : got[id] = datas_[id]
    BY <2>0, <2>3 DEF CopyInv
  <2>5. /\ datas_ \in [Groups -> Seq(PcapPacket)] /\ DOMAIN datas_ = Threads
    BY <2>0, <2>3 DEF TypeInv
  <2>6. Packets = UNION {Range(got[id]) : id \in Threads}
    BY <2>4, <2>5 DEF Packets
  <2>7. ASSUME NEW id \in Threads, NEW jd \in Threads, id # jd,
               NEW p \in Range(got[id]), NEW q \in Range(got[jd])
        PROVE  Flow(p) # Flow(q)
    <3>1. datas_[id] \in Seq(PcapPacket) /\ datas_[jd] \in Seq(PcapPacket)
      BY <2>3, <2>5
    <3>2. PICK k \in 1..Len(datas_[id]) : datas_[id][k] = p
      BY <2>4, <2>7, <3>1, PacketOfRange
    <3>3. PICK n \in 1..Len(datas_[jd]) : datas_[jd][n] = q
      BY <2>4, <2>7, <3>1, PacketOfRange
    <3>4. Hash4Tuple(p) % group_num_ = id /\ Hash4Tuple(q) % group_num_ = jd
      BY <2>0, <2>3, <3>2, <3>3 DEF GroupInv
    <3> QED BY <2>7, <3>4, HashOfFlow
  <2> QED BY <2>6, <2>7
<1> QED BY <1>1, SpecPcap, PTL

----------------------------------------------------------------------------
\* The walk over the buffer.

PacketsOf(D) == UNION {Range(D[g]) : g \in DOMAIN D}
WholeIn(P, len, k) == Place(P, k) + 1 + Len(P[k]) <= len
Stray(P, len, p) == \A k \in DOMAIN P : WholeIn(P, len, k) => p.at # Place(P, k)

\* What the vectors D hold when the walk over a buffer of size len is at off: the
\* whole packets before off, and once it has left the buffer perhaps a stray one.
WalkRight(P, len, off, D) ==
  \A k \in DOMAIN P : WholeIn(P, len, k) /\ Place(P, k) < off =>
    /\ Kept(P[k]) => \E p \in PacketsOf(D) : p.at = Place(P, k) /\ Flow(p) = FlowOf(P[k])
    /\ (\E p \in PacketsOf(D) : p.at = Place(P, k)) => Kept(P[k]) \/ Cut(P[k])
WalkBehind(P, len, off, D) ==
  \A p \in PacketsOf(D) : p.at < off /\ (Stray(P, len, p) => len < off)
WalkPlace(P, len, off) == off <= len => \E j \in 1..(Len(P) + 1) : off = Place(P, j)
OneStray(P, len, D) ==
  \A p, q \in PacketsOf(D) : Stray(P, len, p) /\ Stray(P, len, q) => p = q
InFileOrder(D) ==
  \A g \in DOMAIN D : \A m, n \in 1..Len(D[g]) : m < n => D[g][m].at < D[g][n].at
Walk(P, len, off, D) ==
  /\ WalkRight(P, len, off, D) /\ WalkBehind(P, len, off, D) /\ WalkPlace(P, len, off)
  /\ OneStray(P, len, D) /\ InFileOrder(D)

\* The buffer is a beginning of the file, and the file one of the capture's.
FileInv ==
  /\ file # Missing =>
       Len(file) <= Len(FileOf(capture)) /\ file = SubSeq(FileOf(capture), 1, Len(file))
  /\ pc \in {"header", "packets", "done"} =>
       Len(data) <= Len(FileOf(capture)) /\ data = SubSeq(FileOf(capture), 1, Len(data))
  /\ pc \in {"stat", "create", "header"} => offset = 0 /\ \A g \in Groups : datas_[g] = <<>>

WalkInv ==
  /\ pc = "done" => offset > length
  /\ pc \in {"packets", "done"} /\ Len(data) = length => Walk(capture, length, offset, datas_)

LEMMA CaptureIs ==
  ASSUME TypeInv
  PROVE  capture \in Seq(Seq(Nat)) /\ DOMAIN capture = 1..Len(capture)
         /\ FileOf(capture) \in Seq(Nat) /\ Len(FileOf(capture)) \in Nat
<1>1. capture \in Seq(Seq(Nat)) BY PcapAssumption DEF TypeInv
<1> QED BY <1>1, FileOfIs, LenProperties

\* The cells of a record whose header, or all of it, is in the buffer.
LEMMA InBuffer ==
  ASSUME TypeInv, Len(data) <= Len(FileOf(capture)), data = SubSeq(FileOf(capture), 1, Len(data)),
         Len(data) = length, NEW k \in 1..Len(capture)
  PROVE  /\ Place(capture, k) < length => Cell(Place(capture, k)) = Len(capture[k])
         /\ WholeIn(capture, length, k) =>
              \A i \in 1..Len(capture[k]) : Cell(Place(capture, k) + i) = capture[k][i]
<1> DEFINE F == FileOf(capture)
           a == Place(capture, k)
           n == Len(capture[k])
<1>1. capture \in Seq(Seq(Nat)) /\ F \in Seq(Nat) /\ Len(F) \in Nat BY CaptureIs
<1>2. a \in Nat /\ n \in Nat /\ Holds(F, capture, k)
  <2>1. Len(capture) \in Nat BY <1>1, LenProperties
  <2>2. k \in 1..(Len(capture) + 1) BY <2>1
  <2> QED BY <1>1, <2>2, Layout
<1>3. F[a + 1] = n /\ \A i \in 1..n : F[a + 1 + i] = capture[k][i] BY <1>2, Zenon DEF Holds
<1>4. length \in Nat /\ data \in Seq(Nat) BY DEF TypeInv
<1>5. \A i \in 1..length : data[i] = F[i]
  <2>1. length \in 0..Len(F) BY <1>1, <1>4
  <2>2. \A i \in 1..length : SubSeq(F, 1, length)[i] = F[i] BY <1>1, <2>1, PrefixOfSeq
  <2> QED BY <2>2
<1>6. WholeIn(capture, length, k) => a + 1 + n <= length BY Zenon DEF WholeIn
<1> HIDE DEF F, a, n
<1>7. ASSUME a < length PROVE Cell(a) = n
  <2>1. a + 1 \in 1..length BY <1>2, <1>4, <1>7
  <2>2. Cell(a) = data[a + 1] BY <1>7 DEF Cell
  <2> QED BY <1>3, <1>5, <2>1, <2>2
<1>8. ASSUME a + 1 + n <= length, NEW i \in 1..n PROVE Cell(a + i) = capture[k][i]
  <2>1. a + 1 + i \in 1..length /\ a + i < length /\ (a + i) + 1 = a + 1 + i
    BY <1>2, <1>4, <1>8
  <2>2. Cell(a + i) = data[(a + i) + 1] BY <2>1 DEF Cell
  <2>3. Cell(a + i) = F[a + 1 + i] BY <1>5, <2>1, <2>2
  <2> QED BY <1>3, <2>3
<1> QED BY <1>6, <1>7, <1>8 DEF a, n

\* ParsePacket on a record that is whole.
LEMMA ParsedWhole ==
  ASSUME TypeInv, NEW p \in Seq(Nat), NEW a \in Nat,
         \A i \in 1..Len(p) : Cell(a + i) = p[i]
  PROVE  /\ Kept(p) => Parsed(a + 1) /\ Flow(ParsePacket(a + 1)) = FlowOf(p)
         /\ Parsed(a + 1) => Kept(p) \/ Cut(p)
<1> DEFINE n == Len(p)
<1>1. n \in Nat BY LenProperties
<1>2. \A i \in 1..n : Cell(a + i) = p[i] OBVIOUS
<1>3. n = 0 => p = <<>> BY EmptySeq
<1>4. n = 1 /\ p[1] = IPv4 => p = <<IPv4>>
  <2> SUFFICES ASSUME n = 1, p[1] = IPv4 PROVE p = <<IPv4>> OBVIOUS
  <2>1. <<IPv4>> \in Seq(Nat) /\ Len(<<IPv4>>) = 1 /\ <<IPv4>>[1] = IPv4 BY DEF IPv4
  <2>2. \A i \in 1..1 : i = 1 OBVIOUS
  <2>3. \A i \in 1..1 : p[i] = <<IPv4>>[i] BY <2>1, <2>2
  <2> QED BY <2>1, <2>3, SeqEqual
<1> HIDE DEF n
<1>5. ASSUME Kept(p) PROVE Parsed(a + 1) /\ Flow(ParsePacket(a + 1)) = FlowOf(p)
  <2>1. p[1] = IPv4 /\ p[2] \in DOMAIN Options /\ ~(n < 4 + Options[p[2]])
    BY <1>5 DEF Kept, Cut, n
  <2> DEFINE o == Options[p[2]]
  <2>2. o \in Nat BY <2>1, OptionsFacts
  <2> HIDE DEF o
  <2>3. ~(n < 4 + o) BY <2>1 DEF o
  <2>4. 1 \in 1..n /\ 2 \in 1..n /\ 3 \in 1..n /\ 4 + o \in 1..n BY <1>1, <2>2, <2>3
  <2>5. Cell(a + 1) = p[1] /\ Cell(a + 2) = p[2] /\ Cell(a + 3) = p[3] /\ Cell(a + (4 + o)) = p[4 + o]
    BY <1>2, <2>4
  <2>6. (a + 1) + 1 = a + 2 /\ (a + 1) + 2 = a + 3 /\ (a + 1) + 3 + o = a + (4 + o) BY <2>2
  <2>7. Parsed(a + 1) BY <2>1, <2>5, <2>6, Zenon DEF Parsed
  <2>8. Ports(a + 1) = p[4 + o]
    <3>1. Ports(a + 1) = Cell((a + 1) + 3 + o) BY <2>5, <2>6, Zenon DEF Ports, o
    <3> QED BY <2>5, <2>6, <3>1, Zenon
  <2> DEFINE q == ParsePacket(a + 1)
  <2>9. /\ q.scr_ipv4 = p[3] \div 2 /\ q.dst_ipv4 = p[3] % 2
        /\ q.scr_port = p[4 + o] \div 2 /\ q.dst_port = p[4 + o] % 2
    <3>1. /\ q.scr_ipv4 = Cell((a + 1) + 2) \div 2 /\ q.dst_ipv4 = Cell((a + 1) + 2) % 2
          /\ q.scr_port = Ports(a + 1) \div 2 /\ q.dst_port = Ports(a + 1) % 2
      BY Zenon DEF ParsePacket
    <3> QED BY <2>5, <2>6, <2>8, <3>1, Zenon
  <2> HIDE DEF q
  <2>10. Flow(q) = FlowOf(p) BY <2>9, Zenon DEF Flow, FlowOf, o
  <2> QED BY <2>7, <2>10 DEF q
<1>6. ASSUME Parsed(a + 1), ~Cut(p) PROVE Kept(p)
  <2>1. Cell(a + 1) = IPv4 /\ Cell((a + 1) + 1) \in DOMAIN Options BY <1>6, Zenon DEF Parsed
  <2>2. p # <<>> /\ p # <<IPv4>> BY <1>6, Zenon DEF Cut
  <2>3. 1 \in 1..n BY <1>1, <1>3, <2>2
  <2>4. p[1] = IPv4 BY <1>2, <2>1, <2>3
  <2>5. n # 1 BY <1>4, <2>2, <2>4
  <2>6. 2 \in 1..n /\ (a + 1) + 1 = a + 2 BY <1>1, <2>3, <2>5
  <2>7. p[2] \in DOMAIN Options BY <1>2, <2>1, <2>6
  <2> QED BY <1>6, <2>4, <2>7, Zenon DEF Kept
<1> QED BY <1>5, <1>6

\* One round of the loop goes from a record to the next, or out of the buffer.
LEMMA NextPlace ==
  ASSUME TypeInv, Len(data) <= Len(FileOf(capture)), data = SubSeq(FileOf(capture), 1, Len(data)),
         Len(data) = length, NEW j \in 1..(Len(capture) + 1), offset = Place(capture, j),
         offset <= length, NEW next, next = offset + 1 + Cell(offset)
  PROVE  /\ next \in Nat /\ offset < next
         /\ \A k \in 1..Len(capture) :
              WholeIn(capture, length, k) /\ Place(capture, k) < next => Place(capture, k) < offset \/ k = j
         /\ next <= length => \E i \in 1..(Len(capture) + 1) : next = Place(capture, i)
         /\ (j \notin 1..Len(capture) \/ ~WholeIn(capture, length, j)) => length < next
<1> DEFINE n == Len(capture)
           c == Cell(offset)
           A(k) == Place(capture, k)
           L(k) == Len(capture[k])
<1>1. capture \in Seq(Seq(Nat)) BY CaptureIs
<1>2. /\ n \in Nat /\ (\A k \in 1..(n + 1) : A(k) \in Nat) /\ A(n + 1) = Len(FileOf(capture))
      /\ \A k \in 1..n : L(k) \in Nat /\ A(k + 1) = A(k) + 1 + L(k)
      /\ \A k \in 1..(n + 1) : \A i \in 1..(k - 1) : A(i) + 1 + L(i) <= A(k)
  BY <1>1, Layout
<1>3. offset \in Nat /\ length \in Nat BY DEF TypeInv
<1>4. c \in Nat BY <1>3, CellNat
<1>5. A(n + 1) >= length BY <1>2
<1>6. offset = A(j) /\ j \in 1..(n + 1) /\ offset <= length /\ next = offset + 1 + c OBVIOUS
<1>7. \A k \in 1..n : WholeIn(capture, length, k) <=> A(k) + 1 + L(k) <= length
  BY DEF WholeIn
<1>8. j \in 1..n /\ A(j) < length => c = L(j) BY <1>6, InBuffer
<1> HIDE DEF n, c, A, L
<1>9. next \in Nat /\ offset < next BY <1>3, <1>4, <1>6
<1>10. CASE j \in 1..n /\ A(j) < length
  <2>1. next = A(j + 1) /\ next = A(j) + 1 + L(j) /\ j + 1 \in 1..(n + 1)
    <3>1. c = L(j) BY <1>8, <1>10
    <3>2. L(j) \in Nat /\ A(j) \in Nat /\ A(j + 1) = A(j) + 1 + L(j) BY <1>2, <1>6, <1>10
    <3> QED BY <1>2, <1>6, <1>10, <3>1, <3>2
  <2>2. ASSUME NEW k \in 1..n, A(k) < next PROVE A(k) < offset \/ k = j
    <3>1. A(k) \in Nat /\ L(k) \in Nat BY <1>2
    <3>2. CASE k < j
      <4>1. k \in 1..(j - 1) BY <1>2, <1>6, <3>2
      <4>2. A(k) + 1 + L(k) <= A(j) BY <1>2, <1>6, <4>1
      <4> QED BY <1>3, <1>6, <3>1, <4>2
    <3>3. CASE k > j
      <4>1. j \in 1..(k - 1) /\ k \in 1..(n + 1) BY <1>2, <1>6, <3>3
      <4>2. A(j) + 1 + L(j) <= A(k) BY <1>2, <4>1
      <4>3. next <= A(k) BY <2>1, <4>2, Zenon
      <4> QED BY <1>9, <2>2, <3>1, <4>3
    <3> QED BY <1>6, <3>2, <3>3
  <2>3. ~WholeIn(capture, length, j) => length < next
    <3>1. ~WholeIn(capture, length, j) => ~(next <= length) BY <1>7, <1>10, <2>1, Zenon
    <3> QED BY <1>3, <1>9, <3>1
  <2> QED BY <1>9, <1>10, <2>1, <2>2, <2>3 DEF n, A
<1>11. CASE ~(j \in 1..n /\ A(j) < length)
  <2>1. offset >= length
    <3>1. CASE j \in 1..n BY <1>3, <1>6, <1>11, <3>1
    <3>2. CASE j \notin 1..n
      <4>1. j = n + 1 BY <1>2, <1>6, <3>2
      <4> QED BY <1>5, <1>6, <4>1
    <3> QED BY <3>1, <3>2
  <2>2. length < next BY <1>3, <1>9, <2>1
  <2>3. ASSUME NEW k \in 1..n, A(k) + 1 + L(k) <= length PROVE A(k) < offset
    <3>1. k \in 1..(n + 1) BY <1>2
    <3>2. A(k) \in Nat /\ L(k) \in Nat BY <1>2, <3>1
    <3> QED BY <1>3, <2>1, <2>3, <3>2
  <2>4. ~(next <= length) BY <1>3, <1>9, <2>2
  <2> QED BY <1>7, <1>9, <2>2, <2>3, <2>4 DEF n, A
<1> QED BY <1>10, <1>11

\* The new packets.
LEMMA PacketsAdded ==
  ASSUME datas_ \in [Groups -> Seq(PcapPacket)], NEW x \in PcapPacket, NEW h, NEW E,
         DOMAIN E = Groups, \A g \in Groups : E[g] = IF g = h THEN Append(datas_[g], x) ELSE datas_[g]
  PROVE  /\ \A p \in PacketsOf(E) : p \in PacketsOf(datas_) \/ p = x
         /\ PacketsOf(datas_) \subseteq PacketsOf(E)
         /\ h \in Groups => x \in PacketsOf(E)
         /\ InFileOrder(datas_) /\ (\A p \in PacketsOf(datas_) : p.at < x.at) => InFileOrder(E)
<1>1. DOMAIN datas_ = Groups /\ DOMAIN E = Groups OBVIOUS
<1>2. \A g \in Groups : datas_[g] \in Seq(PcapPacket) OBVIOUS
<1>3. \A g \in Groups : E[g] = IF g = h THEN Append(datas_[g], x) ELSE datas_[g] OBVIOUS
<1>4. \A p : p \in PacketsOf(datas_) <=> \E g \in Groups : p \in Range(datas_[g])
  BY <1>1 DEF PacketsOf
<1>5. \A p : p \in PacketsOf(E) <=> \E g \in Groups : p \in Range(E[g])
  BY <1>1 DEF PacketsOf
<1>6. ASSUME NEW s \in Seq(PcapPacket)
      PROVE  /\ \A p : p \in Range(Append(s, x)) <=> p \in Range(s) \/ p = x
             /\ \A k \in 1..Len(s) : s[k] \in Range(s) /\ Append(s, x)[k] = s[k]
             /\ Append(s, x)[Len(s) + 1] = x /\ Len(Append(s, x)) = Len(s) + 1 /\ Len(s) \in Nat
  <2> DEFINE m == Len(s)
             t == Append(s, x)
  <2>1. m \in Nat /\ DOMAIN s = 1..m BY LenProperties
  <2>2. /\ t \in Seq(PcapPacket) /\ Len(t) = m + 1 /\ t[m + 1] = x
        /\ \A k \in 1..m : t[k] = s[k]
    BY AppendProperties
  <2> HIDE DEF t, m
  <2>3. DOMAIN t = 1..(m + 1) BY <2>2, LenProperties
  <2>4. \A p : p \in Range(t) <=> \E k \in 1..(m + 1) : p = t[k] BY <2>3 DEF Range
  <2>5. \A p : p \in Range(s) <=> \E k \in 1..m : p = s[k] BY <2>1 DEF Range
  <2>6. \A k \in 1..(m + 1) : k \in 1..m \/ k = m + 1 BY <2>1
  <2>7. m + 1 \in 1..(m + 1) /\ \A k \in 1..m : k \in 1..(m + 1) BY <2>1
  <2>8. \A p : p \in Range(t) <=> p \in Range(s) \/ p = x
    <3> SUFFICES ASSUME NEW p PROVE p \in Range(t) <=> p \in Range(s) \/ p = x OBVIOUS
    <3>1. ASSUME p \in Range(t) PROVE p \in Range(s) \/ p = x
      <4>1. PICK k \in 1..(m + 1) : p = t[k] BY <2>4, <3>1
      <4>2. CASE k \in 1..m BY <2>2, <2>5, <4>1, <4>2
      <4>3. CASE k = m + 1 BY <2>2, <4>1, <4>3
      <4> QED BY <2>6, <4>2, <4>3
    <3>2. ASSUME p \in Range(s) PROVE p \in Range(t)
      <4>1. PICK k \in 1..m : p = s[k] BY <2>5, <3>2
      <4>2. p = t[k] /\ k \in 1..(m + 1) BY <2>2, <2>7, <4>1
      <4> QED BY <2>4, <4>2
    <3>3. x \in Range(t) BY <2>2, <2>4, <2>7
    <3> QED BY <3>1, <3>2, <3>3
  <2>9. \A k \in 1..m : s[k] \in Range(s) BY <2>5
  <2> QED BY <2>1, <2>2, <2>8, <2>9 DEF t, m
<1>7. \A g \in Groups : \A p : p \in Range(E[g]) <=> p \in Range(datas_[g]) \/ (g = h /\ p = x)
  <2> SUFFICES ASSUME NEW g \in Groups, NEW p
               PROVE  p \in Range(E[g]) <=> p \in Range(datas_[g]) \/ (g = h /\ p = x)
    OBVIOUS
  <2>1. p \in Range(Append(datas_[g], x)) <=> p \in Range(datas_[g]) \/ p = x BY <1>2, <1>6
  <2> QED BY <1>3, <2>1, Zenon
<1>8. ASSUME InFileOrder(datas_), \A p \in PacketsOf(datas_) : p.at < x.at PROVE InFileOrder(E)
  <2> SUFFICES ASSUME NEW g \in Groups, NEW m \in 1..Len(E[g]), NEW n \in 1..Len(E[g]), m < n
               PROVE  E[g][m].at < E[g][n].at
    BY <1>1, Zenon DEF InFileOrder
  <2>1. CASE g # h
    <3>1. E[g] = datas_[g] BY <1>3, <2>1
    <3> QED BY <1>1, <1>8, <3>1, Zenon DEF InFileOrder
  <2>2. CASE g = h
    <3> DEFINE s == datas_[g]
               l == Len(s)
    <3>1. /\ E[g] = Append(s, x) /\ s \in Seq(PcapPacket) BY <1>2, <1>3, <2>2
    <3>2. /\ \A k \in 1..l : s[k] \in Range(s) /\ E[g][k] = s[k]
          /\ E[g][l + 1] = x /\ Len(E[g]) = l + 1 /\ l \in Nat
      BY <1>6, <3>1
    <3>3. \A k \in 1..l : s[k].at < x.at BY <1>4, <1>8, <3>2, Zenon
    <3>4. \A i, k \in 1..l : i < k => s[i].at < s[k].at BY <1>1, <1>8, Zenon DEF InFileOrder
    <3> HIDE DEF s, l
    <3>5. m \in 1..l /\ (n \in 1..l \/ n = l + 1) BY <3>2
    <3>6. CASE n \in 1..l BY <3>2, <3>4, <3>5, <3>6, Zenon
    <3>7. CASE n = l + 1 BY <3>2, <3>3, <3>5, <3>7, Zenon
    <3> QED BY <3>5, <3>6, <3>7
  <2> QED BY <2>1, <2>2
<1> QED BY <1>4, <1>5, <1>7, <1>8, Zenon

\* One round of the loop keeps the walk right, whatever it read.
LEMMA WalkStep ==
  ASSUME TypeInv, Len(data) <= Len(FileOf(capture)), data = SubSeq(FileOf(capture), 1, Len(data)),
         Len(data) = length, offset <= length, Walk(capture, length, offset, datas_),
         NEW next, next = offset + 1 + Cell(offset),
         NEW E, \/ E = datas_ /\ ~Parsed(offset + 1)
                \/ /\ Parsed(offset + 1) /\ group_num_ # 0
                   /\ E = [datas_ EXCEPT ![Hash4Tuple(ParsePacket(offset + 1)) % group_num_] =
                                           Append(@, ParsePacket(offset + 1))],
         Hash4Tuple(ParsePacket(offset + 1)) % group_num_ \in Groups \/ ~Parsed(offset + 1)
  PROVE  Walk(capture, length, next, E)
<1> DEFINE n == Len(capture)
           x == ParsePacket(offset + 1)
           h == Hash4Tuple(x) % group_num_
           Old == PacketsOf(datas_)
           New == PacketsOf(E)
           A(k) == Place(capture, k)
           W(k) == WholeIn(capture, length, k)
           St(p) == Stray(capture, length, p)
<1>1. /\ capture \in Seq(Seq(Nat)) /\ DOMAIN capture = 1..n /\ n \in Nat
  BY CaptureIs, LenProperties
<1>2. /\ WalkRight(capture, length, offset, datas_) /\ WalkBehind(capture, length, offset, datas_)
      /\ WalkPlace(capture, length, offset) /\ InFileOrder(datas_)
  BY Zenon DEF Walk
<1>3. PICK j \in 1..(n + 1) : offset = A(j) BY <1>2 DEF WalkPlace
<1>4. /\ next \in Nat /\ offset < next
      /\ \A k \in 1..n : W(k) /\ A(k) < next => A(k) < offset \/ k = j
      /\ next <= length => \E i \in 1..(n + 1) : next = A(i)
      /\ (j \notin 1..n \/ ~W(j)) => length < next
  BY <1>3, NextPlace
<1>5. offset \in Nat /\ length \in Nat /\ datas_ \in [Groups -> Seq(PcapPacket)] BY DEF TypeInv
<1>6. Parsed(offset + 1) => x \in PcapPacket /\ x.at = offset
  <2> SUFFICES ASSUME Parsed(offset + 1) PROVE x \in PcapPacket /\ x.at = offset OBVIOUS
  <2>1. offset + 1 \in Nat \ {0} /\ (offset + 1) - 1 = offset BY <1>5
  <2> QED BY <2>1, ParsedPacket
<1>7. \A p \in Old : p.at < offset /\ ~St(p)
  <2>1. \A p \in Old : p.at < offset /\ (St(p) => length < offset) BY <1>2, Zenon DEF WalkBehind
  <2>2. ~(length < offset) BY <1>5
  <2> QED BY <2>1, <2>2, Zenon
<1>8. /\ \A p \in New : p \in Old \/ (p = x /\ Parsed(offset + 1))
      /\ \A p \in Old : p \in New
      /\ Parsed(offset + 1) => x \in New
      /\ InFileOrder(E)
  <2>1. CASE E = datas_ /\ ~Parsed(offset + 1) BY <1>2, <2>1
  <2>2. CASE Parsed(offset + 1) /\ E = [datas_ EXCEPT ![h] = Append(@, x)]
    <3>1. x \in PcapPacket /\ x.at = offset /\ h \in Groups BY <1>6, <2>2
    <3>2. \A p \in Old : p.at < x.at BY <1>7, <3>1
    <3> HIDE DEF x, h
    <3>3. /\ DOMAIN E = Groups
          /\ \A g \in Groups : E[g] = IF g = h THEN Append(datas_[g], x) ELSE datas_[g]
      <4>1. E = [datas_ EXCEPT ![h] = Append(@, x)] /\ DOMAIN datas_ = Groups BY <1>5, <2>2
      <4> HIDE DEF Groups
      <4> QED BY ONLY <4>1
    <3>5. datas_ \in [Groups -> Seq(PcapPacket)] BY <1>5
    <3>6. x \in PcapPacket BY <3>1
    <3>7. DOMAIN E = Groups BY <3>3
    <3>8. \A g \in Groups : E[g] = IF g = h THEN Append(datas_[g], x) ELSE datas_[g] BY <3>3
    <3>4. /\ \A p \in PacketsOf(E) : p \in PacketsOf(datas_) \/ p = x
          /\ PacketsOf(datas_) \subseteq PacketsOf(E)
          /\ h \in Groups => x \in PacketsOf(E)
          /\ InFileOrder(datas_) /\ (\A p \in PacketsOf(datas_) : p.at < x.at) => InFileOrder(E)
      BY ONLY <3>5, <3>6, <3>7, <3>8, PacketsAdded, Zenon
    <3> QED BY <1>2, <2>2, <3>1, <3>2, <3>4
  <2> QED BY <2>1, <2>2
<1>9. ASSUME j \in 1..n, W(j)
      PROVE  /\ Kept(capture[j]) => Parsed(offset + 1) /\ Flow(x) = FlowOf(capture[j])
             /\ Parsed(offset + 1) => Kept(capture[j]) \/ Cut(capture[j])
  <2>1. \A i \in 1..Len(capture[j]) : Cell(A(j) + i) = capture[j][i] BY <1>9, InBuffer
  <2>2. \A i \in 1..Len(capture[j]) : Cell(offset + i) = capture[j][i] BY <1>3, <2>1
  <2>3. capture[j] \in Seq(Nat) BY <1>1, <1>9, ElementOfSeq
  <2> QED BY <1>5, <2>2, <2>3, ParsedWhole
<1> HIDE DEF x, h, n
<1>10. WalkRight(capture, length, next, E)
  <2> SUFFICES ASSUME NEW k \in 1..n, W(k), A(k) < next
               PROVE  /\ Kept(capture[k]) => \E p \in New : p.at = A(k) /\ Flow(p) = FlowOf(capture[k])
                      /\ (\E p \in New : p.at = A(k)) => Kept(capture[k]) \/ Cut(capture[k])
    BY <1>1, Zenon DEF WalkRight
  <2>1. CASE A(k) < offset
    <3>1. /\ Kept(capture[k]) => \E p \in Old : p.at = A(k) /\ Flow(p) = FlowOf(capture[k])
          /\ (\E p \in Old : p.at = A(k)) => Kept(capture[k]) \/ Cut(capture[k])
      BY <1>1, <1>2, <2>1, Zenon DEF WalkRight
    <3>2. ~(offset < offset) BY <1>5
    <3>3. ASSUME NEW p \in New, p.at = A(k) PROVE p \in Old
      <4>1. p.at < offset BY <2>1, <3>3, Zenon
      <4>2. p = x /\ Parsed(offset + 1) => p.at = offset BY <1>6, Zenon
      <4> QED BY <1>8, <3>2, <4>1, <4>2, Zenon
    <3> QED BY <1>8, <3>1, <3>3, Zenon
  <2>2. CASE ~(A(k) < offset)
    <3>1. k = j /\ j \in 1..n /\ W(j) BY <1>4, <2>2, Zenon
    <3>2. /\ Kept(capture[j]) => Parsed(offset + 1) /\ Flow(x) = FlowOf(capture[j])
          /\ Parsed(offset + 1) => Kept(capture[j]) \/ Cut(capture[j])
      BY <1>9, <3>1, Zenon
    <3>3. Kept(capture[j]) => \E p \in New : p.at = A(j) /\ Flow(p) = FlowOf(capture[j])
      BY <1>3, <1>6, <1>8, <3>2, Zenon
    <3>4. ASSUME NEW p \in New, p.at = A(j) PROVE Parsed(offset + 1)
      <4>1. ~(offset < offset) BY <1>5
      <4>2. p \notin Old BY <1>3, <1>7, <3>4, <4>1, Zenon
      <4> QED BY <1>8, <4>2, Zenon
    <3> QED BY <3>1, <3>2, <3>3, <3>4, Zenon
  <2> QED BY <2>1, <2>2
<1>11. ASSUME NEW p \in New, St(p) PROVE p = x /\ length < next /\ Parsed(offset + 1)
  <2>1. p = x /\ Parsed(offset + 1) BY <1>7, <1>8, <1>11, Zenon
  <2>2. p.at = A(j) BY <1>3, <1>6, <2>1, Zenon
  <2>3. j \notin 1..n \/ ~W(j) BY <1>1, <1>11, <2>2, Zenon DEF Stray
  <2> QED BY <1>4, <2>1, <2>3, Zenon
<1>12. WalkBehind(capture, length, next, E)
  <2> SUFFICES ASSUME NEW p \in New PROVE p.at < next /\ (St(p) => length < next)
    BY Zenon DEF WalkBehind
  <2>1. CASE p \in Old
    <3>1. PICK g \in Groups : p \in Range(datas_[g]) BY <1>5, <2>1 DEF PacketsOf
    <3>2. datas_[g] \in Seq(PcapPacket) BY <1>5
    <3>3. PICK k \in 1..Len(datas_[g]) : datas_[g][k] = p BY <3>1, <3>2, PacketOfRange
    <3>4. p \in PcapPacket BY <3>2, <3>3, ElementOfSeq
    <3> DEFINE t == p.at
    <3>5. t \in Nat BY <3>4 DEF PcapPacket
    <3>6. t < offset BY <1>7, <2>1
    <3> HIDE DEF t
    <3>7. t < next BY <1>4, <1>5, <3>5, <3>6
    <3> QED BY <1>11, <3>7, Zenon DEF t
  <2>2. CASE p = x /\ Parsed(offset + 1)
    <3>1. p.at < next BY <1>4, <1>6, <2>2, Zenon
    <3> QED BY <1>11, <3>1, Zenon
  <2> QED BY <1>8, <2>1, <2>2
<1>13. WalkPlace(capture, length, next) BY <1>4, Zenon DEF WalkPlace, n
<1>14. OneStray(capture, length, E) BY <1>11, Zenon DEF OneStray
<1> QED BY <1>8, <1>10, <1>12, <1>13, <1>14, Zenon DEF Walk

\* The walk begins behind the file header, with nothing read.
LEMMA WalkStart ==
  ASSUME TypeInv, \A g \in Groups : datas_[g] = <<>>
  PROVE  Walk(capture, length, 1, datas_)
<1> DEFINE n == Len(capture)
           A(k) == Place(capture, k)
<1>1. /\ capture \in Seq(Seq(Nat)) /\ DOMAIN capture = 1..n /\ n \in Nat
  BY CaptureIs, LenProperties
<1>2. DOMAIN datas_ = Groups BY DEF TypeInv
<1>3. \A p : p \notin PacketsOf(datas_)
  <2>1. \A p : p \notin Range(<<>>) BY DEF Range
  <2>2. \A p : p \in PacketsOf(datas_) => \E g \in Groups : p \in Range(datas_[g])
    BY <1>2 DEF PacketsOf
  <2> QED BY <2>1, <2>2, Zenon
<1>4. /\ A(1) = 1 /\ \A k \in 1..n : A(k) \in Nat /\ Len(capture[k]) \in Nat
      /\ \A k \in 1..(n + 1) : \A i \in 1..(k - 1) : A(i) + 1 + Len(capture[i]) <= A(k)
  <2>1. \A k \in 1..n : k \in 1..(n + 1) BY <1>1
  <2> QED BY <1>1, <2>1, Layout
<1>5. \A k \in 1..n : ~(A(k) < 1)
  <2> SUFFICES ASSUME NEW k \in 1..n PROVE ~(A(k) < 1) OBVIOUS
  <2>1. CASE k = 1 BY <1>4, <2>1
  <2>2. CASE k # 1
    <3> DEFINE l == Len(capture[1])
               a == A(k)
    <3>1. 1 \in 1..(k - 1) /\ k \in 1..(n + 1) /\ 1 \in 1..n BY <1>1, <2>2
    <3>2. 1 + 1 + l <= a /\ l \in Nat /\ a \in Nat BY <1>4, <3>1
    <3> HIDE DEF l, a
    <3>3. ~(a < 1) BY <3>2
    <3> QED BY <3>3 DEF a
  <2> QED BY <2>1, <2>2
<1> HIDE DEF A
<1>6. WalkRight(capture, length, 1, datas_) BY <1>1, <1>5, Zenon DEF WalkRight, A
<1>7. WalkBehind(capture, length, 1, datas_) /\ OneStray(capture, length, datas_)
  BY <1>3, Zenon DEF WalkBehind, OneStray
<1>8. WalkPlace(capture, length, 1)
  <2>1. 1 \in 1..(n + 1) BY <1>1
  <2> QED BY <1>4, <2>1, Zenon DEF WalkPlace, A
<1>9. InFileOrder(datas_)
  <2> SUFFICES ASSUME NEW g \in Groups, NEW m \in 1..Len(datas_[g]) PROVE FALSE
    BY <1>2, Zenon DEF InFileOrder
  <2>1. m \in 1..Len(<<>>) BY Zenon
  <2> QED BY <2>1
<1> QED BY <1>6, <1>7, <1>8, <1>9, Zenon DEF Walk

LEMMA PrefixOfPrefix ==
  ASSUME NEW S, NEW F \in Seq(S), NEW m \in 0..Len(F), NEW n \in 0..m
  PROVE  SubSeq(SubSeq(F, 1, m), 1, n) = SubSeq(F, 1, n)
<1> DEFINE s == SubSeq(F, 1, m)
           t == SubSeq(s, 1, n)
           u == SubSeq(F, 1, n)
<1>1. s \in Seq(S) /\ Len(s) = m /\ \A k \in 1..m : s[k] = F[k] BY PrefixOfSeq
<1> HIDE DEF s
<1>2. n \in 0..Len(s) /\ n \in 0..Len(F) /\ n \in Nat BY <1>1, LenProperties
<1>3. t \in Seq(S) /\ Len(t) = n /\ \A k \in 1..n : t[k] = s[k] BY <1>1, <1>2, PrefixOfSeq
<1>4. u \in Seq(S) /\ Len(u) = n /\ \A k \in 1..n : u[k] = F[k] BY <1>2, PrefixOfSeq
<1>5. \A k \in 1..n : k \in 1..m BY <1>2
<1> HIDE DEF t, u
<1>6. \A k \in 1..n : t[k] = u[k] BY <1>1, <1>3, <1>4, <1>5, Zenon
<1>7. t = u BY <1>3, <1>4, <1>6, SeqEqual
<1> QED BY <1>7 DEF s, t, u

LEMMA FileInit == Init => FileInv
<1> SUFFICES ASSUME Init PROVE FileInv OBVIOUS
<1> DEFINE F == FileOf(capture)
<1>1. TypeInv BY PcapInit DEF PcapInv
<1>2. F \in Seq(Nat) /\ Len(F) \in Nat BY <1>1, CaptureIs
<1>3. file # Missing => Len(file) <= Len(F) /\ file = SubSeq(F, 1, Len(file))
  <2> SUFFICES ASSUME NEW m \in 0..Len(F), file = SubSeq(F, 1, m)
               PROVE  Len(file) <= Len(F) /\ file = SubSeq(F, 1, Len(file))
    BY DEF Init
  <2> HIDE DEF F
  <2>1. Len(file) = m BY <1>2, PrefixOfSeq
  <2> QED BY <1>2, <2>1
<1>4. datas_ = [g \in Groups |-> <<>>] /\ offset = 0 /\ pc = "stat" BY DEF Init, Groups
<1>5. \A g \in Groups : datas_[g] = <<>> BY <1>4, Zenon
<1> QED BY <1>3, <1>4, <1>5 DEF FileInv

LEMMA FileStep == PcapInv /\ FileInv /\ [Next]_vars => FileInv'
<1> SUFFICES ASSUME PcapInv, FileInv, [Next]_vars PROVE FileInv' OBVIOUS
<1> DEFINE F == FileOf(capture)
           Early == {"stat", "create", "header"}
           Late == {"header", "packets", "done"}
           Begins(s) == Len(s) <= Len(F) /\ s = SubSeq(F, 1, Len(s))
<1>0. TypeInv /\ StageInv BY DEF PcapInv
<1>1. F \in Seq(Nat) /\ Len(F) \in Nat BY <1>0, CaptureIs
<1>2. /\ file # Missing => Begins(file)
      /\ pc \in Late => Begins(data)
      /\ pc \in Early => offset = 0 /\ \A g \in Groups : datas_[g] = <<>>
  BY DEF FileInv
<1>3. \A s : \A m \in 0..Len(F) : s = SubSeq(F, 1, m) => Begins(s)
  <2> SUFFICES ASSUME NEW s, NEW m \in 0..Len(F), s = SubSeq(F, 1, m) PROVE Begins(s)
    OBVIOUS
  <2> HIDE DEF F
  <2>1. Len(s) = m BY <1>1, PrefixOfSeq
  <2> QED BY <1>1, <2>1
<1> HIDE DEF F
<1>4. UNCHANGED <<capture, packet_core_num, group_num_, Groups>>
  <2>1. UNCHANGED inputs
    BY DEF Next, Capture, Stat, Create, CreateFails, ReadHeader, ReadPacket, ReadDone, Get, vars
  <2> QED BY <2>1 DEF inputs, group_num_, Groups
<1>5. ASSUME file' # Missing => Begins(file'), pc' \in Late => Begins(data'),
             pc' \in Early => offset' = 0 /\ \A g \in Groups : datas_'[g] = <<>>
      PROVE  FileInv'
  BY <1>4, <1>5 DEF FileInv, F
<1>6. CASE Capture
  <2>1. /\ file # Missing /\ Len(file) < Len(F) /\ file' = SubSeq(F, 1, Len(file) + 1)
        /\ UNCHANGED <<data, offset, datas_, pc>>
    BY <1>6 DEF Capture, bufferVars, F
  <2>2. file \in Seq(Nat) /\ Len(file) \in Nat BY <1>0, <2>1, LenProperties DEF TypeInv
  <2> DEFINE m == Len(file) + 1
  <2>3. m \in 0..Len(F) /\ file' = SubSeq(F, 1, m) BY <1>1, <2>1, <2>2
  <2> HIDE DEF m, Begins
  <2>4. Begins(file') BY <1>3, <2>3
  <2> QED BY <1>2, <1>5, <2>1, <2>4
<1>7. CASE Create
  <2>1. PICK m \in 0..length : data' = SubSeq(file, 1, m) BY <1>7 DEF Create
  <2>2. UNCHANGED <<file, offset, datas_>> /\ pc = "create" /\ pc' = "header"
    BY <1>7 DEF Create
  <2>3. /\ file # Missing /\ length \in Nat /\ length <= Len(file)
    BY <1>0, <2>2 DEF TypeInv, StageInv
  <2>4. file \in Seq(Nat) /\ Len(file) \in Nat BY <1>0, <2>3, LenProperties DEF TypeInv
  <2> DEFINE l == Len(file)
  <2>5. l <= Len(F) /\ file = SubSeq(F, 1, l) BY <1>2, <2>3
  <2>6. l \in 0..Len(F) /\ m \in 0..l /\ m \in 0..Len(F) BY <1>1, <2>3, <2>4, <2>5
  <2> HIDE DEF l
  <2>7. SubSeq(file, 1, m) = SubSeq(F, 1, m) BY <1>1, <2>5, <2>6, PrefixOfPrefix
  <2> HIDE DEF Begins
  <2>8. Begins(data') BY <1>3, <2>1, <2>6, <2>7
  <2> QED BY <1>2, <1>5, <2>2, <2>8
<1>8. CASE Stat \/ CreateFails
  <2>1. UNCHANGED <<file, offset, datas_>> /\ pc \in {"stat", "create"} /\ pc' \in {"create", "failed"}
    BY <1>8 DEF Stat, CreateFails
  <2> HIDE DEF Begins
  <2> QED BY <1>2, <1>5, <2>1
<1>9. CASE ReadHeader \/ ReadPacket \/ ReadDone \/ \E id \in Threads : Get(id)
  <2>1. /\ UNCHANGED <<file, data>> /\ pc \in {"header", "packets", "done", "failed"}
        /\ pc' \in {"packets", "done", "failed", "crashed"}
        /\ pc' \in Late => pc \in Late
    BY <1>9 DEF ReadHeader, ReadPacket, ReadDone, Get, bufferVars
  <2> HIDE DEF Begins
  <2> QED BY <1>2, <1>5, <2>1
<1>10. CASE UNCHANGED vars
  <2>1. UNCHANGED <<file, data, offset, datas_, pc>> BY <1>10 DEF vars, bufferVars
  <2> HIDE DEF Begins
  <2> QED BY <1>2, <1>5, <2>1
<1> QED BY <1>6, <1>7, <1>8, <1>9, <1>10 DEF Next

\* The operator ^ of two unsigned numbers is one; nothing else is asked of it.
XorOnNumbers == \A a, b \in Nat : XorOp(a, b) \in Nat

LEMMA HashNat ==
  ASSUME XorOnNumbers, NEW x \in PcapPacket
  PROVE  Hash4Tuple(x) \in Nat
<1> DEFINE a == x.scr_ipv4
           b == x.dst_ipv4
           c == x.scr_port
           d == x.dst_port
           w == 2 ^ 16
<1>1. a \in Nat /\ b \in Nat /\ c \in Nat /\ d \in Nat BY DEF PcapPacket
<1>2. w \in Nat
  <2>1. 16 \in Nat OBVIOUS
  <2> QED BY <2>1, PowerPositive
<1> HIDE DEF a, b, c, d, w
<1>3. \A i, j \in Nat : i * j \in Nat OBVIOUS
<1>4. a * 59 \in Nat /\ c * w \in Nat BY <1>1, <1>2, <1>3
<1>5. XorOp(a * 59, b) \in Nat /\ XorOp(c * w, d) \in Nat BY <1>1, <1>4, Zenon DEF XorOnNumbers
<1>6. XorOp(XorOp(a * 59, b), XorOp(c * w, d)) \in Nat BY <1>5, Zenon DEF XorOnNumbers
<1>7. Hash4Tuple(x) = XorOp(XorOp(a * 59, b), XorOp(c * w, d))
  BY Zenon DEF Hash4Tuple, a, b, c, d, w
<1> QED BY <1>6, <1>7

LEMMA WalkInvStep ==
  ASSUME XorOnNumbers
  PROVE  PcapInv /\ FileInv /\ WalkInv /\ [Next]_vars => WalkInv'
<1> SUFFICES ASSUME PcapInv, FileInv, WalkInv, [Next]_vars PROVE WalkInv' OBVIOUS
<1>0. TypeInv BY DEF PcapInv
<1>1. offset \in Nat /\ length \in Nat BY <1>0 DEF TypeInv
<1>2. CASE Capture \/ Stat \/ Create \/ CreateFails
  <2>1. pc' \notin {"packets", "done"}
    BY <1>2 DEF Capture, Stat, Create, CreateFails
  <2> QED BY <2>1 DEF WalkInv
<1>3. CASE ReadHeader
  <2>1. /\ UNCHANGED <<capture, data, length, datas_>> /\ offset' = offset + 1
        /\ pc = "header" /\ pc' = "packets"
    BY <1>3 DEF ReadHeader, inputs, bufferVars
  <2>2. offset' = 1 /\ \A g \in Groups : datas_[g] = <<>> BY <2>1 DEF FileInv
  <2>3. Walk(capture, length, 1, datas_) BY <1>0, <2>2, WalkStart
  <2> QED BY <2>1, <2>2, <2>3 DEF WalkInv
<1>4. CASE ReadPacket
  <2> DEFINE start == offset + 1
             packet == ParsePacket(start)
             h == Hash4Tuple(packet) % group_num_
             next == start + Cell(offset)
  <2>1. /\ UNCHANGED <<capture, data, length>> /\ offset' = next
        /\ pc = "packets" /\ offset <= length /\ pc' \in {pc, "crashed"}
        /\ pc' = pc => \/ datas_' = datas_ /\ ~Parsed(start)
                       \/ /\ Parsed(start) /\ group_num_ # 0
                          /\ datas_' = [datas_ EXCEPT ![h] = Append(@, packet)]
    BY <1>4 DEF ReadPacket, Another, inputs, bufferVars
  <2>2. h \in Groups \/ ~Parsed(start) \/ group_num_ = 0
    <3> SUFFICES ASSUME Parsed(start), group_num_ # 0 PROVE h \in Groups OBVIOUS
    <3>1. start \in Nat \ {0} BY <1>1
    <3>2. packet \in PcapPacket BY <1>0, <3>1, ParsedPacket
    <3>3. Hash4Tuple(packet) \in Int BY <3>2, HashNat
    <3>4. group_num_ \in Nat \ {0} BY <1>0 DEF TypeInv
    <3>5. h \in 0..(group_num_ - 1) BY <3>3, <3>4, DivMod, Zenon
    <3> QED BY <3>5, Zenon DEF Groups
  <2>3. ASSUME pc' = pc, Len(data) = length
        PROVE  Walk(capture, length, next, datas_')
    <3>1. /\ Len(data) <= Len(FileOf(capture)) /\ data = SubSeq(FileOf(capture), 1, Len(data))
          /\ Walk(capture, length, offset, datas_)
      BY <2>1, <2>3 DEF FileInv, WalkInv
    <3>2. h \in Groups \/ ~Parsed(start) BY <2>1, <2>2, <2>3
    <3> QED BY <1>0, <2>1, <2>3, <3>1, <3>2, WalkStep
  <2>4. pc' # "done" BY <2>1
  <2>5. ASSUME pc' = "packets", Len(data') = length' PROVE Walk(capture', length', offset', datas_')
    <3>1. Walk(capture, length, next, datas_') BY <2>1, <2>3, <2>5
    <3> QED BY <2>1, <3>1
  <2> QED BY <2>4, <2>5 DEF WalkInv
<1>5. CASE ReadDone
  <2>1. /\ UNCHANGED <<capture, data, length, datas_, offset>>
        /\ pc = "packets" /\ pc' = "done" /\ ~(offset <= length)
    BY <1>5 DEF ReadDone, Another, inputs, bufferVars
  <2> QED BY <1>1, <2>1 DEF WalkInv
<1>6. CASE (\E id \in Threads : Get(id)) \/ UNCHANGED vars
  <2>1. /\ UNCHANGED <<capture, data, length, datas_, offset>>
        /\ pc' = pc \/ pc' = "crashed"
    BY <1>6 DEF Get, inputs, bufferVars, vars
  <2> QED BY <2>1 DEF WalkInv
<1> QED BY <1>2, <1>3, <1>4, <1>5, <1>6 DEF Next

\* Whatever the capture, the memory around the buffer and the moment the file was
\* opened: the whole packets of the buffer are in the vectors, unchanged and in
\* order, and beside them at most one packet read from outside.
THEOREM CaptureInGroups ==
  ASSUME XorOnNumbers
  PROVE  Spec => []GroupsHoldCapture
<1>1. Init => FileInv /\ WalkInv
  <2>1. Init => WalkInv BY DEF Init, WalkInv
  <2> QED BY <2>1, FileInit
<1>2. ASSUME PcapInv, FileInv, WalkInv PROVE GroupsHoldCapture
  <2> SUFFICES ASSUME pc = "done", Len(data) = length PROVE GroupsHoldCapture
    BY DEF GroupsHoldCapture
  <2> DEFINE whole == {k \in DOMAIN capture : Whole(k)}
             sure == {k \in whole : Kept(capture[k])}
             stray == {packet \in Packets : \A k \in whole : packet.at # At(k)}
  <2>1. /\ Walk(capture, length, offset, datas_) /\ offset > length
        /\ offset \in Nat /\ length \in Nat /\ datas_ \in [Groups -> Seq(PcapPacket)]
    BY <1>2 DEF PcapInv, TypeInv, WalkInv
  <2>2. /\ WalkRight(capture, length, offset, datas_) /\ OneStray(capture, length, datas_)
        /\ InFileOrder(datas_)
    BY <2>1, Zenon DEF Walk
  <2>3. \A k : At(k) = Place(capture, k) BY Zenon DEF At, Place
  <2>4. \A k : Whole(k) <=> WholeIn(capture, length, k) BY <2>3, Zenon DEF Whole, WholeIn
  <2>5. Packets = PacketsOf(datas_) BY DEF Packets, PacketsOf
  <2>6. ASSUME NEW k \in DOMAIN capture, Whole(k)
        PROVE  /\ Kept(capture[k]) => \E packet \in Packets :
                    packet.at = At(k) /\ Flow(packet) = FlowOf(capture[k])
               /\ (\E packet \in Packets : packet.at = At(k)) =>
                    Kept(capture[k]) \/ Cut(capture[k])
    <3>1. Place(capture, k) < offset
      <4>1. /\ DOMAIN capture = 1..Len(capture) /\ capture \in Seq(Seq(Nat)) /\ Len(capture) \in Nat
        BY <1>2, CaptureIs, LenProperties DEF PcapInv
      <4>2. k \in 1..Len(capture) /\ k \in 1..(Len(capture) + 1) BY <2>6, <4>1
      <4> DEFINE a == Place(capture, k)
                 l == Len(capture[k])
      <4>3. a \in Nat /\ l \in Nat BY <4>1, <4>2, Layout
      <4>4. a + 1 + l <= length BY <2>4, <2>6, Zenon DEF WholeIn
      <4> HIDE DEF a, l
      <4>5. a < offset BY <2>1, <4>3, <4>4
      <4> QED BY <4>5 DEF a
    <3>2. WholeIn(capture, length, k) BY <2>4, <2>6
    <3> QED BY <2>2, <2>3, <2>5, <2>6, <3>1, <3>2, Zenon DEF WalkRight
  <2>7. \A k \in sure : \E packet \in Packets :
          packet.at = At(k) /\ Flow(packet) = FlowOf(capture[k])
    <3>1. \A k \in sure : k \in DOMAIN capture /\ Whole(k) /\ Kept(capture[k]) OBVIOUS
    <3> QED BY <2>6, <3>1, Zenon
  <2>8. \A k \in whole : (\E packet \in Packets : packet.at = At(k)) =>
          Kept(capture[k]) \/ Cut(capture[k])
    <3>1. \A k \in whole : k \in DOMAIN capture /\ Whole(k) OBVIOUS
    <3> QED BY <2>6, <3>1, Zenon
  <2>9. \A g \in DOMAIN datas_ : \A m, n \in DOMAIN datas_[g] :
          m < n => datas_[g][m].at < datas_[g][n].at
    <3>1. DOMAIN datas_ = Groups BY <2>1
    <3>2. \A g \in Groups : datas_[g] \in Seq(PcapPacket) BY <2>1
    <3>3. \A g \in Groups : DOMAIN datas_[g] = 1..Len(datas_[g]) BY <3>2, LenProperties
    <3> QED BY <2>2, <3>1, <3>3, Zenon DEF InFileOrder
  <2>10. Cardinality(stray) <= 1
    <3>1. \A p \in stray : p \in PacketsOf(datas_) /\ Stray(capture, length, p)
      <4> SUFFICES ASSUME NEW p \in Packets, \A k \in whole : p.at # At(k)
                   PROVE  Stray(capture, length, p)
        BY <2>5
      <4>1. \A k \in DOMAIN capture : Whole(k) => p.at # At(k) OBVIOUS
      <4> QED BY <2>3, <2>4, <4>1, Zenon DEF Stray
    <3>2. \A p, q \in stray : p = q BY <2>2, <3>1, Zenon DEF OneStray
    <3> HIDE DEF stray
    <3>3. CASE stray = {}
      <4>1. Cardinality({}) = 0 BY FS_EmptySet
      <4>2. 0 <= 1 OBVIOUS
      <4> QED BY <3>3, <4>1, <4>2, Zenon
    <3>4. CASE stray # {}
      <4>1. PICK p \in stray : TRUE BY <3>4
      <4>2. stray = {p} BY <3>2, <4>1
      <4>3. Cardinality({p}) = 1 BY FS_Singleton
      <4>4. 1 <= 1 OBVIOUS
      <4> QED BY <4>2, <4>3, <4>4, Zenon
    <3> QED BY <3>3, <3>4
  <2> HIDE DEF whole, sure, stray
  <2> QED BY <2>7, <2>8, <2>9, <2>10, Zenon DEF GroupsHoldCapture, whole, sure, stray
<1>3. PcapInv /\ FileInv /\ WalkInv /\ [Next]_vars => FileInv' /\ WalkInv'
  BY FileStep, WalkInvStep
<1> QED BY <1>1, <1>2, <1>3, PcapInit, PcapStep, PTL DEF Spec
====
