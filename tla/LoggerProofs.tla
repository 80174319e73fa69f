---- MODULE LoggerProofs ----
(***************************************************************************)
(* Theorems about Logger: for every number of packet threads, length of    *)
(* traffic, size of ring and files, rotation cycle and disk.               *)
(***************************************************************************)
EXTENDS Logger, CommonLemmas

----------------------------------------------------------------------------
\* Sequences.

LEMMA RemoveAtProperties ==
  ASSUME NEW S, NEW s \in Seq(S), NEW k \in 1..Len(s)
  PROVE  /\ RemoveAt(s, k) \in Seq(S) /\ Len(RemoveAt(s, k)) = Len(s) - 1
         /\ \A i \in 1..(Len(s) - 1) :
              RemoveAt(s, k)[i] = s[IF i < k THEN i ELSE i + 1]
  BY DropProperties DEF RemoveAt

----------------------------------------------------------------------------
\* Types and where a thread is when it holds something.

Reserving == {p \in PacketThreads : reserved[p] # <<>>}
FileRecord == [serial : Nat, lines : Seq(Packets)]
L == LoggerThread

\* The ring counts its room; a thread in push_back reserves the packet it is at;
\* a batch is on its way only between DoDequeue and the loop over data.
RingInv ==
  /\ room \in Nat
  /\ room + Len(queue) + Len(taken[L]) + Cardinality(Reserving) = Capacity
  /\ \A p \in PacketThreads :
       /\ reserved[p] # <<>> => reserved[p] = <<NextPacket(p)>> /\ packet_pc[p] = "for"
       /\ packet_pc[p] = "for" => pushed[p] < Pushes
  /\ taken[L] # <<>> => pc = "release"
  /\ out[L] # <<>> => pc = "dequeued"
  /\ data # <<>> => pc \in {"name", "each", "write", "rename"}

TypeInv ==
  /\ queue \in Seq(Packets) /\ room \in Nat
  /\ reserved \in [PacketThreads -> Seq(Packets)]
  /\ taken \in [{L} -> Seq(Packets)] /\ out \in [{L} -> Seq(Packets)]
  /\ StopRunning \in BOOLEAN /\ SkipOutput \in BOOLEAN /\ cmd \in {"readLine", "joined"}
  /\ packet_pc \in [PacketThreads -> {"while", "for", "joined"}]
  /\ pushed \in [PacketThreads -> 0..Pushes]
  /\ pc \in {"while", "joined", "free", "dequeue", "release", "dequeued", "name", "each",
            "write", "rename", "exited", "crashed"}
  /\ exiting \in BOOLEAN /\ isTimeOut \in BOOLEAN
  /\ data \in Seq(Packets) /\ m_buf \in Seq(Packets) /\ tmp \in Seq(Packets)
  /\ m_serial_cnt \in Nat
  /\ lag \in (1 - m_rotate_cycle)..MaxLag
  /\ wallTurn \in BOOLEAN /\ newSecond \in BOOLEAN /\ overtaken \in BOOLEAN
  /\ files \in Seq(FileRecord)
  /\ archive \subseteq Packets /\ lost \subseteq Packets

LEMMA ConstantFacts ==
  /\ Pushes \in Nat /\ Capacity \in Nat /\ m_rotate_cycle \in Nat \ {0} /\ MaxLag \in Nat \ {0}
  /\ kVectorThreshold \in Nat \ {0} /\ PacketsPerPass \in Nat \ {0}
  /\ Pushes % PacketsPerPass = 0
<1>1. /\ kTimes \in Nat /\ PacketsPerPass \in Nat \ {0} /\ kVectorThreshold \in Nat \ {0}
      /\ m_rotate_cycle \in Nat \ {0} /\ MaxLag \in Nat \ {0}
  BY PipelineAssumption
<1>2. Pushes \in Nat /\ Capacity \in Nat BY <1>1 DEF Pushes, Capacity
<1>3. (0 + PacketsPerPass * kTimes) % PacketsPerPass = 0 % PacketsPerPass
  BY <1>1, ModPeriodic
<1>4. 0 % PacketsPerPass = 0 BY <1>1
<1>5. 0 + PacketsPerPass * kTimes = Pushes BY <1>1 DEF Pushes
<1> QED BY <1>1, <1>2, <1>3, <1>4, <1>5

LEMMA PacketType ==
  ASSUME TypeInv, NEW p \in PacketThreads, pushed[p] < Pushes
  PROVE  NextPacket(p) \in Packets /\ <<NextPacket(p)>> \in Seq(Packets)
<1>1. pushed[p] + 1 \in 1..Pushes BY ConstantFacts DEF TypeInv
<1>2. NextPacket(p) \in Packets BY <1>1 DEF NextPacket, Packets
<1> QED BY <1>2

\* What a push does to the thread that does it.
LEMMA PushedType ==
  ASSUME TypeInv, NEW p \in PacketThreads, pushed[p] < Pushes, Pushed(p)
  PROVE  /\ pushed' \in [PacketThreads -> 0..Pushes]
         /\ packet_pc' \in [PacketThreads -> {"while", "for", "joined"}]
         /\ packet_pc'[p] = "for" => pushed'[p] < Pushes
         /\ \A q \in PacketThreads : q # p =>
              packet_pc'[q] = packet_pc[q] /\ pushed'[q] = pushed[q]
<1>1. /\ pushed \in [PacketThreads -> 0..Pushes]
      /\ packet_pc \in [PacketThreads -> {"while", "for", "joined"}]
  BY DEF TypeInv
<1>2. pushed[p] \in Nat /\ pushed[p] + 1 \in 0..Pushes BY <1>1, ConstantFacts
<1>3. pushed' = [pushed EXCEPT ![p] = @ + 1] BY DEF Pushed
<1>4. \E label \in {"while", "for"} :
        /\ packet_pc' = [packet_pc EXCEPT ![p] = label]
        /\ label = "for" => (pushed[p] + 1) % PacketsPerPass # 0
  BY DEF Pushed
<1>5. pushed'[p] = pushed[p] + 1 BY <1>1, <1>3
<1>6. ASSUME packet_pc'[p] = "for" PROVE pushed[p] + 1 < Pushes
  <2>1. (pushed[p] + 1) % PacketsPerPass # 0 BY <1>1, <1>4, <1>6
  <2>2. pushed[p] + 1 # Pushes BY <2>1, ConstantFacts
  <2> QED BY <2>2, <1>2, ConstantFacts
<1> QED BY <1>1, <1>2, <1>3, <1>4, <1>5, <1>6

LEMMA TypeInit == Init => TypeInv /\ RingInv
<1> SUFFICES ASSUME Init PROVE TypeInv /\ RingInv OBVIOUS
<1>1. /\ queue = <<>> /\ room = Capacity /\ reserved = [p \in PacketThreads |-> <<>>]
      /\ taken = [c \in {L} |-> <<>>] /\ out = [c \in {L} |-> <<>>]
  BY DEF Init, Ring!Init, L
<1>2. TypeInv
  <2>1. /\ \A S : <<>> \in Seq(S)
        /\ [p \in PacketThreads |-> <<>>] \in [PacketThreads -> Seq(Packets)]
        /\ [c \in {L} |-> <<>>] \in [{L} -> Seq(Packets)]
    OBVIOUS
  <2>2. [p \in PacketThreads |-> 0] \in [PacketThreads -> 0..Pushes] BY ConstantFacts
  <2>3. 0 \in (1 - m_rotate_cycle)..MaxLag BY ConstantFacts
  <2>4. Capacity \in Nat /\ 0 \in Nat BY ConstantFacts
  <2>5. /\ queue \in Seq(Packets) /\ room \in Nat
        /\ reserved \in [PacketThreads -> Seq(Packets)]
        /\ taken \in [{L} -> Seq(Packets)] /\ out \in [{L} -> Seq(Packets)]
    BY <1>1, <2>1, <2>4, Zenon
  <2>6. /\ packet_pc \in [PacketThreads -> {"while", "for", "joined"}]
        /\ pushed \in [PacketThreads -> 0..Pushes]
    BY <2>2 DEF Init
  <2>7. /\ data \in Seq(Packets) /\ m_buf \in Seq(Packets) /\ tmp \in Seq(Packets)
        /\ files \in Seq(FileRecord) /\ lag \in (1 - m_rotate_cycle)..MaxLag
    BY <2>1, <2>3, Zenon DEF Init
  <2> QED BY <2>5, <2>6, <2>7 DEF Init, TypeInv
<1>3. Reserving = {} BY <1>1 DEF Reserving
<1>4. Cardinality(Reserving) = 0 BY <1>3, FS_EmptySet
<1>5. L \in {L} /\ taken[L] = <<>> /\ out[L] = <<>> BY <1>1
<1>6. room + Len(queue) + Len(taken[L]) + Cardinality(Reserving) = Capacity
  BY <1>1, <1>4, <1>5, ConstantFacts
<1> QED BY <1>1, <1>2, <1>5, <1>6, ConstantFacts DEF RingInv, Init

----------------------------------------------------------------------------
\* The ring's operations.

LEMMA Lengths ==
  ASSUME TypeInv
  PROVE  /\ Len(queue) \in Nat /\ Len(taken[L]) \in Nat
         /\ taken[L] \in Seq(Packets) /\ out[L] \in Seq(Packets)
         /\ IsFiniteSet(Reserving) /\ Cardinality(Reserving) \in Nat
<1>1. L \in {L} /\ taken[L] \in Seq(Packets) /\ out[L] \in Seq(Packets) BY DEF TypeInv
<1>2. queue \in Seq(Packets) BY DEF TypeInv
<1>3. IsFiniteSet(PacketThreads) /\ Reserving \in SUBSET PacketThreads
  BY PipelineAssumption DEF Reserving
<1>4. IsFiniteSet(Reserving) BY <1>3, FS_Subset
<1> QED BY <1>1, <1>2, <1>4, FS_CardinalityType, LenProperties

\* A step that touches neither the ring nor a packet thread.
LEMMA RingSame ==
  ASSUME RingInv, UNCHANGED <<ringVars, packetVars>>,
         taken[L] # <<>> => pc' = "release", out[L] # <<>> => pc' = "dequeued",
         data' # <<>> => pc' \in {"name", "each", "write", "rename"}
  PROVE  RingInv'
<1>1. /\ queue' = queue /\ room' = room /\ reserved' = reserved /\ taken' = taken
      /\ out' = out /\ packet_pc' = packet_pc /\ pushed' = pushed
  BY DEF ringVars, packetVars
<1>2. Reserving' = Reserving BY <1>1 DEF Reserving
<1>3. \A p \in PacketThreads : NextPacket(p)' = NextPacket(p) BY <1>1 DEF NextPacket
<1> QED BY <1>1, <1>2, <1>3 DEF RingInv

LEMMA PushClaimTypes ==
  ASSUME TypeInv, RingInv, NEW p \in PacketThreads, PushClaim(p)
  PROVE  TypeInv' /\ RingInv'
<1> DEFINE e == <<NextPacket(p)>>
<1>1. /\ reserved[p] = <<>> /\ Len(e) <= room /\ room' = room - Len(e)
      /\ reserved' = [reserved EXCEPT ![p] = e]
      /\ queue' = queue /\ taken' = taken /\ out' = out
      /\ packet_pc[p] = "for"
      /\ UNCHANGED <<flags, packetVars, pc, passVars, clockVars, fileVars>>
  BY DEF PushClaim, Ring!ReserveBatch
<1>2. Len(e) = 1 OBVIOUS
<1>3. pushed[p] < Pushes BY <1>1 DEF RingInv
<1>4. e \in Seq(Packets) BY <1>3, PacketType
<1>5. e # <<>> OBVIOUS
<1> HIDE DEF e
<1>6. room \in Nat /\ room' \in Nat /\ room' = room - 1 BY <1>1, <1>2 DEF TypeInv
<1>7. TypeInv' BY <1>1, <1>4, <1>6 DEF TypeInv, flags, packetVars, passVars, clockVars, fileVars
<1>8. reserved \in [PacketThreads -> Seq(Packets)] BY DEF TypeInv
<1>9. Reserving' = Reserving \union {p} /\ p \notin Reserving
  BY <1>1, <1>5, <1>8 DEF Reserving
<1>10. Cardinality(Reserving') = Cardinality(Reserving) + 1
  BY <1>9, Lengths, FS_AddElement
<1>11. room' + Len(queue') + Len(taken'[L]) + Cardinality(Reserving') = Capacity
  <2>1. Len(queue') = Len(queue) /\ Len(taken'[L]) = Len(taken[L]) BY <1>1
  <2>3. room + Len(queue) + Len(taken[L]) + Cardinality(Reserving) = Capacity BY DEF RingInv
  <2>2. /\ room \in Nat /\ Len(queue) \in Nat /\ Len(taken[L]) \in Nat
        /\ Cardinality(Reserving) \in Nat
    BY <1>6, Lengths
  <2>4. \A a, b, c, d \in Nat : a + b + c + d = Capacity => (a - 1) + b + c + (d + 1) = Capacity
    BY ConstantFacts
  <2>5. (room - 1) + Len(queue) + Len(taken[L]) + (Cardinality(Reserving) + 1) = Capacity
    BY ONLY <2>2, <2>3, <2>4, ZenonT(60)
  <2> QED BY ONLY <2>1, <2>5, <1>6, <1>10, Zenon
<1>12. pushed' = pushed /\ packet_pc' = packet_pc /\ pc' = pc /\ data' = data
  BY <1>1 DEF packetVars, passVars
<1>13. \A q \in PacketThreads : NextPacket(q)' = NextPacket(q)
  BY <1>12 DEF NextPacket
<1>14. ASSUME NEW q \in PacketThreads, reserved'[q] # <<>>
       PROVE  reserved'[q] = <<NextPacket(q)>> /\ packet_pc[q] = "for"
  BY <1>1, <1>8, <1>14 DEF RingInv, e
<1> QED BY <1>1, <1>6, <1>7, <1>11, <1>12, <1>13, <1>14 DEF RingInv

LEMMA PushPublishTypes ==
  ASSUME TypeInv, RingInv, NEW p \in PacketThreads, PushPublish(p)
  PROVE  TypeInv' /\ RingInv' /\ queue' = queue \o <<NextPacket(p)>> /\ packet_pc[p] = "for"
<1> DEFINE e == <<NextPacket(p)>>
<1>1. /\ reserved[p] # <<>> /\ queue' = queue \o reserved[p]
      /\ reserved' = [reserved EXCEPT ![p] = <<>>]
      /\ room' = room /\ taken' = taken /\ out' = out
      /\ UNCHANGED <<flags, pc, passVars, clockVars, fileVars>> /\ Pushed(p)
  BY DEF PushPublish, Ring!Publish
<1>2. reserved[p] = e /\ packet_pc[p] = "for" /\ pushed[p] < Pushes BY <1>1 DEF RingInv
<1>3. e \in Seq(Packets) /\ Len(e) = 1 BY <1>2, PacketType
<1> HIDE DEF e
<1>4. /\ pushed' \in [PacketThreads -> 0..Pushes]
      /\ packet_pc' \in [PacketThreads -> {"while", "for", "joined"}]
      /\ packet_pc'[p] = "for" => pushed'[p] < Pushes
      /\ \A q \in PacketThreads : q # p => packet_pc'[q] = packet_pc[q] /\ pushed'[q] = pushed[q]
  BY <1>1, <1>2, PushedType
<1>5. queue \in Seq(Packets) BY DEF TypeInv
<1>6. queue' \in Seq(Packets) /\ Len(queue') = Len(queue) + 1
  <2>1. queue \o e \in Seq(Packets) /\ Len(queue \o e) = Len(queue) + Len(e)
    BY <1>3, <1>5, ConcatProperties
  <2>2. queue' = queue \o e BY <1>1, <1>2
  <2> QED BY <1>3, <2>1, <2>2
<1>7. reserved \in [PacketThreads -> Seq(Packets)] BY DEF TypeInv
<1>8. reserved' \in [PacketThreads -> Seq(Packets)] BY <1>1, <1>7
<1>9. TypeInv' BY <1>1, <1>4, <1>6, <1>8 DEF TypeInv, flags, passVars, clockVars, fileVars
<1>10. Reserving' = Reserving \ {p} /\ p \in Reserving BY <1>1, <1>7 DEF Reserving
<1>11. Cardinality(Reserving') = Cardinality(Reserving) - 1
  BY <1>10, Lengths, FS_RemoveElement
<1>12. room' + Len(queue') + Len(taken'[L]) + Cardinality(Reserving') = Capacity
  <2>1. room' = room /\ Len(taken'[L]) = Len(taken[L]) BY <1>1
  <2>3. room + Len(queue) + Len(taken[L]) + Cardinality(Reserving) = Capacity BY DEF RingInv
  <2>2. /\ room \in Nat /\ Len(queue) \in Nat /\ Len(taken[L]) \in Nat
        /\ Cardinality(Reserving) \in Nat
    BY Lengths DEF TypeInv
  <2>4. \A a, b, c, d \in Nat : a + b + c + d = Capacity => a + (b + 1) + c + (d - 1) = Capacity
    BY ConstantFacts
  <2>5. room + (Len(queue) + 1) + Len(taken[L]) + (Cardinality(Reserving) - 1) = Capacity
    BY ONLY <2>2, <2>3, <2>4, ZenonT(60)
  <2> QED BY ONLY <2>1, <2>5, <1>6, <1>11, Zenon
<1>13. \A q \in PacketThreads : q # p => NextPacket(q)' = NextPacket(q)
  BY <1>4 DEF NextPacket
<1>14. \A q \in PacketThreads : reserved'[q] = IF q = p THEN <<>> ELSE reserved[q]
  BY <1>1, <1>7
<1>15. pc' = pc /\ data' = data BY <1>1 DEF passVars
<1>16. room' \in Nat BY <1>9 DEF TypeInv
<1>17. \A q \in PacketThreads :
         /\ reserved'[q] # <<>> => reserved'[q] = <<NextPacket(q)>>' /\ packet_pc'[q] = "for"
         /\ packet_pc'[q] = "for" => pushed'[q] < Pushes
  <2> SUFFICES ASSUME NEW q \in PacketThreads
               PROVE  /\ reserved'[q] # <<>> =>
                           reserved'[q] = <<NextPacket(q)>>' /\ packet_pc'[q] = "for"
                      /\ packet_pc'[q] = "for" => pushed'[q] < Pushes
    OBVIOUS
  <2>1. CASE q = p BY <2>1, <1>4, <1>14
  <2>2. CASE q # p BY <2>2, <1>4, <1>13, <1>14 DEF RingInv
  <2> QED BY <2>1, <2>2
<1>18. /\ taken'[L] # <<>> => pc' = "release"
       /\ out'[L] # <<>> => pc' = "dequeued"
       /\ data' # <<>> => pc' \in {"name", "each", "write", "rename"}
  BY <1>1, <1>15, Zenon DEF RingInv
<1>19. RingInv' BY <1>12, <1>16, <1>17, <1>18, Zenon DEF RingInv
<1> QED BY <1>1, <1>2, <1>9, <1>19 DEF e

LEMMA PushFullTypes ==
  ASSUME TypeInv, RingInv, NEW p \in PacketThreads, PushFull(p)
  PROVE  TypeInv' /\ RingInv' /\ NextPacket(p) \in Packets
<1>1. /\ packet_pc[p] = "for" /\ reserved[p] = <<>> /\ Pushed(p)
      /\ lost' = lost \union {NextPacket(p)}
      /\ UNCHANGED <<ringVars, flags, pc, passVars, clockVars, m_buf, tmp, files, archive>>
  BY DEF PushFull
<1>2. pushed[p] < Pushes BY <1>1 DEF RingInv
<1>3. NextPacket(p) \in Packets BY <1>2, PacketType
<1>4. /\ pushed' \in [PacketThreads -> 0..Pushes]
      /\ packet_pc' \in [PacketThreads -> {"while", "for", "joined"}]
      /\ packet_pc'[p] = "for" => pushed'[p] < Pushes
      /\ \A q \in PacketThreads : q # p => packet_pc'[q] = packet_pc[q] /\ pushed'[q] = pushed[q]
  BY <1>1, <1>2, PushedType
<1>5. TypeInv' BY <1>1, <1>3, <1>4 DEF TypeInv, ringVars, flags, passVars, clockVars
<1>6. \A q \in PacketThreads : q # p => NextPacket(q)' = NextPacket(q)
  BY <1>4 DEF NextPacket
<1>7. /\ queue' = queue /\ room' = room /\ reserved' = reserved /\ taken' = taken
      /\ out' = out /\ pc' = pc /\ data' = data
  BY <1>1 DEF ringVars, passVars
<1>8. Reserving' = Reserving BY <1>7 DEF Reserving
<1> QED BY <1>1, <1>3, <1>4, <1>5, <1>6, <1>7, <1>8 DEF RingInv

LEMMA DequeueTypes ==
  ASSUME TypeInv, RingInv, Dequeue
  PROVE  /\ TypeInv' /\ RingInv'
         /\ out' = out
         /\ UNCHANGED <<flags, packetVars, passVars, clockVars, fileVars>>
         /\ \/ queue' = queue /\ taken' = taken
            \/ \E n \in 0..Len(queue) : /\ taken[L] = <<>>
                                        /\ taken'[L] = SubSeq(queue, 1, n)
                                        /\ queue' = SubSeq(queue, n + 1, Len(queue))
<1>1. /\ pc = "dequeue"
      /\ UNCHANGED <<flags, packetVars, passVars, clockVars, fileVars>>
  BY DEF Dequeue
<1>2. taken[L] = <<>> /\ out[L] = <<>> /\ data = <<>> BY <1>1 DEF RingInv
<1>3. CASE queue = <<>>
  <2>1. pc' = "name" /\ UNCHANGED ringVars BY <1>3 DEF Dequeue, Goto
  <2>2. RingInv' BY <1>1, <1>2, <2>1, RingSame DEF passVars
  <2>3. TypeInv'
    BY <1>1, <2>1 DEF TypeInv, ringVars, flags, packetVars, passVars, clockVars, fileVars
  <2> QED BY <1>1, <2>1, <2>2, <2>3 DEF ringVars
<1>4. CASE queue # <<>>
  <2> DEFINE n == IF Len(queue) < kVectorThreshold THEN Len(queue) ELSE kVectorThreshold
             u == SubSeq(queue, 1, n)
             v == SubSeq(queue, n + 1, Len(queue))
  <2>1. /\ pc' = "release" /\ taken' = [taken EXCEPT ![L] = u] /\ queue' = v
        /\ room' = room /\ reserved' = reserved /\ out' = out
    BY <1>4 DEF Dequeue, Goto, Ring!TakeFirst, L
  <2>2. queue \in Seq(Packets) /\ L \in {L} /\ taken \in [{L} -> Seq(Packets)] BY DEF TypeInv
  <2>3. n \in 0..Len(queue) BY <2>2, ConstantFacts, LenProperties
  <2> HIDE DEF n
  <2>4. /\ u \in Seq(Packets) /\ Len(u) = n
        /\ v \in Seq(Packets) /\ Len(v) = Len(queue) - n
    BY <2>2, <2>3, PrefixOfSeq, SuffixOfSeq
  <2> HIDE DEF u, v
  <2>5. taken'[L] = u /\ taken' \in [{L} -> Seq(Packets)] BY <2>1, <2>2, <2>4
  <2>6. TypeInv'
    BY <1>1, <2>1, <2>4, <2>5 DEF TypeInv, flags, packetVars, passVars, clockVars, fileVars
  <2>7. Reserving' = Reserving BY <2>1 DEF Reserving
  <2>8. room' + Len(queue') + Len(taken'[L]) + Cardinality(Reserving') = Capacity
    <3>1. room + Len(queue) + Len(taken[L]) + Cardinality(Reserving) = Capacity BY DEF RingInv
    <3>2. Len(taken[L]) = 0 BY <1>2
    <3>3. /\ room \in Nat /\ Len(queue) \in Nat /\ Cardinality(Reserving) \in Nat
          /\ n \in Nat
      BY <2>3, Lengths DEF TypeInv
    <3>5. room' = room /\ Len(queue') = Len(queue) - n /\ Len(taken'[L]) = n
      BY <2>1, <2>4, <2>5
    <3>6. room + (Len(queue) - n) + n + Cardinality(Reserving) = Capacity
      BY ONLY <3>1, <3>2, <3>3, SMT
    <3> QED BY ONLY <2>7, <3>5, <3>6, Zenon
  <2>9. /\ pushed' = pushed /\ packet_pc' = packet_pc /\ data' = <<>> /\ out'[L] = <<>>
        /\ \A q \in PacketThreads : NextPacket(q)' = NextPacket(q)
    BY <1>1, <1>2, <2>1 DEF packetVars, passVars, NextPacket
  <2>10. room' \in Nat BY <2>6 DEF TypeInv
  <2>11. RingInv' BY <2>1, <2>8, <2>9, <2>10 DEF RingInv
  <2>12. /\ taken[L] = <<>> /\ taken'[L] = SubSeq(queue, 1, n)
         /\ queue' = SubSeq(queue, n + 1, Len(queue))
    BY <1>2, <2>1, <2>5 DEF u, v
  <2>13. out' = out BY <2>1
  <2> QED BY <1>1, <2>3, <2>6, <2>11, <2>12, <2>13
<1> QED BY <1>3, <1>4

LEMMA ReleaseTypes ==
  ASSUME TypeInv, RingInv, Release
  PROVE  /\ TypeInv' /\ RingInv'
         /\ out[L] = <<>> /\ out'[L] = taken[L] /\ taken'[L] = <<>> /\ queue' = queue
         /\ UNCHANGED <<flags, packetVars, passVars, clockVars, fileVars>>
<1>1. /\ pc = "release" /\ pc' = "dequeued"
      /\ UNCHANGED <<flags, packetVars, passVars, clockVars, fileVars>>
      /\ out' = [out EXCEPT ![L] = taken[L]] /\ taken' = [taken EXCEPT ![L] = <<>>]
      /\ room' = room + Len(taken[L]) /\ queue' = queue /\ reserved' = reserved
  BY DEF Release, Goto, Ring!Release, L
<1>2. out[L] = <<>> /\ data = <<>> BY <1>1 DEF RingInv
<1>3. taken \in [{L} -> Seq(Packets)] /\ out \in [{L} -> Seq(Packets)] /\ L \in {L}
  BY DEF TypeInv
<1>4. /\ taken'[L] = <<>> /\ out'[L] = taken[L]
      /\ taken' \in [{L} -> Seq(Packets)] /\ out' \in [{L} -> Seq(Packets)]
  BY <1>1, <1>3
<1>5. room' \in Nat BY <1>1, Lengths DEF TypeInv
<1>6. TypeInv'
  BY <1>1, <1>4, <1>5 DEF TypeInv, flags, packetVars, passVars, clockVars, fileVars
<1>7. Reserving' = Reserving BY <1>1 DEF Reserving
<1>8. room' + Len(queue') + Len(taken'[L]) + Cardinality(Reserving') = Capacity
  <2>1. room + Len(queue) + Len(taken[L]) + Cardinality(Reserving) = Capacity BY DEF RingInv
  <2>2. Len(taken'[L]) = 0 /\ Len(queue') = Len(queue) BY <1>1, <1>4
  <2>3. /\ room \in Nat /\ Len(queue) \in Nat /\ Cardinality(Reserving) \in Nat
        /\ Len(taken[L]) \in Nat
    BY Lengths DEF TypeInv
  <2>4. \A a, b, c, d \in Nat : a + b + c + d = Capacity => (a + c) + b + 0 + d = Capacity
    BY ConstantFacts
  <2>5. (room + Len(taken[L])) + Len(queue) + 0 + Cardinality(Reserving) = Capacity
    BY ONLY <2>1, <2>3, <2>4, ZenonT(60)
  <2> QED BY ONLY <1>1, <1>7, <2>2, <2>5, Zenon
<1>9. /\ pushed' = pushed /\ packet_pc' = packet_pc /\ data' = <<>>
      /\ \A q \in PacketThreads : NextPacket(q)' = NextPacket(q)
  BY <1>1, <1>2 DEF packetVars, passVars, NextPacket
<1>10. RingInv' BY <1>1, <1>4, <1>5, <1>8, <1>9 DEF RingInv
<1> QED BY <1>1, <1>2, <1>4, <1>6, <1>10

LEMMA DequeuedTypes ==
  ASSUME TypeInv, RingInv, Dequeued
  PROVE  /\ TypeInv' /\ RingInv'
         /\ data = <<>> /\ data' = out[L] /\ out'[L] = <<>>
         /\ queue' = queue /\ taken' = taken /\ pushed' = pushed
         /\ UNCHANGED fileVars /\ pc' = "name"
<1>1. /\ pc = "dequeued" /\ pc' = "name" /\ data' = out[L]
      /\ out' = [out EXCEPT ![L] = <<>>]
      /\ queue' = queue /\ room' = room /\ reserved' = reserved /\ taken' = taken
      /\ UNCHANGED <<flags, packetVars, exiting, isTimeOut, m_serial_cnt, clockVars, fileVars>>
  BY DEF Dequeued, Goto, Ring!Return, L
<1>2. taken[L] = <<>> /\ data = <<>> BY <1>1 DEF RingInv
<1>3. out \in [{L} -> Seq(Packets)] /\ L \in {L} BY DEF TypeInv
<1>4. out'[L] = <<>> /\ out' \in [{L} -> Seq(Packets)] /\ data' \in Seq(Packets)
  BY <1>1, <1>3
<1>5. TypeInv'
  BY <1>1, <1>4 DEF TypeInv, flags, packetVars, clockVars, fileVars
<1>6. Reserving' = Reserving BY <1>1 DEF Reserving
<1>7. /\ pushed' = pushed /\ packet_pc' = packet_pc
      /\ \A q \in PacketThreads : NextPacket(q)' = NextPacket(q)
  BY <1>1 DEF packetVars, NextPacket
<1>8. RingInv' BY <1>1, <1>2, <1>4, <1>6, <1>7 DEF RingInv
<1> QED BY <1>1, <1>2, <1>4, <1>5, <1>7, <1>8

----------------------------------------------------------------------------
\* Files.

LEMMA ToSetType == ASSUME NEW S, NEW s \in Seq(S) PROVE ToSet(s) \subseteq S
BY LenProperties DEF ToSet

LEMMA FileTypes ==
  ASSUME NEW fs \in Seq(FileRecord)
  PROVE  /\ Len(fs) \in Nat /\ DOMAIN fs = 1..Len(fs)
         /\ \A k \in 1..Len(fs) : fs[k] \in FileRecord /\ fs[k].lines \in Seq(Packets)
                                  /\ ToSet(fs[k].lines) \subseteq Packets
<1>1. Len(fs) \in Nat /\ DOMAIN fs = 1..Len(fs) /\ \A k \in 1..Len(fs) : fs[k] \in FileRecord
  BY LenProperties
<1>2. \A r \in FileRecord : r.lines \in Seq(Packets) BY DEF FileRecord
<1>3. \A r \in FileRecord : ToSet(r.lines) \subseteq Packets BY <1>2, ToSetType
<1> QED BY <1>1, <1>2, <1>3

LEMMA LinesType == ASSUME TypeInv PROVE Lines(files) \subseteq Packets
<1>1. files \in Seq(FileRecord) BY DEF TypeInv
<1> QED BY <1>1, FileTypes DEF Lines

\* outputFile's rename: one file at most goes, the new one is the last.
LEMMA ReplaceFacts ==
  ASSUME TypeInv, Replace
  PROVE  LET new == [serial |-> m_serial_cnt, lines |-> tmp]
             unwritten == ToSet(m_buf) \ ToSet(tmp)
         IN /\ new \in FileRecord /\ unwritten \subseteq Packets
            /\ \/ /\ files' = Append(files, new)
                  /\ lost' = lost \union unwritten
               \/ \E k \in 1..Len(files) :
                    /\ files' = Append(RemoveAt(files, k), new)
                    /\ lost' = lost \union unwritten \union ToSet(files[k].lines)
<1> DEFINE new == [serial |-> m_serial_cnt, lines |-> tmp]
           unwritten == ToSet(m_buf) \ ToSet(tmp)
           Same == {k \in DOMAIN files : files[k].serial = m_serial_cnt}
<1>1. /\ m_serial_cnt \in Nat /\ tmp \in Seq(Packets) /\ m_buf \in Seq(Packets)
      /\ files \in Seq(FileRecord)
  BY DEF TypeInv
<1>2. new \in FileRecord BY <1>1 DEF FileRecord
<1>3. unwritten \subseteq Packets BY <1>1, ToSetType
<1>4. Same \subseteq 1..Len(files) BY <1>1, LenProperties
<1>5. \/ files' = Append(files, new) /\ lost' = lost \union unwritten
      \/ \E k \in Same : /\ files' = Append(RemoveAt(files, k), new)
                         /\ lost' = lost \union unwritten \union ToSet(files[k].lines)
  BY DEF Replace
<1> QED BY <1>2, <1>3, <1>4, <1>5

LEMMA ReplaceTypes ==
  ASSUME TypeInv, Replace
  PROVE  files' \in Seq(FileRecord) /\ lost' \subseteq Packets
<1> DEFINE new == [serial |-> m_serial_cnt, lines |-> tmp]
           unwritten == ToSet(m_buf) \ ToSet(tmp)
<1>1. /\ new \in FileRecord /\ unwritten \subseteq Packets
      /\ \/ files' = Append(files, new) /\ lost' = lost \union unwritten
         \/ \E k \in 1..Len(files) :
              /\ files' = Append(RemoveAt(files, k), new)
              /\ lost' = lost \union unwritten \union ToSet(files[k].lines)
  BY ReplaceFacts
<1> HIDE DEF new, unwritten
<1>2. files \in Seq(FileRecord) /\ lost \subseteq Packets BY DEF TypeInv
<1>3. CASE files' = Append(files, new) /\ lost' = lost \union unwritten
  BY <1>1, <1>2, <1>3, AppendProperties
<1>4. ASSUME NEW k \in 1..Len(files), files' = Append(RemoveAt(files, k), new),
             lost' = lost \union unwritten \union ToSet(files[k].lines)
      PROVE  files' \in Seq(FileRecord) /\ lost' \subseteq Packets
  <2>1. RemoveAt(files, k) \in Seq(FileRecord) BY <1>2, RemoveAtProperties
  <2>2. files' \in Seq(FileRecord) BY <1>1, <1>4, <2>1, AppendProperties
  <2>4. ToSet(files[k].lines) \subseteq Packets BY <1>2, FileTypes
  <2> QED BY <1>1, <1>2, <1>4, <2>2, <2>4
<1> QED BY <1>1, <1>3, <1>4

LEMMA AfterOutputTypes ==
  ASSUME TypeInv, AfterOutput
  PROVE  /\ m_serial_cnt' \in Nat
         /\ pc' \in {"each", "exited", "while"} /\ (data # <<>> => pc' = "each")
BY DEF TypeInv, AfterOutput, Return, Goto

----------------------------------------------------------------------------
\* Every step keeps the types and the ring's count.

LEMMA PacketTypes ==
  ASSUME TypeInv, RingInv, NEW p \in PacketThreads, PacketStep(p)
  PROVE  TypeInv' /\ RingInv'
<1>1. CASE PacketExit(p) \/ PacketPass(p)
  <2>1. /\ UNCHANGED <<ringVars, flags, pushed, pc, passVars, clockVars, fileVars>>
        /\ packet_pc[p] = "while"
        /\ \E label \in {"joined", "for"} :
             /\ packet_pc' = [packet_pc EXCEPT ![p] = label]
             /\ label = "for" => pushed[p] < Pushes
    BY <1>1 DEF PacketExit, PacketPass
  <2>2. packet_pc \in [PacketThreads -> {"while", "for", "joined"}] BY DEF TypeInv
  <2>3. packet_pc' \in [PacketThreads -> {"while", "for", "joined"}] BY <2>1, <2>2
  <2>4. TypeInv'
    BY <2>1, <2>3 DEF TypeInv, ringVars, flags, passVars, clockVars, fileVars
  <2>5. /\ \A q \in PacketThreads : q # p => packet_pc'[q] = packet_pc[q]
        /\ packet_pc'[p] = "for" => pushed[p] < Pushes
    BY <2>1, <2>2
  <2>6. /\ queue' = queue /\ room' = room /\ reserved' = reserved /\ taken' = taken
        /\ out' = out /\ pc' = pc /\ data' = data /\ pushed' = pushed
    BY <2>1 DEF ringVars, passVars
  <2>7. Reserving' = Reserving /\ \A q \in PacketThreads : NextPacket(q)' = NextPacket(q)
    BY <2>6 DEF Reserving, NextPacket
  <2>8. reserved[p] = <<>> BY <2>1 DEF RingInv
  <2> QED BY <2>4, <2>5, <2>6, <2>7, <2>8 DEF RingInv
<1>2. CASE PushClaim(p) BY <1>2, PushClaimTypes
<1>3. CASE PushPublish(p) BY <1>3, PushPublishTypes
<1>4. CASE PushFull(p) BY <1>4, PushFullTypes
<1> QED BY <1>1, <1>2, <1>3, <1>4 DEF PacketStep

LEMMA CheckTypes ==
  ASSUME TypeInv, RingInv, pc \in {"while", "joined"}, CheckTimeOut, exiting' \in BOOLEAN
  PROVE  TypeInv' /\ RingInv'
<1>1. /\ isTimeOut' = (lag > 0) /\ lag' = IF lag > 0 THEN lag - m_rotate_cycle ELSE lag
      /\ pc' = "free"
      /\ UNCHANGED <<ringVars, flags, packetVars, data, m_serial_cnt,
                     wallTurn, newSecond, overtaken, fileVars>>
  BY DEF CheckTimeOut, Goto
<1>2. isTimeOut' \in BOOLEAN
  <2>1. (lag > 0) \in BOOLEAN OBVIOUS
  <2> QED BY <1>1, <2>1, Zenon
<1>3. lag' \in (1 - m_rotate_cycle)..MaxLag BY <1>1, ConstantFacts DEF TypeInv
<1>4. TypeInv' BY <1>1, <1>2, <1>3 DEF TypeInv, ringVars, flags, packetVars, fileVars
<1>5. data = <<>> /\ taken[L] = <<>> /\ out[L] = <<>> BY DEF RingInv
<1> QED BY <1>1, <1>4, <1>5, RingSame

LEMMA OutputTypes ==
  ASSUME TypeInv, RingInv, OpenFails \/ RenameTmp \/ RenameFails
  PROVE  TypeInv' /\ RingInv'
<1>1. /\ pc \in {"each", "rename"} /\ AfterOutput /\ m_buf' = <<>>
      /\ UNCHANGED <<ringVars, flags, packetVars, exiting, isTimeOut, data, clockVars,
                     tmp, archive>>
  BY DEF OpenFails, RenameTmp, RenameFails
<1>2. m_buf' \in Seq(Packets) BY <1>1
<1>3. files' \in Seq(FileRecord) /\ lost' \subseteq Packets
  <2>1. CASE RenameTmp BY <2>1, ReplaceTypes DEF RenameTmp
  <2>2. CASE OpenFails \/ RenameFails
    <3>1. files' = files /\ lost' = lost \union ToSet(m_buf) BY <2>2 DEF OpenFails, RenameFails
    <3>2. m_buf \in Seq(Packets) /\ lost \subseteq Packets BY DEF TypeInv
    <3> QED BY <3>1, <3>2, ToSetType DEF TypeInv
  <2> QED BY <2>1, <2>2
<1>4. /\ m_serial_cnt' \in Nat
      /\ pc' \in {"each", "exited", "while"} /\ (data # <<>> => pc' = "each")
  BY <1>1, AfterOutputTypes
<1>5. TypeInv'
  BY <1>1, <1>2, <1>3, <1>4 DEF TypeInv, ringVars, flags, packetVars, clockVars
<1>6. taken[L] = <<>> /\ out[L] = <<>> BY <1>1 DEF RingInv
<1>7. data' = data BY <1>1
<1> QED BY <1>1, <1>4, <1>5, <1>6, <1>7, RingSame

LEMMA PassTypes ==
  ASSUME TypeInv, RingInv, PassStep
  PROVE  TypeInv' /\ RingInv'
<1>1. CASE CheckFree \/ Uninitialised
  <2>1. /\ pc = "free" /\ pc' \in {"dequeue", "name", "crashed"}
        /\ UNCHANGED <<ringVars, flags, packetVars, passVars, clockVars, fileVars>>
    BY <1>1 DEF CheckFree, Uninitialised, Goto
  <2>2. TypeInv'
    BY <2>1 DEF TypeInv, ringVars, flags, packetVars, passVars, clockVars, fileVars
  <2>3. data' = <<>> /\ taken[L] = <<>> /\ out[L] = <<>> BY <2>1 DEF RingInv, passVars
  <2> QED BY <2>1, <2>2, <2>3, RingSame
<1>2. CASE Dequeue BY <1>2, DequeueTypes
<1>3. CASE Release BY <1>3, ReleaseTypes
<1>4. CASE Dequeued BY <1>4, DequeuedTypes
<1>5. CASE NameFiles
  <2>1. /\ pc = "name" /\ pc' = "each" /\ m_serial_cnt' = 0 /\ newSecond' = FALSE
        /\ \/ archive' = archive \union Lines(files) /\ files' = <<>>
           \/ archive' = archive /\ files' = files
        /\ UNCHANGED <<ringVars, flags, packetVars, exiting, isTimeOut, data,
                       lag, wallTurn, overtaken, m_buf, tmp, lost>>
    BY <1>5 DEF NameFiles, Goto
  <2>2. archive \subseteq Packets /\ files \in Seq(FileRecord) BY DEF TypeInv
  <2>3. archive' \subseteq Packets BY <2>1, <2>2, LinesType
  <2>4. files' \in Seq(FileRecord)
    <3>1. <<>> \in Seq(FileRecord) OBVIOUS
    <3> QED BY <2>1, <2>2, <3>1, Zenon
  <2>5. TypeInv' BY <2>1, <2>3, <2>4 DEF TypeInv, ringVars, flags, packetVars
  <2>6. taken[L] = <<>> /\ out[L] = <<>> BY <2>1 DEF RingInv
  <2> QED BY <2>1, <2>5, <2>6, RingSame
<1>6. CASE MakeCsvLog
  <2>1. /\ pc = "each" /\ pc' = pc /\ data # <<>>
        /\ m_buf' = Append(m_buf, Head(data)) /\ data' = Tail(data)
        /\ UNCHANGED <<ringVars, flags, packetVars, pc, exiting, isTimeOut, m_serial_cnt,
                       clockVars, tmp, files, archive, lost>>
    BY <1>6 DEF MakeCsvLog
  <2>2. data \in Seq(Packets) /\ m_buf \in Seq(Packets) BY DEF TypeInv
  <2>3. Head(data) \in Packets /\ Tail(data) \in Seq(Packets)
    BY <2>1, <2>2, HeadTailProperties
  <2>4. m_buf' \in Seq(Packets) /\ data' \in Seq(Packets) BY <2>1, <2>2, <2>3, AppendProperties
  <2>5. TypeInv' BY <2>1, <2>4 DEF TypeInv, ringVars, flags, packetVars, clockVars
  <2>6. taken[L] = <<>> /\ out[L] = <<>> BY <2>1 DEF RingInv
  <2> QED BY <2>1, <2>5, <2>6, RingSame
<1>7. CASE OpenTmp \/ WriteTmp
  <2>1. /\ pc \in {"each", "write"} /\ pc' \in {"write", "rename"}
        /\ \/ tmp' = <<>> \/ tmp' = m_buf
           \/ \E n \in 0..(Len(m_buf) - 1) : tmp' = SubSeq(m_buf, 1, n)
        /\ UNCHANGED <<ringVars, flags, packetVars, passVars, clockVars,
                       m_buf, files, archive, lost>>
    BY <1>7 DEF OpenTmp, WriteTmp, Goto
  <2>2. m_buf \in Seq(Packets) BY DEF TypeInv
  <2>3. \A n \in 0..(Len(m_buf) - 1) : SubSeq(m_buf, 1, n) \in Seq(Packets)
    <3>1. \A n \in 0..(Len(m_buf) - 1) : n \in 0..Len(m_buf) BY <2>2, LenProperties
    <3> QED BY <2>2, <3>1, PrefixOfSeq
  <2>4. tmp' \in Seq(Packets)
    <3>1. <<>> \in Seq(Packets) OBVIOUS
    <3> QED BY <2>1, <2>2, <2>3, <3>1, Zenon
  <2>5. TypeInv' BY <2>1, <2>4 DEF TypeInv, ringVars, flags, packetVars, passVars, clockVars
  <2>6. taken[L] = <<>> /\ out[L] = <<>> BY <2>1 DEF RingInv
  <2> QED BY <2>1, <2>5, <2>6, RingSame
<1>8. CASE OpenFails \/ RenameTmp \/ RenameFails BY <1>8, OutputTypes
<1>9. CASE PassEnd
  <2>1. /\ pc = "each" /\ data = <<>> /\ pc' \in {"exited", "while"}
        /\ UNCHANGED <<ringVars, flags, packetVars, passVars, clockVars, fileVars>>
    BY <1>9 DEF PassEnd, Return
  <2>2. TypeInv'
    BY <2>1 DEF TypeInv, ringVars, flags, packetVars, passVars, clockVars, fileVars
  <2>3. data' = <<>> /\ taken[L] = <<>> /\ out[L] = <<>> BY <2>1 DEF RingInv, passVars
  <2> QED BY <2>1, <2>2, <2>3, RingSame
<1> QED BY <1>1, <1>2, <1>3, <1>4, <1>5, <1>6, <1>7, <1>8, <1>9 DEF PassStep

LEMMA TypeStep == TypeInv /\ RingInv /\ [Next]_vars => TypeInv' /\ RingInv'
<1> SUFFICES ASSUME TypeInv, RingInv, [Next]_vars PROVE TypeInv' /\ RingInv' OBVIOUS
<1>1. ASSUME UNCHANGED <<ringVars, packetVars, pc, passVars, fileVars>>,
             StopRunning' \in BOOLEAN, SkipOutput' \in BOOLEAN, cmd' \in {"readLine", "joined"},
             lag' \in (1 - m_rotate_cycle)..MaxLag, wallTurn' \in BOOLEAN, newSecond' \in BOOLEAN,
             overtaken' \in BOOLEAN
      PROVE  TypeInv' /\ RingInv'
  <2>1. TypeInv' BY <1>1 DEF TypeInv, ringVars, packetVars, passVars, fileVars
  <2>2. pc' = pc /\ data' = data BY <1>1 DEF passVars
  <2> QED BY <1>1, <2>1, <2>2, RingSame DEF RingInv
<1>2. CASE Tick
  <2>1. lag \in (1 - m_rotate_cycle)..MaxLag BY DEF TypeInv
  <2>2. lag' \in (1 - m_rotate_cycle)..MaxLag
    BY <1>2, <2>1, ConstantFacts DEF Tick, TickMonotonic, TickWall
  <2>3. overtaken' \in BOOLEAN
    <3>1. (overtaken \/ Unnamed) \in BOOLEAN OBVIOUS
    <3>2. CASE TickWall BY <3>1, <3>2, Zenon DEF TickWall
    <3>3. CASE TickMonotonic BY <3>3 DEF TickMonotonic, TypeInv
    <3> QED BY <1>2, <3>2, <3>3 DEF Tick
  <2> QED BY <1>1, <1>2, <2>2, <2>3 DEF Tick, TickMonotonic, TickWall, TypeInv, flags
<1>3. CASE CmdStop \/ CmdSkipOutput \/ Signal
  BY <1>1, <1>3 DEF CmdStop, CmdSkipOutput, Signal, TypeInv, clockVars
<1>4. CASE \E p \in PacketThreads : PacketStep(p) BY <1>4, PacketTypes
<1>5. CASE LoggerExit
  <2>1. /\ pc = "while" /\ pc' = "joined"
        /\ UNCHANGED <<ringVars, flags, packetVars, passVars, clockVars, fileVars>>
    BY <1>5 DEF LoggerExit, Goto
  <2>2. TypeInv'
    BY <2>1 DEF TypeInv, ringVars, flags, packetVars, passVars, clockVars, fileVars
  <2>3. data' = <<>> /\ taken[L] = <<>> /\ out[L] = <<>> BY <2>1 DEF RingInv, passVars
  <2> QED BY <2>1, <2>2, <2>3, RingSame
<1>6. CASE CheckRotate \/ Destroy BY <1>6, CheckTypes DEF CheckRotate, Destroy
<1>7. CASE PassStep BY <1>7, PassTypes
<1>8. CASE UNCHANGED vars
  BY <1>1, <1>8 DEF vars, flags, clockVars, TypeInv
<1> QED BY <1>2, <1>3, <1>4, <1>5, <1>6, <1>7, <1>8 DEF Next, LoggerStep

LEMMA TypesAlways == Spec => [](TypeInv /\ RingInv)
BY TypeInit, TypeStep, PTL DEF Spec

LEMMA TypesHold == TypeInv /\ RingInv => TypeOK
<1> SUFFICES ASSUME TypeInv, RingInv PROVE TypeOK OBVIOUS
<1>1. room <= Capacity
  <2>1. \A a, b, c, d \in Nat : a + b + c + d = Capacity => a <= Capacity BY ConstantFacts
  <2>2. room + Len(queue) + Len(taken[L]) + Cardinality(Reserving) = Capacity
    BY DEF RingInv
  <2>3. room \in Nat BY DEF TypeInv
  <2> QED BY ONLY <2>1, <2>2, <2>3, Lengths, TypeInv, Zenon
<1>2. room \in 0..Capacity BY <1>1, ConstantFacts DEF TypeInv
<1> QED BY <1>2 DEF TypeInv, TypeOK, FileRecord, L

\* The types of every variable; in particular the ring never offers more room
\* than it has slots, however pushes, a dequeue and a release overlap.
THEOREM Types == Spec => []TypeOK
  BY TypesHold, TypesAlways, PTL

----------------------------------------------------------------------------
\* The size of files.

\* What is about to be renamed is m_buf, or what fwrite wrote of it.
TmpInv ==
  pc = "rename" =>
    tmp = m_buf \/ \E n \in 0..(Len(m_buf) - 1) : tmp = SubSeq(m_buf, 1, n)

SizeInv == TmpInv /\ FileSize

LEMMA SizeRename ==
  ASSUME TypeInv, SizeInv, RenameTmp
  PROVE  \A k \in DOMAIN files' : Len(files'[k].lines) <= m_rotate_size + 1
<1> DEFINE new == [serial |-> m_serial_cnt, lines |-> tmp]
           bound == m_rotate_size + 1
<1>1. pc = "rename" /\ Replace BY DEF RenameTmp
<1>2. /\ files \in Seq(FileRecord) /\ m_buf \in Seq(Packets) /\ tmp \in Seq(Packets)
      /\ bound \in Nat
  BY PipelineAssumption DEF TypeInv
<1>3. Len(tmp) <= bound
  <2>1. Len(m_buf) \in Nat /\ Len(m_buf) <= bound BY <1>2, LenProperties DEF SizeInv, FileSize
  <2>2. CASE tmp = m_buf BY <2>1, <2>2
  <2>3. ASSUME NEW n \in 0..(Len(m_buf) - 1), tmp = SubSeq(m_buf, 1, n)
        PROVE  Len(tmp) <= bound
    <3>1. n \in 0..Len(m_buf) BY <2>1
    <3>2. Len(tmp) = n BY <1>2, <2>3, <3>1, PrefixOfSeq
    <3> QED BY <1>2, <2>1, <3>2
  <2> QED BY <1>1, <2>2, <2>3 DEF SizeInv, TmpInv
<1>4. \A k \in 1..Len(files) : Len(files[k].lines) <= bound
  BY <1>2, LenProperties DEF SizeInv, FileSize
<1>5. /\ new \in FileRecord
      /\ \/ files' = Append(files, new)
         \/ \E k \in 1..Len(files) : files' = Append(RemoveAt(files, k), new)
  BY <1>1, ReplaceFacts
<1>6. new.lines = tmp OBVIOUS
<1> HIDE DEF new, bound
<1>7. ASSUME NEW kept \in Seq(FileRecord), files' = Append(kept, new),
             \A k \in 1..Len(kept) : Len(kept[k].lines) <= bound
      PROVE  \A k \in DOMAIN files' : Len(files'[k].lines) <= bound
  <2>1. /\ Len(kept) \in Nat /\ Len(files') = Len(kept) + 1 /\ files' \in Seq(FileRecord)
        /\ \A k \in 1..Len(kept) : files'[k] = kept[k]
        /\ files'[Len(kept) + 1] = new
    BY <1>5, <1>7, AppendProperties, LenProperties
  <2>2. DOMAIN files' = 1..(Len(kept) + 1) BY <2>1, LenProperties
  <2> SUFFICES ASSUME NEW k \in 1..(Len(kept) + 1) PROVE Len(files'[k].lines) <= bound
    BY <2>2
  <2>3. CASE k \in 1..Len(kept) BY <1>7, <2>1, <2>3
  <2>4. CASE k = Len(kept) + 1 BY <1>3, <1>6, <2>1, <2>4
  <2> QED BY <2>1, <2>3, <2>4
<1>8. CASE files' = Append(files, new) BY <1>2, <1>4, <1>7, <1>8 DEF bound
<1>9. ASSUME NEW k \in 1..Len(files), files' = Append(RemoveAt(files, k), new)
      PROVE  \A i \in DOMAIN files' : Len(files'[i].lines) <= bound
  <2> DEFINE kept == RemoveAt(files, k)
  <2>1. /\ kept \in Seq(FileRecord) /\ Len(kept) = Len(files) - 1
        /\ \A i \in 1..(Len(files) - 1) : kept[i] = files[IF i < k THEN i ELSE i + 1]
    BY <1>2, RemoveAtProperties
  <2>2. Len(files) \in Nat BY <1>2, LenProperties
  <2>3. \A i \in 1..(Len(files) - 1) : (IF i < k THEN i ELSE i + 1) \in 1..Len(files)
    BY <2>2
  <2> HIDE DEF kept
  <2>4. \A i \in 1..Len(kept) : Len(kept[i].lines) <= bound BY <1>4, <2>1, <2>3
  <2>5. files' = Append(kept, new) BY <1>9 DEF kept
  <2> QED BY <1>7, <2>1, <2>4, <2>5
<1> QED BY <1>5, <1>8, <1>9 DEF bound

LEMMA SizeStep == TypeInv /\ RingInv /\ SizeInv /\ [Next]_vars => SizeInv'
<1> SUFFICES ASSUME TypeInv, RingInv, SizeInv, [Next]_vars PROVE SizeInv' OBVIOUS
<1>1. ASSUME m_buf' = m_buf \/ m_buf' = <<>>, files' = files \/ files' = <<>>,
             pc' # "rename" \/ (pc' = pc /\ UNCHANGED <<m_buf, tmp>>)
      PROVE  SizeInv'
  <2>1. Len(<<>>) <= m_rotate_size + 1 BY PipelineAssumption
  <2>2. Len(m_buf') <= m_rotate_size + 1 BY <1>1, <2>1 DEF SizeInv, FileSize
  <2>3. DOMAIN <<>> = {} OBVIOUS
  <2>4. \A k \in DOMAIN files' : Len(files'[k].lines) <= m_rotate_size + 1
    <3>1. CASE files' = files BY <3>1 DEF SizeInv, FileSize
    <3>2. CASE files' = <<>>
      <4>1. DOMAIN files' = {} BY <2>3, <3>2, Zenon
      <4> QED BY <4>1
    <3> QED BY <1>1, <3>1, <3>2
  <2> QED BY <1>1, <2>2, <2>4 DEF SizeInv, FileSize, TmpInv
<1>2. CASE Tick \/ CmdStop \/ CmdSkipOutput \/ Signal \/ UNCHANGED vars
  BY <1>1, <1>2 DEF Tick, TickMonotonic, TickWall, CmdStop, CmdSkipOutput, Signal, vars, fileVars
<1>3. CASE \E p \in PacketThreads : PacketStep(p)
  BY <1>1, <1>3 DEF PacketStep, PacketExit, PacketPass, PushClaim, PushPublish, PushFull, fileVars
<1>4. CASE LoggerExit \/ CheckRotate \/ Destroy \/ CheckFree \/ Uninitialised \/ Dequeue
           \/ Release \/ Dequeued \/ PassEnd \/ OpenTmp
  BY <1>1, <1>4 DEF LoggerExit, CheckRotate, Destroy, CheckTimeOut, CheckFree, Uninitialised,
     Dequeue, Release, Dequeued, PassEnd, OpenTmp, Return, Goto, fileVars
<1>5. CASE NameFiles BY <1>1, <1>5 DEF NameFiles, Goto
<1>6. CASE MakeCsvLog
  <2>1. /\ pc = "each" /\ pc' = pc /\ data # <<>> /\ ~(Len(m_buf) > m_rotate_size)
        /\ m_buf' = Append(m_buf, Head(data)) /\ files' = files
    BY <1>6 DEF MakeCsvLog, Full
  <2>2. data \in Seq(Packets) /\ m_buf \in Seq(Packets) BY DEF TypeInv
  <2>3. Len(m_buf') = Len(m_buf) + 1 /\ Len(m_buf) \in Nat
    BY <2>1, <2>2, HeadTailProperties, AppendProperties, LenProperties
  <2>4. Len(m_buf') <= m_rotate_size + 1 BY <2>1, <2>3, PipelineAssumption
  <2> QED BY <2>1, <2>4 DEF SizeInv, FileSize, TmpInv
<1>7. CASE WriteTmp BY <1>7 DEF WriteTmp, SizeInv, TmpInv, FileSize
<1>8. CASE OpenFails \/ RenameFails
  BY <1>1, <1>8 DEF OpenFails, RenameFails, AfterOutput, Return, Goto
<1>9. CASE RenameTmp
  <2>1. m_buf' = <<>> /\ pc' # "rename" BY <1>9 DEF RenameTmp, AfterOutput, Return, Goto
  <2>2. Len(m_buf') <= m_rotate_size + 1 BY <2>1, PipelineAssumption
  <2> QED BY <1>9, <2>1, <2>2, SizeRename DEF SizeInv, FileSize, TmpInv
<1> QED BY <1>2, <1>3, <1>4, <1>5, <1>6, <1>7, <1>8, <1>9 DEF Next, LoggerStep, PassStep

\* checkRotate's test of m_buf against m_rotate_size, made before a line is
\* added, bounds every file by one line more, whatever fails on the disk and
\* whichever pass writes it.
THEOREM FilesAreBounded == Spec => []FileSize
<1>1. Init => SizeInv BY PipelineAssumption DEF Init, SizeInv, TmpInv, FileSize
<1>2. SizeInv => FileSize BY DEF SizeInv
<1> QED BY <1>1, <1>2, TypesAlways, SizeStep, PTL DEF Spec

----------------------------------------------------------------------------
\* Order.

\* What waits for a file, oldest first, behind what m_buf holds; and all of it.
Rest == data \o (out[L] \o (taken[L] \o queue))
Flow == m_buf \o Rest

\* Files written one after another hold lines pushed one after another.
Successive(fs) ==
  /\ \A k \in DOMAIN fs : Sorted(fs[k].lines)
  /\ \A k, n \in DOMAIN fs : k < n => Below(ToSet(fs[k].lines), ToSet(fs[n].lines))

OrderInv ==
  /\ Successive(files)
  /\ Below(archive, Lines(files))
  /\ Sorted(Flow)
  /\ Below(Written, ToSet(Flow))

\* The packets push_back has been called for.
Known == {r \in Packets : r[2] <= pushed[r[1]]}

AccountInv ==
  /\ Written \union ToSet(Flow) \union lost = Known
  /\ (Written \union ToSet(Flow)) \intersect lost = {}

LEMMA ToSetConcat ==
  ASSUME NEW S, NEW s \in Seq(S), NEW t \in Seq(S)
  PROVE  ToSet(s \o t) = ToSet(s) \union ToSet(t)
<1> DEFINE m == Len(s)
           n == Len(t)
<1>1. /\ m \in Nat /\ n \in Nat /\ DOMAIN s = 1..m /\ DOMAIN t = 1..n
      /\ s \o t \in Seq(S) /\ Len(s \o t) = m + n
      /\ \A i \in 1..(m + n) : (s \o t)[i] = IF i <= m THEN s[i] ELSE t[i - m]
  BY ConcatProperties, LenProperties
<1>2. DOMAIN (s \o t) = 1..(m + n) BY <1>1, LenProperties
<1> HIDE DEF m, n
<1>3. \A i \in 1..m : i \in 1..(m + n) /\ s[i] = (s \o t)[i] BY <1>1
<1>4. \A i \in 1..n : m + i \in 1..(m + n) /\ t[i] = (s \o t)[m + i] BY <1>1
<1>5. \A i \in 1..(m + n) : (i \in 1..m /\ (s \o t)[i] = s[i])
                            \/ (i - m \in 1..n /\ (s \o t)[i] = t[i - m])
  BY <1>1
<1>6. /\ ToSet(s) = {s[i] : i \in 1..m} /\ ToSet(t) = {t[i] : i \in 1..n}
      /\ ToSet(s \o t) = {(s \o t)[i] : i \in 1..(m + n)}
  BY <1>1, <1>2 DEF ToSet
<1>7. ToSet(s) \union ToSet(t) \subseteq ToSet(s \o t)
  BY ONLY <1>3, <1>4, <1>6, Zenon
<1>8. ToSet(s \o t) \subseteq ToSet(s) \union ToSet(t)
  <2> SUFFICES ASSUME NEW i \in 1..(m + n)
               PROVE  (s \o t)[i] \in ToSet(s) \union ToSet(t)
    BY <1>6
  <2> QED BY ONLY <1>5, <1>6, Zenon
<1> QED BY <1>7, <1>8

LEMMA SortedConcat ==
  ASSUME NEW S, NEW s \in Seq(S), NEW t \in Seq(S)
  PROVE  Sorted(s \o t) <=> Sorted(s) /\ Sorted(t) /\ Below(ToSet(s), ToSet(t))
<1> DEFINE m == Len(s)
           n == Len(t)
           u == s \o t
           Lower(a, b) == Below({a}, {b})
<1>1. /\ m \in Nat /\ n \in Nat /\ DOMAIN s = 1..m /\ DOMAIN t = 1..n
      /\ u \in Seq(S) /\ Len(u) = m + n
      /\ \A i \in 1..(m + n) : u[i] = IF i <= m THEN s[i] ELSE t[i - m]
  BY ConcatProperties, LenProperties
<1>2. DOMAIN u = 1..(m + n) BY <1>1, LenProperties
<1>3. Below(ToSet(s), ToSet(t)) <=> \A i \in 1..m, j \in 1..n : Lower(s[i], t[j])
  <2>1. ToSet(s) = {s[i] : i \in 1..m} /\ ToSet(t) = {t[i] : i \in 1..n}
    BY <1>1, Zenon DEF ToSet
  <2> QED BY <2>1, Zenon DEF Below
<1>4. Sorted(s) <=> \A i, j \in 1..m : i < j => Lower(s[i], s[j]) BY <1>1 DEF Sorted
<1>5. Sorted(t) <=> \A i, j \in 1..n : i < j => Lower(t[i], t[j]) BY <1>1 DEF Sorted
<1>6. Sorted(u) <=> \A i, j \in 1..(m + n) : i < j => Lower(u[i], u[j]) BY <1>2 DEF Sorted
<1> HIDE DEF m, n, u, Lower
<1>7. \A i \in 1..m : i \in 1..(m + n) /\ s[i] = u[i] BY <1>1
<1>8. \A i \in 1..n : m + i \in 1..(m + n) /\ t[i] = u[m + i] BY <1>1
<1>9. \A i \in 1..(m + n) : i \notin 1..m => i - m \in 1..n /\ u[i] = t[i - m]
  BY <1>1
<1>10. ASSUME Sorted(u) PROVE Sorted(s) /\ Sorted(t) /\ Below(ToSet(s), ToSet(t))
  <2>1. Sorted(s) BY <1>4, <1>6, <1>7, <1>10
  <2>2. \A i, j \in 1..n : i < j => m + i < m + j BY <1>1
  <2>3. Sorted(t) BY <1>5, <1>6, <1>8, <1>10, <2>2
  <2>4. \A i \in 1..m, j \in 1..n : i < m + j BY <1>1
  <2>5. Below(ToSet(s), ToSet(t)) BY <1>3, <1>6, <1>7, <1>8, <1>10, <2>4
  <2> QED BY <2>1, <2>3, <2>5
<1>11. ASSUME Sorted(s), Sorted(t), Below(ToSet(s), ToSet(t)) PROVE Sorted(u)
  <2> SUFFICES ASSUME NEW i \in 1..(m + n), NEW j \in 1..(m + n), i < j
               PROVE  Lower(u[i], u[j])
    BY <1>6
  <2>1. CASE i \in 1..m /\ j \in 1..m BY <1>4, <1>7, <1>11, <2>1
  <2>2. CASE i \in 1..m /\ j \notin 1..m BY <1>3, <1>7, <1>9, <1>11, <2>2
  <2>3. CASE i \notin 1..m
    <3>1. j \notin 1..m /\ i - m < j - m BY <1>1, <2>3
    <3> QED BY <1>5, <1>9, <1>11, <2>3, <3>1
  <2> QED BY <2>1, <2>2, <2>3
<1> QED BY <1>10, <1>11 DEF u

\* No packet is pushed before itself.
LEMMA BelowDisjoint ==
  ASSUME NEW S \in SUBSET Packets, NEW T \in SUBSET Packets, Below(S, T)
  PROVE  S \intersect T = {}
<1> SUFFICES ASSUME NEW r \in S, r \in T PROVE FALSE OBVIOUS
<1>1. r[2] \in 1..Pushes BY DEF Packets
<1>2. r[2] < r[2] BY DEF Below
<1> QED BY <1>1, <1>2, ConstantFacts

LEMMA FlowTypes ==
  ASSUME TypeInv
  PROVE  /\ m_buf \in Seq(Packets) /\ data \in Seq(Packets) /\ out[L] \in Seq(Packets)
         /\ taken[L] \in Seq(Packets) /\ queue \in Seq(Packets)
         /\ taken[L] \o queue \in Seq(Packets)
         /\ out[L] \o (taken[L] \o queue) \in Seq(Packets)
         /\ Rest \in Seq(Packets) /\ Flow \in Seq(Packets)
<1>1. /\ m_buf \in Seq(Packets) /\ data \in Seq(Packets) /\ out[L] \in Seq(Packets)
      /\ taken[L] \in Seq(Packets) /\ queue \in Seq(Packets)
  BY Lengths DEF TypeInv
<1>2. taken[L] \o queue \in Seq(Packets) BY <1>1, ConcatProperties
<1>3. out[L] \o (taken[L] \o queue) \in Seq(Packets) BY <1>1, <1>2, ConcatProperties
<1>4. Rest \in Seq(Packets) BY <1>1, <1>3, ConcatProperties DEF Rest
<1>5. Flow \in Seq(Packets) BY <1>1, <1>4, ConcatProperties DEF Flow
<1> QED BY <1>1, <1>2, <1>3, <1>4, <1>5

LEMMA WrittenType ==
  ASSUME TypeInv
  PROVE  Lines(files) \subseteq Packets /\ Written \subseteq Packets
BY LinesType DEF TypeInv, Written

\* How a file that goes and a file that comes change the lines of all.
LEMMA LinesAppend ==
  ASSUME NEW fs \in Seq(FileRecord), NEW new \in FileRecord
  PROVE  /\ Lines(Append(fs, new)) = Lines(fs) \union ToSet(new.lines)
         /\ Successive(fs) /\ Sorted(new.lines) /\ Below(Lines(fs), ToSet(new.lines))
              => Successive(Append(fs, new))
<1> DEFINE m == Len(fs)
           gs == Append(fs, new)
<1>1. /\ m \in Nat /\ DOMAIN fs = 1..m /\ gs \in Seq(FileRecord) /\ Len(gs) = m + 1
      /\ \A k \in 1..m : gs[k] = fs[k]
      /\ gs[m + 1] = new
  BY AppendProperties, LenProperties
<1>2. DOMAIN gs = 1..(m + 1) BY <1>1, LenProperties
<1> HIDE DEF m, gs
<1>3. \A k \in 1..(m + 1) : (k \in 1..m /\ gs[k] = fs[k]) \/ (k = m + 1 /\ gs[k] = new)
  BY <1>1
<1>4. \A k \in 1..m : k \in 1..(m + 1) /\ gs[k] = fs[k] BY <1>1
<1>5. m + 1 \in 1..(m + 1) /\ gs[m + 1] = new BY <1>1
<1>6. Lines(gs) = Lines(fs) \union ToSet(new.lines)
  <2>1. Lines(gs) = UNION {ToSet(gs[k].lines) : k \in 1..(m + 1)} BY <1>2 DEF Lines
  <2>2. Lines(fs) = UNION {ToSet(fs[k].lines) : k \in 1..m} BY <1>1 DEF Lines
  <2>3. ASSUME NEW r PROVE r \in Lines(gs) <=> r \in Lines(fs) \/ r \in ToSet(new.lines)
    BY <1>3, <1>4, <1>5, <2>1, <2>2
  <2> QED BY <2>3
<1>7. ASSUME Successive(fs), Sorted(new.lines), Below(Lines(fs), ToSet(new.lines))
      PROVE  Successive(gs)
  <2>1. \A k \in 1..m : Below(ToSet(fs[k].lines), ToSet(new.lines))
    <3>1. \A k \in 1..m : ToSet(fs[k].lines) \subseteq Lines(fs) BY <1>1 DEF Lines
    <3> QED BY <1>7, <3>1 DEF Below
  <2>2. /\ \A k \in 1..m : Sorted(fs[k].lines)
        /\ \A k, n \in 1..m : k < n => Below(ToSet(fs[k].lines), ToSet(fs[n].lines))
    BY <1>1, <1>7 DEF Successive
  <2>3. \A k \in 1..(m + 1) : Sorted(gs[k].lines) BY <1>3, <1>7, <2>2
  <2>4. ASSUME NEW k \in 1..(m + 1), NEW n \in 1..(m + 1), k < n
        PROVE  Below(ToSet(gs[k].lines), ToSet(gs[n].lines))
    <3>1. k \in 1..m /\ gs[k] = fs[k] BY <1>1, <1>3, <2>4
    <3>2. CASE n \in 1..m /\ gs[n] = fs[n] BY <2>2, <2>4, <3>1, <3>2
    <3>3. CASE gs[n] = new BY <2>1, <3>1, <3>3
    <3> QED BY <1>3, <3>2, <3>3
  <2> QED BY <1>2, <2>3, <2>4 DEF Successive
<1> QED BY <1>6, <1>7 DEF gs

LEMMA LinesRemove ==
  ASSUME NEW fs \in Seq(FileRecord), NEW k \in 1..Len(fs)
  PROVE  /\ Lines(fs) = Lines(RemoveAt(fs, k)) \union ToSet(fs[k].lines)
         /\ Successive(fs) => /\ Successive(RemoveAt(fs, k))
                              /\ Lines(RemoveAt(fs, k)) \intersect ToSet(fs[k].lines) = {}
<1> DEFINE m == Len(fs)
           gs == RemoveAt(fs, k)
           at(i) == IF i < k THEN i ELSE i + 1
<1>1. /\ m \in Nat /\ DOMAIN fs = 1..m /\ gs \in Seq(FileRecord) /\ Len(gs) = m - 1
      /\ \A i \in 1..(m - 1) : gs[i] = fs[at(i)]
  BY RemoveAtProperties, LenProperties
<1>2. DOMAIN gs = 1..(m - 1) BY <1>1, LenProperties
<1> HIDE DEF m, gs
<1>3. /\ \A i \in 1..(m - 1) : at(i) \in 1..m /\ at(i) # k
      /\ \A i, j \in 1..(m - 1) : i < j => at(i) < at(j)
  BY <1>1 DEF m
<1>4. \A i \in 1..m : i # k => \E j \in 1..(m - 1) : at(j) = i
  <2> SUFFICES ASSUME NEW i \in 1..m, i # k PROVE \E j \in 1..(m - 1) : at(j) = i OBVIOUS
  <2>1. CASE i < k
    <3>1. i \in 1..(m - 1) /\ at(i) = i BY <1>1, <2>1 DEF m
    <3> QED BY <3>1
  <2>2. CASE k < i
    <3>1. i - 1 \in 1..(m - 1) /\ at(i - 1) = i BY <1>1, <2>2 DEF m
    <3> QED BY <3>1
  <2> QED BY <1>1, <2>1, <2>2 DEF m
<1>5. k \in 1..m BY DEF m
<1> HIDE DEF at
<1>6. /\ Lines(fs) = UNION {ToSet(fs[i].lines) : i \in 1..m}
      /\ Lines(gs) = UNION {ToSet(gs[i].lines) : i \in 1..(m - 1)}
  BY <1>1, <1>2 DEF Lines
<1>7. Lines(fs) = Lines(gs) \union ToSet(fs[k].lines)
  <2>1. ASSUME NEW r PROVE r \in Lines(fs) <=> r \in Lines(gs) \/ r \in ToSet(fs[k].lines)
    BY <1>1, <1>3, <1>4, <1>5, <1>6
  <2> QED BY <2>1
<1>8. ASSUME Successive(fs)
      PROVE  Successive(gs) /\ Lines(gs) \intersect ToSet(fs[k].lines) = {}
  <2>1. /\ \A i \in 1..m : Sorted(fs[i].lines)
        /\ \A i, n \in 1..m : i < n => Below(ToSet(fs[i].lines), ToSet(fs[n].lines))
    BY <1>1, <1>8 DEF Successive
  <2>2. Successive(gs) BY <1>1, <1>2, <1>3, <2>1 DEF Successive
  <2>3. ASSUME NEW i \in 1..(m - 1)
        PROVE  ToSet(gs[i].lines) \intersect ToSet(fs[k].lines) = {}
    <3>1. gs[i] = fs[at(i)] /\ at(i) \in 1..m /\ at(i) # k BY <1>1, <1>3
    <3>2. ToSet(fs[at(i)].lines) \subseteq Packets /\ ToSet(fs[k].lines) \subseteq Packets
      BY <1>5, <3>1, FileTypes DEF m
    <3>3. at(i) < k \/ k < at(i) BY <1>1, <1>5, <3>1
    <3>4. CASE at(i) < k
      <4>1. Below(ToSet(fs[at(i)].lines), ToSet(fs[k].lines)) BY <1>5, <2>1, <3>1, <3>4
      <4> QED BY <3>1, <3>2, <4>1, BelowDisjoint
    <3>5. CASE k < at(i)
      <4>1. Below(ToSet(fs[k].lines), ToSet(fs[at(i)].lines)) BY <1>5, <2>1, <3>1, <3>5
      <4>2. ToSet(fs[k].lines) \intersect ToSet(fs[at(i)].lines) = {}
        BY <3>2, <4>1, BelowDisjoint
      <4> QED BY <3>1, <4>2
    <3> QED BY <3>3, <3>4, <3>5
  <2>4. Lines(gs) \intersect ToSet(fs[k].lines) = {} BY <1>6, <2>3
  <2> QED BY <2>2, <2>4
<1> QED BY <1>7, <1>8 DEF gs

----------------------------------------------------------------------------
\* Every step keeps the order and the account.

HistoryInv == OrderInv /\ AccountInv

LEMMA HistorySame ==
  ASSUME HistoryInv, Flow' = Flow,
         files' = files, archive' = archive, lost' = lost, pushed' = pushed
  PROVE  HistoryInv'
<1>1. Lines(files)' = Lines(files) /\ Successive(files)' = Successive(files) BY DEF Lines, Successive
<1>2. Written' = Written BY <1>1 DEF Written
<1>3. Known' = Known BY DEF Known
<1>4. OrderInv' BY <1>1, <1>2 DEF HistoryInv, OrderInv
<1>5. AccountInv' BY <1>2, <1>3 DEF HistoryInv, AccountInv
<1> QED BY <1>4, <1>5 DEF HistoryInv

\* Known after a push.
LEMMA KnownGrows ==
  ASSUME TypeInv, NEW p \in PacketThreads, NextPacket(p) \in Packets, Pushed(p)
  PROVE  /\ Known' = Known \union {NextPacket(p)} /\ NextPacket(p) \notin Known
         /\ Below(Known, {NextPacket(p)})
<1> DEFINE e == NextPacket(p)
<1>1. pushed \in [PacketThreads -> 0..Pushes] BY DEF TypeInv
<1>2. pushed' = [pushed EXCEPT ![p] = @ + 1] BY DEF Pushed
<1>3. /\ pushed'[p] = pushed[p] + 1 /\ pushed[p] \in Nat
      /\ \A q \in PacketThreads : q # p => pushed'[q] = pushed[q]
  BY <1>1, <1>2, ConstantFacts
<1>4. e[1] = p /\ e[2] = pushed[p] + 1 BY DEF NextPacket
<1>5. \A r \in Packets : r[1] \in PacketThreads /\ r[2] \in 1..Pushes /\ r = <<r[1], r[2]>>
  BY DEF Packets
<1>6. e = <<p, pushed[p] + 1>> BY DEF NextPacket
<1> HIDE DEF e
<1>7. ASSUME NEW r \in Packets
      PROVE  r[2] <= pushed'[r[1]] <=> r[2] <= pushed[r[1]] \/ r = e
  <2>1. CASE r[1] = p
    <3>1. r[2] <= pushed[p] + 1 <=> r[2] <= pushed[p] \/ r[2] = pushed[p] + 1
      BY <1>3, <1>5, ConstantFacts
    <3>2. r = e <=> r[2] = pushed[p] + 1 BY <1>4, <1>5, <1>6, <2>1
    <3> QED BY <1>3, <2>1, <3>1, <3>2
  <2>2. CASE r[1] # p
    <3>1. r # e BY <1>4, <2>2
    <3> QED BY <1>3, <1>5, <2>2, <3>1
  <2> QED BY <2>1, <2>2
<1>8. Known' = Known \union {e} BY <1>7 DEF Known, e
<1>9. e \notin Known BY <1>3, <1>4 DEF Known
<1>10. Below(Known, {e})
  <2> SUFFICES ASSUME NEW r \in Known, r[1] = p PROVE r[2] < pushed[p] + 1
    BY <1>4 DEF Below
  <2>1. r[2] <= pushed[p] /\ r \in Packets BY DEF Known
  <2> QED BY <1>3, <1>5, <2>1, ConstantFacts
<1> QED BY <1>8, <1>9, <1>10 DEF e

LEMMA PublishHistory ==
  ASSUME TypeInv, RingInv, HistoryInv, NEW p \in PacketThreads, PushPublish(p)
  PROVE  HistoryInv'
<1> DEFINE e == NextPacket(p)
<1>1. /\ queue' = queue \o <<e>> /\ packet_pc[p] = "for" BY PushPublishTypes
<1>2. /\ Pushed(p) /\ taken' = taken /\ out' = out
      /\ UNCHANGED <<passVars, fileVars>>
  BY DEF PushPublish, Ring!Publish
<1>3. pushed[p] < Pushes BY <1>1 DEF RingInv
<1>4. e \in Packets /\ <<e>> \in Seq(Packets) BY <1>3, PacketType
<1>5. /\ Known' = Known \union {e} /\ e \notin Known /\ Below(Known, {e})
  BY <1>2, <1>4, KnownGrows
<1>6. ToSet(<<e>>) = {e} /\ Sorted(<<e>>) BY DEF ToSet, Sorted
<1> HIDE DEF e
<1>7. /\ data' = data /\ m_buf' = m_buf /\ files' = files /\ archive' = archive /\ lost' = lost
  BY <1>2 DEF passVars, fileVars
<1>8. Flow' = Flow \o <<e>>
  <2> DEFINE a == taken[L] \o queue
             b == out[L] \o a
  <2>0. /\ taken[L] \in Seq(Packets) /\ queue \in Seq(Packets) /\ a \in Seq(Packets)
        /\ out[L] \in Seq(Packets) /\ b \in Seq(Packets) /\ data \in Seq(Packets)
        /\ <<e>> \in Seq(Packets)
    BY <1>4, FlowTypes
  <2>9. \A s, t, u \in Seq(Packets) : s \o (t \o u) = (s \o t) \o u BY ConcatAssociative
  <2>1. taken[L] \o (queue \o <<e>>) = a \o <<e>>
    <3>1. taken[L] \in Seq(Packets) /\ queue \in Seq(Packets) /\ <<e>> \in Seq(Packets)
      BY <2>0
    <3> QED BY ONLY <3>1, <2>9, Zenon
  <2>2. out[L] \o (a \o <<e>>) = b \o <<e>> BY ONLY <2>0, <2>9, ZenonT(60)
  <2>3. data \o (b \o <<e>>) = Rest \o <<e>>
    BY ONLY <2>0, <2>9, ZenonT(60) DEF Rest
  <2>4. m_buf \o (Rest \o <<e>>) = Flow \o <<e>>
    BY <1>4, FlowTypes, ConcatAssociative DEF Flow
  <2>5. Flow' = m_buf \o (data \o (out[L] \o (taken[L] \o (queue \o <<e>>))))
    BY <1>1, <1>2, <1>7 DEF Flow, Rest, e
  <2> QED BY <2>1, <2>2, <2>3, <2>4, <2>5, Zenon
<1>9. ToSet(Flow') = ToSet(Flow) \union {e}
  <2>1. ToSet(Flow \o <<e>>) = ToSet(Flow) \union ToSet(<<e>>)
    <3>1. Flow \in Seq(Packets) /\ <<e>> \in Seq(Packets) BY <1>4, FlowTypes
    <3> QED BY ONLY <3>1, ToSetConcat
  <2> QED BY <1>6, <1>8, <2>1
<1>10. ToSet(Flow) \subseteq Known /\ Written \subseteq Known BY DEF HistoryInv, AccountInv
<1>11. Sorted(Flow')
  <2>1. Below(ToSet(Flow), {e}) BY <1>5, <1>10 DEF Below
  <2> QED BY <1>4, <1>6, <1>8, <2>1, FlowTypes, SortedConcat DEF HistoryInv, OrderInv
<1>12. Lines(files)' = Lines(files) /\ Successive(files)' = Successive(files)
  BY <1>7 DEF Lines, Successive
<1>13. Written' = Written BY <1>7, <1>12 DEF Written
<1>14. Below(Written, ToSet(Flow) \union {e})
  BY <1>5, <1>10 DEF Below, HistoryInv, OrderInv
<1>15. OrderInv' BY <1>7, <1>9, <1>11, <1>12, <1>13, <1>14 DEF HistoryInv, OrderInv
<1>16. e \notin lost BY <1>5 DEF HistoryInv, AccountInv
<1>17. AccountInv' BY <1>5, <1>7, <1>9, <1>13, <1>16 DEF HistoryInv, AccountInv
<1> QED BY <1>15, <1>17 DEF HistoryInv

LEMMA FullHistory ==
  ASSUME TypeInv, RingInv, HistoryInv, NEW p \in PacketThreads, PushFull(p)
  PROVE  HistoryInv'
<1> DEFINE e == NextPacket(p)
<1>1. /\ Pushed(p) /\ lost' = lost \union {e}
      /\ UNCHANGED <<ringVars, passVars, m_buf, files, archive>>
  BY DEF PushFull
<1>2. e \in Packets BY PushFullTypes
<1>3. Known' = Known \union {e} /\ e \notin Known BY <1>1, <1>2, KnownGrows
<1> HIDE DEF e
<1>4. Flow' = Flow BY <1>1 DEF Flow, Rest, ringVars, passVars
<1>5. Lines(files)' = Lines(files) /\ Successive(files)' = Successive(files)
  BY <1>1 DEF Lines, Successive
<1>6. Written' = Written BY <1>1, <1>5 DEF Written
<1>7. OrderInv' BY <1>1, <1>4, <1>5, <1>6 DEF HistoryInv, OrderInv
<1>8. AccountInv' BY <1>1, <1>3, <1>4, <1>6 DEF HistoryInv, AccountInv
<1> QED BY <1>7, <1>8 DEF HistoryInv

\* Batches move along without a change in Flow.
LEMMA FlowStep ==
  ASSUME TypeInv, RingInv, Dequeue \/ Release \/ Dequeued \/ MakeCsvLog
  PROVE  Flow' = Flow /\ UNCHANGED <<files, archive, lost, pushed>>
<1>1. \A s \in Seq(Packets) : <<>> \o s = s /\ s \o <<>> = s BY ConcatEmptySeq
<1>2. CASE Dequeue
  <2>1. /\ out' = out /\ UNCHANGED <<packetVars, passVars, fileVars>>
        /\ \/ queue' = queue /\ taken' = taken
           \/ \E n \in 0..Len(queue) : /\ taken[L] = <<>>
                                       /\ taken'[L] = SubSeq(queue, 1, n)
                                       /\ queue' = SubSeq(queue, n + 1, Len(queue))
    BY <1>2, DequeueTypes
  <2>2. (taken[L] \o queue)' = taken[L] \o queue
    <3>1. ASSUME NEW n \in 0..Len(queue), taken[L] = <<>>, taken'[L] = SubSeq(queue, 1, n),
                 queue' = SubSeq(queue, n + 1, Len(queue))
          PROVE  taken'[L] \o queue' = taken[L] \o queue
      BY <1>1, <3>1, FlowTypes, SplitSeq
    <3> QED BY <2>1, <3>1
  <2> QED BY <2>1, <2>2 DEF Flow, Rest, packetVars, passVars, fileVars
<1>3. CASE Release
  <2>1. /\ out[L] = <<>> /\ out'[L] = taken[L] /\ taken'[L] = <<>> /\ queue' = queue
        /\ UNCHANGED <<packetVars, passVars, fileVars>>
    BY <1>3, ReleaseTypes
  <2>2. (out[L] \o (taken[L] \o queue))' = out[L] \o (taken[L] \o queue)
    BY <1>1, <2>1, FlowTypes
  <2> QED BY <2>1, <2>2 DEF Flow, Rest, packetVars, passVars, fileVars
<1>4. CASE Dequeued
  <2>1. /\ data = <<>> /\ data' = out[L] /\ out'[L] = <<>>
        /\ queue' = queue /\ taken' = taken /\ pushed' = pushed /\ UNCHANGED fileVars
    BY <1>4, DequeuedTypes
  <2>2. Rest' = Rest BY <1>1, <2>1, FlowTypes DEF Rest
  <2> QED BY <2>1, <2>2 DEF Flow, fileVars
<1>5. CASE MakeCsvLog
  <2> DEFINE d == Head(data)
             rear == out[L] \o (taken[L] \o queue)
  <2>1. /\ data # <<>> /\ m_buf' = Append(m_buf, d) /\ data' = Tail(data)
        /\ UNCHANGED <<ringVars, packetVars, files, archive, lost>>
    BY <1>5 DEF MakeCsvLog
  <2>2. /\ d \in Packets /\ Tail(data) \in Seq(Packets) /\ <<d>> \in Seq(Packets)
        /\ rear \in Seq(Packets) /\ m_buf \in Seq(Packets) /\ data \in Seq(Packets)
    BY <2>1, FlowTypes, HeadTailProperties
  <2>3. rear' = rear BY <2>1 DEF ringVars
  <2>4. data = <<d>> \o Tail(data)
    <3>1. Len(data) \in Nat /\ Len(data) # 0 BY <2>1, <2>2, LenProperties, EmptySeq
    <3>2. 1 \in 1..Len(data) /\ Len(data) \in 1..Len(data) /\ 1 \in 0..Len(data) BY <3>1
    <3>3. SubSeq(data, 1, 1) \o SubSeq(data, 1 + 1, Len(data)) = data
      BY <2>2, <3>2, SplitSeq
    <3>4. Tail(data) = SubSeq(data, 2, Len(data)) BY <2>1, <2>2, TailIsSubSeq
    <3>5. SubSeq(data, 1, 1) = <<d>>
      <4>1. /\ SubSeq(data, 1, 1) \in Seq(Packets) /\ Len(SubSeq(data, 1, 1)) = 1
            /\ \A k \in 1..1 : SubSeq(data, 1, 1)[k] = data[k]
        BY <2>2, <3>2, PrefixOfSeq
      <4>2. d = data[1] BY <2>1
      <4>3. Len(<<d>>) = 1 /\ <<d>>[1] = d OBVIOUS
      <4> HIDE DEF d
      <4>4. \A k \in 1..1 : SubSeq(data, 1, 1)[k] = <<d>>[k] BY <4>1, <4>2, <4>3
      <4> QED BY <2>2, <4>1, <4>3, <4>4, SeqEqual
    <3> QED BY <3>3, <3>4, <3>5
  <2> HIDE DEF d, rear
  <2>5. Append(m_buf, d) = m_buf \o <<d>> BY <2>2, AppendIsConcat
  <2>6. (m_buf \o <<d>>) \o (Tail(data) \o rear) = m_buf \o (<<d>> \o (Tail(data) \o rear))
    <3>1. Tail(data) \o rear \in Seq(Packets) BY <2>2, ConcatProperties
    <3> QED BY <2>2, <3>1, ConcatAssociative
  <2>7. <<d>> \o (Tail(data) \o rear) = data \o rear BY <2>2, <2>4, ConcatAssociative
  <2>8. Flow = m_buf \o (data \o rear) BY DEF Flow, Rest, rear
  <2>9. Flow' = m_buf' \o (data' \o rear') BY DEF Flow, Rest, rear
  <2>10. Flow' = Flow
    <3>1. Flow' = Append(m_buf, d) \o (Tail(data) \o rear) BY <2>1, <2>3, <2>9
    <3> QED BY ONLY <3>1, <2>5, <2>6, <2>7, <2>8, Zenon
  <2> QED BY <2>1, <2>10 DEF packetVars
<1> QED BY <1>2, <1>3, <1>4, <1>5

\* m_buf is the front of Flow.
LEMMA FlowParts ==
  ASSUME TypeInv, HistoryInv
  PROVE  /\ Sorted(m_buf) /\ Sorted(Rest) /\ Below(ToSet(m_buf), ToSet(Rest))
         /\ ToSet(Flow) = ToSet(m_buf) \union ToSet(Rest)
         /\ ToSet(m_buf) \subseteq Packets /\ ToSet(Rest) \subseteq Packets
         /\ ToSet(m_buf) \intersect ToSet(Rest) = {}
         /\ Written \subseteq Packets /\ Written \intersect ToSet(Flow) = {}
<1>1. m_buf \in Seq(Packets) /\ Rest \in Seq(Packets) BY FlowTypes
<1>2. Sorted(m_buf) /\ Sorted(Rest) /\ Below(ToSet(m_buf), ToSet(Rest))
  BY <1>1, SortedConcat DEF Flow, HistoryInv, OrderInv
<1>3. ToSet(Flow) = ToSet(m_buf) \union ToSet(Rest) BY <1>1, ToSetConcat DEF Flow
<1>4. ToSet(m_buf) \subseteq Packets /\ ToSet(Rest) \subseteq Packets BY <1>1, ToSetType
<1>5. ToSet(m_buf) \intersect ToSet(Rest) = {} BY <1>2, <1>4, BelowDisjoint
<1>6. Written \subseteq Packets BY WrittenType
<1>7. ToSet(Flow) \subseteq Packets BY <1>3, <1>4
<1>8. Written \intersect ToSet(Flow) = {}
  BY <1>6, <1>7, BelowDisjoint DEF HistoryInv, OrderInv
<1> QED BY <1>2, <1>3, <1>4, <1>5, <1>6, <1>8

\* What is left in Flow when m_buf is cleared.
LEMMA Cleared ==
  ASSUME TypeInv, m_buf' = <<>>, UNCHANGED <<ringVars, data>>
  PROVE  Flow' = Rest
<1>1. Rest' = Rest BY DEF Rest, ringVars
<1>2. Rest \in Seq(Packets) BY FlowTypes
<1>3. <<>> \o Rest = Rest BY <1>2, ConcatEmptySeq
<1> QED BY <1>1, <1>3 DEF Flow

LEMMA FailHistory ==
  ASSUME TypeInv, HistoryInv, OpenFails \/ RenameFails
  PROVE  HistoryInv'
<1>1. /\ lost' = lost \union ToSet(m_buf) /\ m_buf' = <<>>
      /\ UNCHANGED <<ringVars, packetVars, data, files, archive>>
  BY DEF OpenFails, RenameFails
<1>2. Flow' = Rest BY <1>1, Cleared
<1>3. Lines(files)' = Lines(files) /\ Successive(files)' = Successive(files)
  BY <1>1 DEF Lines, Successive
<1>4. Written' = Written BY <1>1, <1>3 DEF Written
<1>5. Known' = Known BY <1>1 DEF Known, packetVars
<1>6. Below(Written, ToSet(Rest)) BY FlowParts DEF HistoryInv, OrderInv, Below
<1>7. OrderInv' BY <1>1, <1>2, <1>3, <1>4, <1>6, FlowParts DEF HistoryInv, OrderInv
<1>8. AccountInv'
  <2>1. Written \union ToSet(Rest) \union lost' = Known
    BY <1>1, FlowParts DEF HistoryInv, AccountInv
  <2>2. (Written \union ToSet(Rest)) \intersect lost' = {}
    BY <1>1, FlowParts DEF HistoryInv, AccountInv
  <2> QED BY <1>2, <1>4, <1>5, <2>1, <2>2 DEF AccountInv
<1> QED BY <1>7, <1>8 DEF HistoryInv

LEMMA NameHistory ==
  ASSUME TypeInv, HistoryInv, NameFiles
  PROVE  HistoryInv'
<1>1. /\ \/ archive' = archive \union Lines(files) /\ files' = <<>>
         \/ archive' = archive /\ files' = files
      /\ UNCHANGED <<ringVars, packetVars, data, m_buf, lost>>
  BY DEF NameFiles
<1>2. Flow' = Flow BY <1>1 DEF Flow, Rest, ringVars
<1>3. CASE archive' = archive /\ files' = files
  BY <1>1, <1>2, <1>3, HistorySame DEF packetVars
<1>4. CASE archive' = archive \union Lines(files) /\ files' = <<>>
  <2>1. Lines(<<>>) = {} /\ Successive(<<>>) BY DEF Lines, Successive
  <2>2. Lines(files') = {} /\ Successive(files') BY <1>4, <2>1
  <2>3. Written' = Written BY <1>4, <2>2 DEF Written
  <2>4. Below(archive', Lines(files')) BY <2>2 DEF Below
  <2>5. OrderInv' BY <1>2, <2>2, <2>3, <2>4 DEF HistoryInv, OrderInv
  <2>6. Known' = Known BY <1>1 DEF Known, packetVars
  <2>7. AccountInv' BY <1>1, <1>2, <2>3, <2>6 DEF HistoryInv, AccountInv
  <2> QED BY <2>5, <2>7 DEF HistoryInv
<1> QED BY <1>1, <1>3, <1>4

\* The file written is sorted and holds nothing that m_buf does not.
LEMMA TmpFacts ==
  ASSUME TypeInv, TmpInv, HistoryInv, pc = "rename"
  PROVE  Sorted(tmp) /\ ToSet(tmp) \subseteq ToSet(m_buf)
<1>1. CASE tmp = m_buf BY <1>1, FlowParts
<1>2. ASSUME NEW n \in 0..(Len(m_buf) - 1), tmp = SubSeq(m_buf, 1, n)
      PROVE  Sorted(tmp) /\ ToSet(tmp) \subseteq ToSet(m_buf)
  <2> DEFINE last == SubSeq(m_buf, n + 1, Len(m_buf))
  <2>1. m_buf \in Seq(Packets) BY FlowTypes
  <2>2. n \in 0..Len(m_buf) /\ tmp \in Seq(Packets) /\ tmp = SubSeq(m_buf, 1, n)
    <3>1. n \in 0..Len(m_buf) BY <2>1, LenProperties
    <3> QED BY <1>2, <2>1, <3>1, PrefixOfSeq
  <2>3. last \in Seq(Packets) BY <2>1, <2>2, SuffixOfSeq
  <2>4. tmp \o last = m_buf BY <2>1, <2>2, SplitSeq
  <2> HIDE DEF last
  <2>5. Sorted(tmp \o last) BY <2>4, FlowParts
  <2>6. Sorted(tmp) BY <2>2, <2>3, <2>5, SortedConcat
  <2>7. ToSet(tmp \o last) = ToSet(tmp) \union ToSet(last) BY <2>2, <2>3, ToSetConcat
  <2> QED BY <2>4, <2>6, <2>7
<1> QED BY <1>1, <1>2 DEF TmpInv

LEMMA RenameHistory ==
  ASSUME TypeInv, TmpInv, HistoryInv, RenameTmp
  PROVE  HistoryInv'
<1> DEFINE new == [serial |-> m_serial_cnt, lines |-> tmp]
           unwritten == ToSet(m_buf) \ ToSet(tmp)
<1>1. /\ pc = "rename" /\ Replace /\ m_buf' = <<>>
      /\ UNCHANGED <<ringVars, packetVars, data, archive>>
  BY DEF RenameTmp
<1>2. Flow' = Rest BY <1>1, Cleared
<1>3. Known' = Known BY <1>1 DEF Known, packetVars
<1>4. files \in Seq(FileRecord) /\ archive \subseteq Packets BY DEF TypeInv
<1>5. /\ new \in FileRecord
      /\ \/ files' = Append(files, new) /\ lost' = lost \union unwritten
         \/ \E k \in 1..Len(files) :
              /\ files' = Append(RemoveAt(files, k), new)
              /\ lost' = lost \union unwritten \union ToSet(files[k].lines)
  BY <1>1, ReplaceFacts
<1>6. new.lines = tmp OBVIOUS
<1> HIDE DEF new
<1>7. Sorted(tmp) /\ ToSet(tmp) \subseteq ToSet(m_buf) BY <1>1, TmpFacts
<1>8. ASSUME NEW kept \in Seq(FileRecord), NEW dropped,
             files' = Append(kept, new), lost' = lost \union unwritten \union dropped,
             Lines(files) = Lines(kept) \union dropped,
             Lines(kept) \intersect dropped = {}, Successive(kept)
      PROVE  HistoryInv'
  <2>1. Below(Written, ToSet(Flow)) /\ Below(archive, Lines(files)) /\ Written = archive \union Lines(files)
    BY DEF HistoryInv, OrderInv, Written
  <2>2. Below(Lines(kept), ToSet(tmp)) BY <1>7, <1>8, <2>1, FlowParts DEF Below
  <2>3. Lines(files') = Lines(kept) \union ToSet(tmp) /\ Successive(files')
    BY <1>5, <1>6, <1>7, <1>8, <2>2, LinesAppend
  <2>4. Below(archive, Lines(kept) \union ToSet(tmp))
    BY <1>7, <1>8, <2>1, FlowParts DEF Below
  <2>5. Below(archive \union (Lines(kept) \union ToSet(tmp)), ToSet(Rest))
    BY <1>7, <1>8, <2>1, FlowParts DEF Below
  <2>6. Written' = archive \union (Lines(kept) \union ToSet(tmp))
    BY <1>1, <2>3 DEF Written
  <2>7. OrderInv' BY <1>1, <1>2, <2>3, <2>4, <2>5, <2>6, FlowParts DEF OrderInv
  <2>8. archive \intersect Lines(files) = {}
    BY <1>4, <2>1, BelowDisjoint, LinesType
  <2>9. Written \union ToSet(Flow) \union lost = Known
        /\ (Written \union ToSet(Flow)) \intersect lost = {}
    BY DEF HistoryInv, AccountInv
  <2>10. /\ ToSet(Flow) = ToSet(m_buf) \union ToSet(Rest)
         /\ ToSet(m_buf) \intersect ToSet(Rest) = {} /\ Written \intersect ToSet(Flow) = {}
    BY FlowParts
  <2>11. archive \union (Lines(kept) \union ToSet(tmp)) \union ToSet(Rest) \union lost' = Known
    BY <1>7, <1>8, <2>1, <2>9, <2>10
  <2>12. (archive \union (Lines(kept) \union ToSet(tmp)) \union ToSet(Rest)) \intersect lost' = {}
    BY <1>7, <1>8, <2>1, <2>8, <2>9, <2>10
  <2>13. AccountInv' BY <1>2, <1>3, <2>6, <2>11, <2>12 DEF AccountInv
  <2> QED BY <2>7, <2>13 DEF HistoryInv
<1>9. Successive(files) BY DEF HistoryInv, OrderInv
<1>10. CASE files' = Append(files, new) /\ lost' = lost \union unwritten
  <2>1. /\ lost' = lost \union unwritten \union {} /\ Lines(files) = Lines(files) \union {}
        /\ Lines(files) \intersect {} = {}
    BY <1>10
  <2> QED BY <1>4, <1>8, <1>9, <1>10, <2>1
<1>11. ASSUME NEW k \in 1..Len(files), files' = Append(RemoveAt(files, k), new),
              lost' = lost \union unwritten \union ToSet(files[k].lines)
       PROVE  HistoryInv'
  <2>1. RemoveAt(files, k) \in Seq(FileRecord) BY <1>4, RemoveAtProperties
  <2>2. /\ Lines(files) = Lines(RemoveAt(files, k)) \union ToSet(files[k].lines)
        /\ Lines(RemoveAt(files, k)) \intersect ToSet(files[k].lines) = {}
        /\ Successive(RemoveAt(files, k))
    BY <1>4, <1>9, LinesRemove
  <2> QED BY <1>8, <1>11, <2>1, <2>2
<1> QED BY <1>5, <1>10, <1>11

LEMMA HistoryInit == Init => HistoryInv
<1> SUFFICES ASSUME Init PROVE HistoryInv OBVIOUS
<1>1. /\ queue = <<>> /\ taken = [c \in {L} |-> <<>>] /\ out = [c \in {L} |-> <<>>]
      /\ data = <<>> /\ m_buf = <<>> /\ files = <<>> /\ archive = {} /\ lost = {}
      /\ pushed = [p \in PacketThreads |-> 0]
  BY DEF Init, Ring!Init, L
<1>2. L \in {L} /\ taken[L] = <<>> /\ out[L] = <<>> BY <1>1
<1>3. <<>> \o <<>> = <<>> OBVIOUS
<1>4. Flow = <<>> BY <1>1, <1>2, <1>3, Zenon DEF Flow, Rest
<1>5. ToSet(<<>>) = {} /\ Sorted(<<>>) /\ Lines(<<>>) = {} /\ Successive(<<>>)
  BY DEF ToSet, Sorted, Lines, Successive
<1>6. Lines(files) = {} /\ Written = {} /\ ToSet(Flow) = {}
  BY <1>1, <1>4, <1>5 DEF Written
<1>7. OrderInv BY <1>1, <1>4, <1>5, <1>6 DEF OrderInv, Below
<1>8. Known = {}
  <2> SUFFICES ASSUME NEW r \in Packets, r[2] <= pushed[r[1]] PROVE FALSE BY DEF Known
  <2>1. r[1] \in PacketThreads /\ r[2] \in 1..Pushes BY DEF Packets
  <2> QED BY <1>1, <2>1, ConstantFacts
<1> QED BY <1>1, <1>6, <1>7, <1>8 DEF HistoryInv, AccountInv

LEMMA HistoryStep ==
  TypeInv /\ RingInv /\ SizeInv /\ HistoryInv /\ [Next]_vars => HistoryInv'
<1> SUFFICES ASSUME TypeInv, RingInv, SizeInv, HistoryInv, [Next]_vars PROVE HistoryInv' OBVIOUS
<1>1. ASSUME UNCHANGED <<ringVars, pushed, data, fileVars>> PROVE HistoryInv'
  <2>1. Flow' = Flow BY <1>1 DEF Flow, Rest, ringVars, fileVars
  <2> QED BY <1>1, <2>1, HistorySame DEF fileVars
<1>2. CASE \/ Tick \/ CmdStop \/ CmdSkipOutput \/ Signal \/ LoggerExit \/ CheckRotate \/ Destroy
           \/ CheckFree \/ Uninitialised \/ PassEnd \/ UNCHANGED vars
  BY <1>1, <1>2 DEF Tick, TickMonotonic, TickWall, CmdStop, CmdSkipOutput, Signal, LoggerExit,
     CheckRotate, Destroy, CheckTimeOut, CheckFree, Uninitialised, PassEnd, vars, packetVars,
     passVars
<1>3. ASSUME NEW p \in PacketThreads, PacketStep(p) PROVE HistoryInv'
  <2>1. CASE PacketExit(p) \/ PacketPass(p)
    BY <1>1, <2>1 DEF PacketExit, PacketPass, passVars
  <2>2. CASE PushClaim(p)
    <3>1. Flow' = Flow
      BY <2>2 DEF PushClaim, Ring!ReserveBatch, Flow, Rest, passVars, fileVars
    <3> QED BY <2>2, <3>1, HistorySame DEF PushClaim, packetVars, fileVars
  <2>3. CASE PushPublish(p) BY <2>3, PublishHistory
  <2>4. CASE PushFull(p) BY <2>4, FullHistory
  <2> QED BY <1>3, <2>1, <2>2, <2>3, <2>4 DEF PacketStep
<1>4. CASE Dequeue \/ Release \/ Dequeued \/ MakeCsvLog BY <1>4, FlowStep, HistorySame
<1>5. CASE NameFiles BY <1>5, NameHistory
<1>6. CASE OpenTmp \/ WriteTmp
  <2>1. /\ UNCHANGED <<ringVars, packetVars, passVars, m_buf, files, archive, lost>>
    BY <1>6 DEF OpenTmp, WriteTmp
  <2>2. Flow' = Flow BY <2>1 DEF Flow, Rest, ringVars, passVars
  <2> QED BY <2>1, <2>2, HistorySame DEF packetVars
<1>7. CASE OpenFails \/ RenameFails BY <1>7, FailHistory
<1>8. CASE RenameTmp BY <1>8, RenameHistory DEF SizeInv
<1> QED BY <1>2, <1>3, <1>4, <1>5, <1>6, <1>7, <1>8 DEF Next, LoggerStep, PassStep

LEMMA HistoryAlways == Spec => [](TypeInv /\ HistoryInv)
<1>1. Init => SizeInv BY PipelineAssumption DEF Init, SizeInv, TmpInv, FileSize
<1> QED BY <1>1, TypeInit, TypeStep, SizeStep, HistoryInit, HistoryStep, PTL DEF Spec

\* Segments, one by one.
LEMMA SegmentFacts ==
  ASSUME TypeInv
  PROVE  LET n == Len(files)
             stages == <<m_buf, data, out[L], taken[L], queue>>
         IN /\ n \in Nat /\ DOMAIN Segments = 1..(n + 5)
            /\ \A k \in 1..(n + 5) :
                 Segments[k] = IF k <= n THEN files[k].lines ELSE stages[k - n]
<1> DEFINE n == Len(files)
           stages == <<m_buf, data, out[L], taken[L], queue>>
           old == [k \in DOMAIN files |-> files[k].lines]
<1>1. files \in Seq(FileRecord) BY DEF TypeInv
<1>2. n \in Nat /\ DOMAIN files = 1..n /\ \A k \in 1..n : files[k].lines \in Seq(Packets)
  BY <1>1, FileTypes
<1>3. old \in Seq(Seq(Packets)) /\ Len(old) = n
  <2>1. old \in [1..n -> Seq(Packets)] BY <1>2
  <2>2. old \in Seq(Seq(Packets)) BY <1>2, <2>1
  <2>3. DOMAIN old = 1..n BY <1>2
  <2> QED BY <1>2, <2>2, <2>3, LenProperties
<1>4. stages \in Seq(Seq(Packets)) /\ Len(stages) = 5
  BY FlowTypes
<1>5. Segments = old \o stages BY DEF Segments, L
<1>6. \A k \in 1..n : old[k] = files[k].lines BY <1>2
<1> HIDE DEF n, stages, old
<1>7. /\ old \o stages \in Seq(Seq(Packets)) /\ Len(old \o stages) = n + 5
      /\ \A k \in 1..(n + 5) : (old \o stages)[k] = IF k <= n THEN old[k] ELSE stages[k - n]
  <2>1. /\ old \o stages \in Seq(Seq(Packets))
        /\ Len(old \o stages) = Len(old) + Len(stages)
        /\ \A k \in 1..(Len(old) + Len(stages)) :
             (old \o stages)[k] = IF k <= Len(old) THEN old[k] ELSE stages[k - Len(old)]
    BY ONLY <1>3, <1>4, ConcatProperties
  <2>2. Len(old) + Len(stages) = n + 5 BY <1>3, <1>4
  <2> QED BY <1>3, <2>1, <2>2
<1>8. DOMAIN (old \o stages) = 1..(n + 5) BY <1>7, LenProperties
<1>9. \A k \in 1..(n + 5) : k <= n => k \in 1..n BY <1>2
<1> QED BY <1>2, <1>5, <1>6, <1>7, <1>8, <1>9 DEF n, stages

LEMMA StageFacts ==
  ASSUME TypeInv, HistoryInv
  PROVE  LET stages == <<m_buf, data, out[L], taken[L], queue>>
         IN /\ \A i \in 1..5 : Sorted(stages[i])
            /\ \A i, j \in 1..5 : i < j => Below(ToSet(stages[i]), ToSet(stages[j]))
            /\ UNION {ToSet(stages[i]) : i \in 1..5} = ToSet(Flow)
<1> DEFINE ring == taken[L] \o queue
           batch == out[L] \o ring
           o == out[L]
           t == taken[L]
<1>1. /\ m_buf \in Seq(Packets) /\ data \in Seq(Packets) /\ o \in Seq(Packets)
      /\ t \in Seq(Packets) /\ queue \in Seq(Packets)
      /\ ring \in Seq(Packets) /\ batch \in Seq(Packets) /\ Rest \in Seq(Packets)
  BY FlowTypes
<1>2. /\ Flow = m_buf \o Rest /\ Rest = data \o batch /\ batch = o \o ring
      /\ ring = t \o queue
  BY DEF Flow, Rest
<1> HIDE DEF ring, batch, o, t
<1>3. Sorted(m_buf) /\ Sorted(Rest) /\ Below(ToSet(m_buf), ToSet(Rest)) BY FlowParts
<1>4. Sorted(data) /\ Sorted(batch) /\ Below(ToSet(data), ToSet(batch))
  BY <1>1, <1>2, <1>3, SortedConcat
<1>5. Sorted(o) /\ Sorted(ring) /\ Below(ToSet(o), ToSet(ring))
  BY <1>1, <1>2, <1>4, SortedConcat
<1>6. Sorted(t) /\ Sorted(queue) /\ Below(ToSet(t), ToSet(queue))
  BY <1>1, <1>2, <1>5, SortedConcat
<1>7. /\ ToSet(Flow) = ToSet(m_buf) \union ToSet(Rest)
      /\ ToSet(Rest) = ToSet(data) \union ToSet(batch)
      /\ ToSet(batch) = ToSet(o) \union ToSet(ring)
      /\ ToSet(ring) = ToSet(t) \union ToSet(queue)
  <2>1. \A u, v \in Seq(Packets) : ToSet(u \o v) = ToSet(u) \union ToSet(v)
    BY ToSetConcat
  <2>2. ToSet(data \o batch) = ToSet(data) \union ToSet(batch) BY ONLY <1>1, <2>1, Zenon
  <2>3. ToSet(o \o ring) = ToSet(o) \union ToSet(ring) BY ONLY <1>1, <2>1, Zenon
  <2>4. ToSet(t \o queue) = ToSet(t) \union ToSet(queue) BY ONLY <1>1, <2>1, Zenon
  <2> QED BY <1>2, <2>2, <2>3, <2>4, FlowParts
<1>8. \A S, T, U : Below(S, T \union U) => Below(S, T) /\ Below(S, U) BY DEF Below
<1>9. /\ Below(ToSet(m_buf), ToSet(data)) /\ Below(ToSet(m_buf), ToSet(o))
      /\ Below(ToSet(m_buf), ToSet(t)) /\ Below(ToSet(m_buf), ToSet(queue))
      /\ Below(ToSet(data), ToSet(o)) /\ Below(ToSet(data), ToSet(t))
      /\ Below(ToSet(data), ToSet(queue)) /\ Below(ToSet(o), ToSet(t))
      /\ Below(ToSet(o), ToSet(queue)) /\ Below(ToSet(t), ToSet(queue))
  <2>1. Below(ToSet(t), ToSet(queue)) BY <1>6
  <2>2. Below(ToSet(o), ToSet(t)) /\ Below(ToSet(o), ToSet(queue))
    BY <1>5, <1>7, <1>8
  <2>3. Below(ToSet(data), ToSet(o)) /\ Below(ToSet(data), ToSet(ring)) BY <1>4, <1>7, <1>8
  <2>4. Below(ToSet(data), ToSet(t)) /\ Below(ToSet(data), ToSet(queue)) BY <1>7, <1>8, <2>3
  <2>5. Below(ToSet(m_buf), ToSet(data)) /\ Below(ToSet(m_buf), ToSet(batch))
    BY <1>3, <1>7, <1>8
  <2>6. Below(ToSet(m_buf), ToSet(o)) /\ Below(ToSet(m_buf), ToSet(ring)) BY <1>7, <1>8, <2>5
  <2>7. Below(ToSet(m_buf), ToSet(t)) /\ Below(ToSet(m_buf), ToSet(queue))
    BY <1>7, <1>8, <2>6
  <2> QED BY <2>1, <2>2, <2>3, <2>4, <2>5, <2>6, <2>7
<1> DEFINE stages == <<m_buf, data, o, t, queue>>
<1>10. /\ stages[1] = m_buf /\ stages[2] = data /\ stages[3] = o /\ stages[4] = t
       /\ stages[5] = queue
  OBVIOUS
<1> HIDE DEF stages
<1>11. \A i \in 1..5 : i = 1 \/ i = 2 \/ i = 3 \/ i = 4 \/ i = 5 OBVIOUS
<1>12. \A i \in 1..5 : Sorted(stages[i])
  BY <1>3, <1>4, <1>5, <1>6, <1>10, <1>11
<1>13. ASSUME NEW i \in 1..5, NEW j \in 1..5, i < j
       PROVE  Below(ToSet(stages[i]), ToSet(stages[j]))
  BY <1>9, <1>10, <1>11, <1>13
<1>14. UNION {ToSet(stages[i]) : i \in 1..5} = ToSet(Flow)
  <2>1. ToSet(Flow) = ToSet(stages[1]) \union (ToSet(stages[2]) \union (ToSet(stages[3])
                        \union (ToSet(stages[4]) \union ToSet(stages[5]))))
    BY <1>7, <1>10
  <2>2. 1 \in 1..5 /\ 2 \in 1..5 /\ 3 \in 1..5 /\ 4 \in 1..5 /\ 5 \in 1..5 OBVIOUS
  <2>3. ASSUME NEW r
        PROVE  r \in ToSet(Flow) <=> \E i \in 1..5 : r \in ToSet(stages[i])
    BY <1>11, <2>1, <2>2
  <2> QED BY <2>3
<1> QED BY <1>12, <1>13, <1>14 DEF stages, o, t

LEMMA SegmentOrder == TypeInv /\ HistoryInv => InOrder
<1> SUFFICES ASSUME TypeInv, HistoryInv PROVE InOrder OBVIOUS
<1> DEFINE n == Len(files)
           stages == <<m_buf, data, out[L], taken[L], queue>>
<1>1. /\ n \in Nat /\ DOMAIN Segments = 1..(n + 5)
      /\ \A k \in 1..(n + 5) :
           Segments[k] = IF k <= n THEN files[k].lines ELSE stages[k - n]
  BY SegmentFacts
<1>2. /\ \A i \in 1..5 : Sorted(stages[i])
      /\ \A i, j \in 1..5 : i < j => Below(ToSet(stages[i]), ToSet(stages[j]))
      /\ UNION {ToSet(stages[i]) : i \in 1..5} = ToSet(Flow)
  BY StageFacts
<1>3. files \in Seq(FileRecord) BY DEF TypeInv
<1>4. DOMAIN files = 1..n BY <1>3, LenProperties
<1> HIDE DEF n, stages
<1>5. /\ \A k \in 1..n : Sorted(files[k].lines)
      /\ \A k, m \in 1..n : k < m => Below(ToSet(files[k].lines), ToSet(files[m].lines))
      /\ Below(archive, Lines(files)) /\ Below(Written, ToSet(Flow))
  BY <1>4 DEF HistoryInv, OrderInv, Successive
<1>6. \A k \in 1..n : ToSet(files[k].lines) \subseteq Lines(files) BY <1>4 DEF Lines
<1>7. \A i \in 1..5 : ToSet(stages[i]) \subseteq ToSet(Flow) BY <1>2
<1>8. \A k \in 1..(n + 5) : (k \in 1..n /\ Segments[k] = files[k].lines)
                            \/ (k > n /\ k - n \in 1..5 /\ Segments[k] = stages[k - n])
  BY <1>1
<1>9. archive \subseteq Written /\ Lines(files) \subseteq Written BY DEF Written
<1>10. ASSUME NEW k \in 1..(n + 5)
       PROVE  Sorted(Segments[k]) /\ Below(archive, ToSet(Segments[k]))
  <2>1. CASE k \in 1..n /\ Segments[k] = files[k].lines
    <3>1. ToSet(Segments[k]) \subseteq Lines(files) BY <1>6, <2>1
    <3> QED BY <1>5, <2>1, <3>1 DEF Below
  <2>2. CASE k > n /\ k - n \in 1..5 /\ Segments[k] = stages[k - n]
    <3>1. ToSet(Segments[k]) \subseteq ToSet(Flow) BY <1>7, <2>2
    <3>2. Below(archive, ToSet(Segments[k])) BY <1>5, <1>9, <3>1 DEF Below
    <3> QED BY <1>2, <2>2, <3>2
  <2> QED BY <1>8, <2>1, <2>2
<1>11. ASSUME NEW k \in 1..(n + 5), NEW m \in 1..(n + 5), k < m
       PROVE  Below(ToSet(Segments[k]), ToSet(Segments[m]))
  <2>1. CASE m \in 1..n /\ Segments[m] = files[m].lines
    <3>1. k \in 1..n /\ Segments[k] = files[k].lines BY <1>1, <1>8, <1>11, <2>1
    <3> QED BY <1>5, <1>11, <2>1, <3>1
  <2>2. CASE m > n /\ m - n \in 1..5 /\ Segments[m] = stages[m - n]
    <3>1. CASE k \in 1..n /\ Segments[k] = files[k].lines
      <4>1. /\ ToSet(Segments[k]) \subseteq Written
            /\ ToSet(Segments[m]) \subseteq ToSet(Flow)
        BY <1>6, <1>7, <1>9, <2>2, <3>1
      <4> QED BY <1>5, <4>1 DEF Below
    <3>2. CASE k > n /\ k - n \in 1..5 /\ Segments[k] = stages[k - n]
      <4>1. k - n < m - n BY <1>1, <1>11
      <4> QED BY <1>2, <2>2, <3>2, <4>1
    <3> QED BY <1>8, <3>1, <3>2
  <2> QED BY <1>8, <2>1, <2>2
<1> QED BY <1>1, <1>10, <1>11 DEF InOrder

LEMMA HeldIsAll == TypeInv /\ HistoryInv => Held = Written \union ToSet(Flow)
<1> SUFFICES ASSUME TypeInv, HistoryInv PROVE Held = Written \union ToSet(Flow) OBVIOUS
<1> DEFINE n == Len(files)
           stages == <<m_buf, data, out[L], taken[L], queue>>
<1>1. /\ n \in Nat /\ DOMAIN Segments = 1..(n + 5)
      /\ \A k \in 1..(n + 5) :
           Segments[k] = IF k <= n THEN files[k].lines ELSE stages[k - n]
  BY SegmentFacts
<1>2. UNION {ToSet(stages[i]) : i \in 1..5} = ToSet(Flow) BY StageFacts
<1>3. files \in Seq(FileRecord) BY DEF TypeInv
<1>4. DOMAIN files = 1..n BY <1>3, LenProperties
<1> HIDE DEF n, stages
<1>5. \A k \in 1..(n + 5) : (k \in 1..n /\ Segments[k] = files[k].lines)
                            \/ (k - n \in 1..5 /\ Segments[k] = stages[k - n])
  BY <1>1
<1>6. \A k \in 1..n : k \in 1..(n + 5) /\ Segments[k] = files[k].lines BY <1>1
<1>7. \A i \in 1..5 : n + i \in 1..(n + 5) /\ Segments[n + i] = stages[i] BY <1>1
<1>8. Lines(files) = UNION {ToSet(files[k].lines) : k \in 1..n} BY <1>4 DEF Lines
<1>9. Held = archive \union UNION {ToSet(Segments[k]) : k \in 1..(n + 5)}
  BY <1>1 DEF Held
<1>10. ASSUME NEW r
       PROVE  (\E k \in 1..(n + 5) : r \in ToSet(Segments[k]))
                <=> r \in Lines(files) \/ r \in ToSet(Flow)
  BY <1>2, <1>5, <1>6, <1>7, <1>8
<1> QED BY <1>9, <1>10 DEF Written

\* PacketGet, push_back, checkRotate's dequeue and its loop over data, makeCsvLog
\* and outputFile together keep each thread's packets in the order pushed, and
\* duplicate none: for every number of threads, whatever the ring refuses, the
\* disk loses and the names of files overwrite.
THEOREM PacketsInOrder == Spec => []InOrder
BY SegmentOrder, HistoryAlways, PTL

\* Every packet push_back was called for is in exactly one of: a file, the ring
\* or the memory of the logger thread; or the losses the code accepts.
THEOREM PacketsAccounted == Spec => []Accounted
<1>1. TypeInv /\ HistoryInv => Accounted
  BY HeldIsAll DEF HistoryInv, AccountInv, Accounted, Known
<1> QED BY <1>1, HistoryAlways, PTL

----------------------------------------------------------------------------
\* A disk that works and a ring that is never half full.

ToName == {"free", "dequeue", "release", "dequeued", "name"}
Writing == {"each", "write", "rename"}
Calm == room > kVectorThreshold

\* Files are written in timed out passes only.  Such a pass names its files before
\* the wall clock enters the next second, and the wall clock does so before the
\* monotonic clock lets another pass time out: that pass finds no file of its
\* second.
Timely ==
  /\ lag <= 1
  /\ lag > 0 => wallTurn /\ (isTimeOut => pc \notin ToName)
  /\ isTimeOut /\ pc \in ToName => wallTurn
  /\ (files # <<>> \/ (isTimeOut /\ pc \in Writing)) /\ ~newSecond =>
       wallTurn /\ lag <= 0 /\ (isTimeOut => pc \notin ToName)
  /\ data # <<>> \/ pc \in {"dequeue", "release", "dequeued", "write", "rename"} => isTimeOut
  /\ isTimeOut /\ pc \in Writing =>
       \A k \in DOMAIN files : files[k].serial < m_serial_cnt
  /\ pc = "rename" => tmp = m_buf
  /\ lost = {}

CalmInv == ~overtaken => Timely

LEMMA CalmRename ==
  ASSUME TypeInv, Timely, RenameTmp
  PROVE  Timely'
<1> DEFINE new == [serial |-> m_serial_cnt, lines |-> tmp]
           Same == {k \in DOMAIN files : files[k].serial = m_serial_cnt}
<1>1. /\ pc = "rename" /\ Replace /\ AfterOutput
      /\ UNCHANGED <<isTimeOut, data, lag, wallTurn, newSecond>>
  BY DEF RenameTmp, clockVars
<1>2. /\ isTimeOut /\ tmp = m_buf /\ lost = {}
      /\ lag <= 1 /\ (lag > 0 => wallTurn) /\ (~newSecond => wallTurn /\ lag <= 0)
      /\ \A k \in DOMAIN files : files[k].serial < m_serial_cnt
  BY <1>1 DEF Timely, Writing, TypeInv
<1>3. /\ m_serial_cnt \in Nat /\ files \in Seq(FileRecord) /\ tmp \in Seq(Packets)
  BY DEF TypeInv
<1>4. Same = {} BY <1>2, <1>3
<1>5. /\ files' = Append(files, new)
      /\ lost' = lost \union (ToSet(m_buf) \ ToSet(tmp))
  BY <1>1, <1>4 DEF Replace
<1>6. lost' = {} BY <1>2, <1>5
<1>7. CASE data = <<>>
  <2>1. pc' \in {"exited", "while"} BY <1>1, <1>7 DEF AfterOutput, Return
  <2> QED BY <1>1, <1>2, <1>6, <1>7, <2>1 DEF Timely, Writing, ToName
<1>8. CASE data # <<>>
  <2>1. pc' = "each" /\ m_serial_cnt' = m_serial_cnt + 1 BY <1>1, <1>8 DEF AfterOutput, Goto
  <2>2. ASSUME NEW k \in DOMAIN files' PROVE files'[k].serial < m_serial_cnt'
    <3>1. new \in FileRecord /\ new.serial = m_serial_cnt BY <1>3 DEF FileRecord
    <3> HIDE DEF new
    <3>2. /\ Len(files) \in Nat /\ DOMAIN files = 1..Len(files)
          /\ files' \in Seq(FileRecord) /\ Len(files') = Len(files) + 1
          /\ \A i \in 1..Len(files) : files'[i] = files[i]
          /\ files'[Len(files) + 1] = new
      BY <1>3, <1>5, <3>1, AppendProperties, LenProperties
    <3>3. k \in 1..(Len(files) + 1) BY <3>2, LenProperties
    <3>4. CASE k \in 1..Len(files)
      <4>1. files'[k] = files[k] /\ files[k].serial < m_serial_cnt /\ files[k] \in FileRecord
        BY <1>2, <1>3, <3>2, <3>4, FileTypes
      <4>2. files[k].serial \in Nat BY <4>1 DEF FileRecord
      <4> QED BY <1>3, <2>1, <4>1, <4>2
    <3>5. CASE k = Len(files) + 1 BY <1>3, <2>1, <3>1, <3>2, <3>5
    <3> QED BY <3>2, <3>3, <3>4, <3>5
  <2> QED BY <1>1, <1>2, <1>6, <1>8, <2>1, <2>2 DEF Timely, Writing, ToName
<1> QED BY <1>7, <1>8

LEMMA OvertakenStays == [Next]_vars /\ overtaken => overtaken'
  BY DEF Next, Tick, TickMonotonic, TickWall, CmdStop, CmdSkipOutput, Signal, PacketStep,
         PacketExit, PacketPass, PushClaim, PushPublish, PushFull, LoggerStep, LoggerExit,
         CheckRotate, Destroy, CheckTimeOut, PassStep, CheckFree, Uninitialised, Dequeue,
         Release, Dequeued, NameFiles, MakeCsvLog, OpenTmp, OpenFails, WriteTmp, RenameTmp,
         RenameFails, PassEnd, vars, clockVars

LEMMA CalmStep ==
  ASSUME ~DiskFails, TypeInv, RingInv, Calm, Timely, ~overtaken', [Next]_vars
  PROVE  Timely'
<1>1. /\ lag \in Int /\ room \in Nat /\ kVectorThreshold \in Nat /\ m_rotate_cycle \in Nat \ {0}
  BY ConstantFacts DEF TypeInv
<1>2. CASE TickMonotonic
  <2>1. /\ ~wallTurn /\ lag' = lag + 1 /\ wallTurn' = TRUE
        /\ UNCHANGED <<ringVars, flags, packetVars, pc, passVars, newSecond, fileVars>>
    BY <1>2 DEF TickMonotonic
  <2>2. lag' <= 1 BY <1>1, <2>1 DEF Timely
  <2> QED BY <2>1, <2>2 DEF Timely, ToName, Writing, passVars, fileVars
<1>3. CASE TickWall
  <2>1. ~(lag > 0) /\ (isTimeOut => pc \notin ToName) BY <1>3 DEF TickWall, Unnamed, ToName
  <2> QED BY <1>1, <1>3, <2>1 DEF TickWall, Timely, passVars, fileVars
<1>4. ASSUME UNCHANGED <<data, isTimeOut, m_serial_cnt, clockVars, fileVars>>, pc' = pc
      PROVE  Timely'
  BY <1>4 DEF Timely, clockVars, fileVars
<1>5. CASE CmdStop \/ CmdSkipOutput \/ Signal \/ UNCHANGED vars
  BY <1>4, <1>5 DEF CmdStop, CmdSkipOutput, Signal, vars, passVars
<1>6. CASE \E p \in PacketThreads : PacketStep(p)
  <2>1. room # 0 BY <1>1 DEF Calm
  <2> QED BY <1>4, <1>6, <2>1 DEF PacketStep, PacketExit, PacketPass, PushClaim, PushPublish,
             PushFull, passVars
<1>7. CASE LoggerExit
  BY <1>7 DEF LoggerExit, Goto, Timely, ToName, Writing, passVars, clockVars, fileVars
<1>8. CASE CheckRotate \/ Destroy
  <2>1. /\ pc \in {"while", "joined"} /\ isTimeOut' = (lag > 0)
        /\ lag' = IF lag > 0 THEN lag - m_rotate_cycle ELSE lag
        /\ pc' = "free"
        /\ UNCHANGED <<data, m_serial_cnt, wallTurn, newSecond, fileVars>>
    BY <1>8 DEF CheckRotate, Destroy, CheckTimeOut, Goto
  <2>2. lag' <= 0 /\ lag' <= 1 /\ ~(lag' > 0) BY <1>1, <2>1 DEF Timely
  <2>3. data = <<>> BY <2>1 DEF RingInv
  <2>4. CASE lag > 0
    <3>1. isTimeOut' BY <2>1, <2>4, Zenon
    <3>2. wallTurn /\ (files = <<>> \/ newSecond) BY <1>1, <2>4 DEF Timely
    <3> QED BY <2>1, <2>2, <2>3, <3>1, <3>2 DEF Timely, ToName, Writing, fileVars
  <2>5. CASE ~(lag > 0)
    <3>1. ~isTimeOut' BY <2>1, <2>5, Zenon
    <3> QED BY <2>1, <2>2, <2>3, <3>1 DEF Timely, ToName, Writing, fileVars
  <2> QED BY <2>4, <2>5
<1>9. CASE CheckFree
  <2>1. RingFreeCount > kVectorThreshold
    <3>1. \A a, b, c, d, v \in Nat : a + b + c + d = Capacity /\ a > v => Capacity - b - c > v
      BY ConstantFacts
    <3>2. room + Len(queue) + Len(taken[L]) + Cardinality(Reserving) = Capacity BY DEF RingInv
    <3>3. Capacity - Len(queue) - Len(taken[L]) > kVectorThreshold
      BY ONLY <1>1, <3>1, <3>2, Lengths, TypeInv, Calm, Zenon DEF Calm
    <3> QED BY <3>3 DEF RingFreeCount, L
  <2>2. ~(RingFreeCount <= kVectorThreshold)
    <3>1. RingFreeCount \in Int
      BY Lengths, ConstantFacts DEF RingFreeCount, L
    <3> QED BY <1>1, <2>1, <3>1
  <2>3. /\ pc = "free" /\ pc' = "dequeue" /\ isTimeOut
        /\ UNCHANGED <<passVars, clockVars, fileVars>>
    BY <1>9, <2>2 DEF CheckFree, Goto
  <2> QED BY <2>3 DEF Timely, ToName, Writing, passVars, clockVars, fileVars
<1>10. CASE Uninitialised
  BY <1>10 DEF Uninitialised, Goto, Timely, ToName, Writing, passVars, clockVars, fileVars
<1>11. CASE Dequeue \/ Release
  BY <1>11 DEF Dequeue, Release, Goto, Timely, ToName, Writing, passVars, clockVars, fileVars
<1>12. CASE Dequeued
  BY <1>12 DEF Dequeued, Goto, Timely, ToName, Writing, clockVars, fileVars
<1>13. CASE NameFiles
  <2>1. /\ pc = "name" /\ pc' = "each" /\ m_serial_cnt' = 0 /\ newSecond' = FALSE
        /\ newSecond => files' = <<>>
        /\ ~newSecond => files' = files
        /\ UNCHANGED <<isTimeOut, data, lag, wallTurn, m_buf, tmp, lost>>
    BY <1>13 DEF NameFiles, Goto
  <2>2. DOMAIN <<>> = {} OBVIOUS
  <2>3. isTimeOut => files' = <<>> BY <2>1 DEF Timely, ToName
  <2>4. isTimeOut => wallTurn BY <2>1 DEF Timely, ToName
  <2>5. /\ lag <= 1 /\ (lag > 0 => wallTurn) /\ (isTimeOut => lag <= 0)
        /\ files # <<>> /\ ~newSecond => wallTurn /\ lag <= 0
    BY <1>1, <2>1 DEF Timely, ToName
  <2>6. isTimeOut => \A k \in DOMAIN files' : files'[k].serial < m_serial_cnt'
    <3> SUFFICES ASSUME isTimeOut PROVE DOMAIN files' = {} OBVIOUS
    <3> QED BY <2>2, <2>3, Zenon
  <2>7. files' # <<>> => files' = files /\ ~newSecond BY <2>1
  <2> QED BY <2>1, <2>4, <2>5, <2>6, <2>7 DEF Timely, ToName, Writing
<1>14. CASE MakeCsvLog
  <2>1. /\ pc = "each" /\ pc' = pc /\ data # <<>>
        /\ UNCHANGED <<isTimeOut, m_serial_cnt, clockVars, files, lost>>
    BY <1>14 DEF MakeCsvLog
  <2> QED BY <2>1 DEF Timely, ToName, Writing, clockVars
<1>15. CASE OpenTmp
  BY <1>15 DEF OpenTmp, OutputDue, Goto, Timely, ToName, Writing, passVars, clockVars
<1>16. CASE WriteTmp
  BY <1>16 DEF WriteTmp, Goto, Timely, ToName, Writing, passVars, clockVars
<1>17. CASE OpenFails \/ RenameFails BY <1>17 DEF OpenFails, RenameFails
<1>18. CASE RenameTmp BY <1>18, CalmRename
<1>19. CASE PassEnd
  BY <1>19 DEF PassEnd, Return, Timely, ToName, Writing, passVars, clockVars, fileVars
<1> QED
  BY <1>2, <1>3, <1>5, <1>6, <1>7, <1>8, <1>9, <1>10, <1>11, <1>12, <1>13, <1>14, <1>15,
     <1>16, <1>17, <1>18, <1>19 DEF Next, Tick, LoggerStep, PassStep

\* Every file has a name of its own, and no packet is lost, until the wall clock
\* overtakes a timed out pass; for every number of threads and packets and every
\* rotation, as long as the disk works and the ring stays under half full.
THEOREM LossNeedsLatePass ==
  ASSUME ~DiskFails
  PROVE  Spec /\ [](room > kVectorThreshold) => []NothingLost
<1>1. Init => CalmInv
  BY DEF Init, CalmInv, Timely, ToName, Writing
<1>2. TypeInv /\ RingInv /\ Calm /\ CalmInv /\ [Next]_vars => CalmInv'
  <2> SUFFICES ASSUME TypeInv, RingInv, Calm, CalmInv, ~overtaken', [Next]_vars
               PROVE  Timely'
      BY DEF CalmInv
  <2>1. ~overtaken BY OvertakenStays
  <2> QED BY <2>1, CalmStep DEF CalmInv
<1>3. CalmInv => NothingLost BY DEF CalmInv, Timely, NothingLost
<1>4. Calm <=> room > kVectorThreshold BY DEF Calm
<1> QED BY <1>1, <1>2, <1>3, <1>4, TypesAlways, PTL DEF Spec
====
