---- MODULE PcapReader ----
(***************************************************************************)
(* PcapReader and FileReader (pcap.cc, file_reader.cpp) and the packet     *)
(* threads that share out what they read (logger_test.cpp).  A capture is  *)
(* a sequence of packets and its file a sequence of cells: the file        *)
(* header, then per packet a record header, whose value is the length, and *)
(* the parts of the packet that ParsePacket takes its fields from.  Any    *)
(* cell may be read as any field, as in the code, which checks no length.  *)
(***************************************************************************)
EXTENDS Integers, Sequences, SequencesExt, FiniteSets

CONSTANTS
  Captures,    \* what the capturing program may have to write
  CoreNums,    \* values of packet_core_num in .config
  kGroupBits,  \* width of uint8_t
  kHeap,       \* values of a cell nobody wrote or outside the buffer
  XorOp(_, _), \* the operator ^
  ReadFails    \* may open fail and read be short

\* The first two cells of a packet worth keeping: ether_type, and the ip header
\* of TCP or UDP with ihl 5 or 6, that is with 0 or 1 cell of options.
IPv4 == 1
Options == [ihl \in 1..2 |-> ihl - 1]

FileOf(packets) == <<0>> \o FlattenSeq([k \in DOMAIN packets |-> <<Len(packets[k])>> \o packets[k]])
Missing == <<-1>>

ASSUME PcapAssumption ==
  /\ CoreNums \subseteq Nat /\ kGroupBits \in Nat /\ kHeap \subseteq Nat
  /\ Captures \subseteq Seq(Seq(Nat))

VARIABLES
  capture,          \* the packets being captured
  file,             \* what is written of FileOf(capture), or Missing
  packet_core_num,
  data, length,     \* FileReader's buffer: what read put there, and its size
  heap,             \* what the memory without data in it holds
  offset, datas_,
  pc,               \* "stat", "create", "header", "packets", "done", "failed", "crashed"
  got               \* per packet thread: the vector it copied, or NotYet

inputs == <<capture, packet_core_num>>
bufferVars == <<data, length, heap>>
vars == <<inputs, file, bufferVars, offset, datas_, pc, got>>

\* The constructor's argument is a uint8_t.
group_num_ == packet_core_num % 2 ^ kGroupBits
Threads == 0..(packet_core_num - 1)
NotYet == <<[at |-> -1]>>

Init ==
  /\ capture \in Captures
  /\ \/ file = Missing
     \/ \E n \in 0..Len(FileOf(capture)) : file = SubSeq(FileOf(capture), 1, n)
  /\ packet_core_num \in CoreNums
  /\ data = <<>> /\ length = 0 /\ heap \in [0..1 -> kHeap]
  /\ offset = 0 /\ datas_ = [g \in 0..(group_num_ - 1) |-> <<>>]
  /\ pc = "stat" /\ got = [t \in Threads |-> NotYet]

\* The capturing program goes on writing while the file is read.
Capture ==
  /\ pc \in {"stat", "create"} /\ file # Missing
  /\ Len(file) < Len(FileOf(capture))
  /\ file' = SubSeq(FileOf(capture), 1, Len(file) + 1)
  /\ UNCHANGED <<inputs, bufferVars, offset, datas_, pc, got>>

\* get_file_size; without a file mmap_create's own stat fails.
Stat ==
  /\ pc = "stat"
  /\ IF file = Missing THEN pc' = "failed" /\ UNCHANGED length
                       ELSE pc' = "create" /\ length' = Len(file)
  /\ UNCHANGED <<inputs, file, data, heap, offset, datas_, got>>

\* mmap_create: a buffer of the size found by stat, and one read whose answer is
\* not looked at.
Create ==
  /\ pc = "create" /\ pc' = "header"
  /\ \E n \in 0..length : /\ ReadFails \/ n = length
                          /\ data' = SubSeq(file, 1, n)
  /\ UNCHANGED <<inputs, file, length, heap, offset, datas_, got>>

\* open fails: ReadPcapFile returns -1, which nobody looks at.
CreateFails ==
  /\ pc = "create" /\ ReadFails /\ pc' = "failed"
  /\ UNCHANGED <<inputs, file, bufferVars, offset, datas_, got>>

\* The file header is copied and passed over whatever the length.
ReadHeader ==
  /\ pc = "header" /\ pc' = "packets" /\ offset' = offset + 1
  /\ UNCHANGED <<inputs, file, bufferVars, datas_, got>>

Cell(k) == IF k < Len(data) THEN data[k + 1] ELSE heap[k % 2]

\* Mutant of Ports: the line commented out at pcap.cc:35.
PortsNoIhl(start) == Cell(start + 3)

\* The first cell of the L4 header is where the ihl says.
Ports(start) == Cell(start + 3 + Options[Cell(start + 1)])

\* ParsePacket answers 1 for TCP and UDP over IPv4 only ...
Parsed(start) == Cell(start) = IPv4 /\ Cell(start + 1) \in DOMAIN Options

\* ... and fills in the four fields; a cell holds two of them.  at is a history
\* field: where the record was.
ParsePacket(start) ==
  LET addresses == Cell(start + 2) ports == Ports(start)
  IN [scr_ipv4 |-> addresses \div 2, dst_ipv4 |-> addresses % 2,
      scr_port |-> ports \div 2, dst_port |-> ports % 2, at |-> start - 1]

\* Mutant of Hash4Tuple: packets are dealt out one after the other.
HashInTurn(packet) == packet.at

Hash4Tuple(packet) ==
  XorOp(XorOp(packet.scr_ipv4 * 59, packet.dst_ipv4),
      XorOp(packet.scr_port * 2 ^ 16, packet.dst_port))

\* Mutant of Another: the file's size is taken for that of the records alone.
AnotherLate == offset <= length + 1

\* The loop test: at the very end of the buffer it still goes on.
Another == offset <= length

\* One round of the loop; a remainder by 0 ends the process.
ReadPacket ==
  /\ pc = "packets" /\ Another
  /\ LET start == offset + 1 packet == ParsePacket(start)
     IN /\ offset' = start + Cell(offset)
        /\ \/ ~Parsed(start) /\ UNCHANGED <<datas_, pc>>
           \/ /\ Parsed(start) /\ group_num_ = 0
              /\ pc' = "crashed" /\ UNCHANGED datas_
           \/ /\ Parsed(start) /\ group_num_ # 0
              /\ datas_' = [datas_ EXCEPT ![Hash4Tuple(packet) % group_num_] =
                                            Append(@, packet)]
              /\ UNCHANGED pc
  /\ UNCHANGED <<inputs, file, bufferVars, got>>

ReadDone ==
  /\ pc = "packets" /\ ~Another /\ pc' = "done"
  /\ UNCHANGED <<inputs, file, bufferVars, offset, datas_, got>>

GroupOf(id) == id % group_num_

\* A packet thread copies the vector GetPcapPacketVector gives it.
Get(id) ==
  /\ pc \in {"done", "failed"} /\ got[id] = NotYet
  /\ IF group_num_ = 0 THEN pc' = "crashed" /\ UNCHANGED got
                       ELSE got' = [got EXCEPT ![id] = datas_[GroupOf(id)]] /\ UNCHANGED pc
  /\ UNCHANGED <<inputs, file, bufferVars, offset, datas_>>

Next == \/ Capture \/ Stat \/ Create \/ CreateFails \/ ReadHeader \/ ReadPacket \/ ReadDone
        \/ \E id \in Threads : Get(id)

Spec == Init /\ [][Next]_vars

----------------------------------------------------------------------------
\* Properties.

Packets == UNION {Range(datas_[g]) : g \in DOMAIN datas_}
Flow(packet) == <<packet.scr_ipv4, packet.dst_ipv4, packet.scr_port, packet.dst_port>>

\* Type invariant.  The loop leaves the buffer by one record at most.
TypeOK ==
  /\ \A k \in DOMAIN data : data[k] \in Nat
  /\ length \in Nat /\ offset \in Nat
  /\ offset # 0 => \A packet \in Packets : packet.at <= length
  /\ DOMAIN datas_ = 0..(group_num_ - 1) /\ DOMAIN got = Threads
  /\ pc \in {"stat", "create", "header", "packets", "done", "failed", "crashed"}

\* Where the record of capture[k] is in the file, and whether the buffer has it.
At(k) == Len(FileOf(SubSeq(capture, 1, k - 1)))
Whole(k) == At(k) + 1 + Len(capture[k]) <= length

\* A packet shorter than the headers it claims to have: len is never looked at,
\* so it is judged by what comes after it.
Cut(p) ==
  \/ p = <<>> \/ p = <<IPv4>>
  \/ p[1] = IPv4 /\ p[2] \in DOMAIN Options /\ Len(p) < 4 + Options[p[2]]

\* What ought to be kept of a whole packet.
Kept(p) == ~Cut(p) /\ p[1] = IPv4 /\ p[2] \in DOMAIN Options
FlowOf(p) ==
  LET ports == p[4 + Options[p[2]]]
  IN <<p[3] \div 2, p[3] % 2, ports \div 2, ports % 2>>

\* Wherever the file ended when it was opened, the packets it holds whole are
\* kept, each once and unchanged, and in each group in the order of the file;
\* besides them there is, whatever the heap holds, at most one packet made of
\* cells outside the buffer, behind all others of its group.
GroupsHoldCapture ==
  (pc = "done" /\ Len(data) = length) =>
    LET whole == {k \in DOMAIN capture : Whole(k)}
        sure == {k \in whole : Kept(capture[k])}
        stray == {packet \in Packets : \A k \in whole : packet.at # At(k)}
    IN /\ \A k \in sure : \E packet \in Packets :
            packet.at = At(k) /\ Flow(packet) = FlowOf(capture[k])
       /\ \A k \in whole : (\E packet \in Packets : packet.at = At(k)) =>
            Kept(capture[k]) \/ Cut(capture[k])
       /\ \A g \in DOMAIN datas_ : \A m, n \in DOMAIN datas_[g] :
            m < n => datas_[g][m].at < datas_[g][n].at
       /\ Cardinality(stray) <= 1

\* What the hash is for: with a number of threads that uint8_t can hold, each
\* packet goes to one thread, and the packets of a flow all to the same, so a
\* flow is never reordered by two threads.
FlowsStayTogether ==
  (/\ packet_core_num \in 1..(2 ^ kGroupBits - 1)
   /\ \A id \in Threads : got[id] # NotYet) =>
    /\ Packets = UNION {Range(got[id]) : id \in Threads}
    /\ \A id, jd \in Threads : id # jd =>
         {Flow(packet) : packet \in Range(got[id])} \intersect
         {Flow(packet) : packet \in Range(got[jd])} = {}
====
