---- MODULE Logger ----
(***************************************************************************)
(* The logging pipeline of src/logger_test.cpp and src/logger.cpp (the     *)
(* build without VECTOR_TEST, uncompressed files): capture threads push    *)
(* their packets into the ring, one logger thread empties the ring in      *)
(* checkRotate and writes rotated files, a command thread and a signal     *)
(* stop them, and the destructor runs checkRotate once more.               *)
(*                                                                         *)
(* The ring is RingQueue, which BuffRing implements.  Clocks count         *)
(* seconds: the monotonic clock appears only as lag, the wall clock only   *)
(* as the difference between the present second and the one in             *)
(* m_fileGenTime.  A line of a file is the packet it describes.            *)
(***************************************************************************)
EXTENDS Integers, Sequences, FiniteSets, SequencesExt

CONSTANTS
  PacketThreads,      \* threads running PacketGet
  LoggerThread,       \* the thread running LoggerWrite
  kTimes,             \* passes of a packet thread over its packets
  PacketsPerPass,     \* the packets of one pass (ppv.size())
  kVectorThreshold,   \* half of the ring, and the largest batch
  m_rotate_size,      \* lines after which a file is full
  m_rotate_cycle,     \* seconds between rotations
  Commands,           \* what the user may type
  DiskFails,          \* fopen and fwrite may fail
  MaxLag              \* bound on lag: the clock waits there

ASSUME PipelineAssumption ==
  /\ LoggerThread \notin PacketThreads /\ IsFiniteSet(PacketThreads)
  /\ kTimes \in Nat /\ PacketsPerPass \in Nat \ {0}
  /\ kVectorThreshold \in Nat \ {0} /\ m_rotate_size \in Nat
  /\ m_rotate_cycle \in Nat \ {0}
  /\ Commands \subseteq {"stop", "skip_output", "no_skip_output"}
  /\ DiskFails \in BOOLEAN
  /\ MaxLag \in Nat \ {0}

Capacity == 2 * kVectorThreshold - 1
Pushes == kTimes * PacketsPerPass
Packets == PacketThreads \X (1..Pushes)   \* <<p, k>>: the k-th push of p

VARIABLES
  queue, room, reserved, taken, out,   \* m_data, as RingQueue
  StopRunning, SkipOutput,
  cmd,             \* the command thread: "readLine" or "joined"
  packet_pc,       \* per packet thread: "while", "for" or "joined"
  pushed,          \* per packet thread: calls of push_back completed
  pc,              \* the thread in checkRotate: its next step
  exiting,         \* that thread is main, in ~BasicBusinessLogger
  isTimeOut, data, \* locals of checkRotate: data from index i on
  m_buf, m_serial_cnt,
  tmp,             \* content of the .tmptmp file
  lag,             \* uptime - m_start_time - m_roate_cnt * m_rotate_cycle
  wallTurn,        \* the wall clock is the next to change its second
  newSecond,       \* the present second is not the one in m_fileGenTime
  overtaken,       \* history: the wall clock has overtaken a timed out pass
  files,           \* files named after m_fileGenTime, in order of writing
  archive,         \* the lines in the files of earlier seconds
  lost             \* accepted or refused packets no file will ever hold

ringVars == <<queue, room, reserved, taken, out>>
flags == <<StopRunning, SkipOutput, cmd>>
packetVars == <<packet_pc, pushed>>
passVars == <<exiting, isTimeOut, data, m_serial_cnt>>
clockVars == <<lag, wallTurn, newSecond, overtaken>>
fileVars == <<m_buf, tmp, files, archive, lost>>
vars == <<ringVars, flags, packetVars, pc, passVars, clockVars, fileVars>>

Ring == INSTANCE RingQueue WITH Producers <- PacketThreads,
                                Consumers <- {LoggerThread}, Items <- Packets

Init ==
  /\ Ring!Init
  /\ StopRunning = FALSE /\ SkipOutput = FALSE /\ cmd = "readLine"
  /\ packet_pc = [p \in PacketThreads |-> "while"]
  /\ pushed = [p \in PacketThreads |-> 0]
  /\ pc = "while" /\ exiting = FALSE /\ isTimeOut = FALSE
  /\ data = <<>> /\ m_buf = <<>> /\ m_serial_cnt = 0
  /\ tmp = <<>> /\ files = <<>> /\ archive = {} /\ lost = {}
  /\ lag = 0 /\ wallTurn = FALSE /\ newSecond = TRUE /\ overtaken = FALSE

\* The process exists.
Running == pc \notin {"exited", "crashed"}

----------------------------------------------------------------------------
\* Clocks.  Both change once a second, at different instants, so in turns.

TickMonotonic ==
  /\ Running /\ ~wallTurn /\ lag < MaxLag
  /\ lag' = lag + 1 /\ wallTurn' = TRUE
  /\ UNCHANGED <<ringVars, flags, packetVars, pc, passVars, newSecond, overtaken, fileVars>>

\* A timed out pass is due, or runs and has not named its files yet.
Unnamed ==
  lag > 0 \/ (isTimeOut /\ pc \in {"free", "dequeue", "release", "dequeued", "name"})

TickWall ==
  /\ Running /\ wallTurn
  /\ newSecond' = TRUE /\ wallTurn' = FALSE
  /\ overtaken' = (overtaken \/ Unnamed)
  /\ UNCHANGED <<ringVars, flags, packetVars, pc, passVars, lag, fileVars>>

----------------------------------------------------------------------------
\* The command thread and SIGINT.

\* "stop", or the loop's test of StopRunning after another line was read.
CmdStop ==
  /\ Running /\ cmd = "readLine" /\ ("stop" \in Commands \/ StopRunning)
  /\ StopRunning' = TRUE /\ cmd' = "joined"
  /\ UNCHANGED <<ringVars, SkipOutput, packetVars, pc, passVars, clockVars, fileVars>>

CmdSkipOutput ==
  /\ Running /\ cmd = "readLine"
  /\ \/ "skip_output" \in Commands /\ SkipOutput' = TRUE
     \/ "no_skip_output" \in Commands /\ SkipOutput' = FALSE
  /\ UNCHANGED <<ringVars, StopRunning, cmd, packetVars, pc, passVars, clockVars, fileVars>>

\* signal_handler only sets the flag; readLine goes on waiting for a key.
Signal ==
  /\ Running /\ "stop" \in Commands
  /\ StopRunning' = TRUE
  /\ UNCHANGED <<ringVars, SkipOutput, cmd, packetVars, pc, passVars, clockVars, fileVars>>

----------------------------------------------------------------------------
\* PacketGet.  StopRunning is tested between passes only.

PacketExit(p) ==
  /\ Running /\ packet_pc[p] = "while"
  /\ StopRunning \/ pushed[p] = Pushes
  /\ packet_pc' = [packet_pc EXCEPT ![p] = "joined"]
  /\ UNCHANGED <<ringVars, flags, pushed, pc, passVars, clockVars, fileVars>>

PacketPass(p) ==
  /\ Running /\ packet_pc[p] = "while"
  /\ ~StopRunning /\ pushed[p] < Pushes
  /\ packet_pc' = [packet_pc EXCEPT ![p] = "for"]
  /\ UNCHANGED <<ringVars, flags, pushed, pc, passVars, clockVars, fileVars>>

NextPacket(p) == <<p, pushed[p] + 1>>

Pushed(p) ==
  /\ pushed' = [pushed EXCEPT ![p] = @ + 1]
  /\ packet_pc' = [packet_pc EXCEPT ![p] =
                     IF (pushed[p] + 1) % PacketsPerPass = 0 THEN "while" ELSE "for"]

\* push_back claims one slot ...
PushClaim(p) ==
  /\ Running /\ packet_pc[p] = "for"
  /\ Ring!ReserveBatch(p, <<NextPacket(p)>>)
  /\ UNCHANGED <<flags, packetVars, pc, passVars, clockVars, fileVars>>

\* ... and publishes it.
PushPublish(p) ==
  /\ Running /\ Ring!Publish(p)
  /\ Pushed(p)
  /\ UNCHANGED <<flags, pc, passVars, clockVars, fileVars>>

\* DoEnqueue answers 0, which it does only when the ring is full; push_back
\* ignores the answer and the packet is gone.
PushFull(p) ==
  /\ Running /\ packet_pc[p] = "for" /\ reserved[p] = <<>> /\ room = 0
  /\ lost' = lost \union {NextPacket(p)}
  /\ Pushed(p)
  /\ UNCHANGED <<ringVars, flags, pc, passVars, clockVars, m_buf, tmp, files, archive>>

----------------------------------------------------------------------------
\* LoggerWrite and checkRotate.

Goto(label) == pc' = label

\* Mutant of LoggerExit: SkipOutput is tested first.
LoggerExitUnlessSkipping ==
  /\ pc = "while" /\ StopRunning /\ ~SkipOutput
  /\ Goto("joined")
  /\ UNCHANGED <<ringVars, flags, packetVars, passVars, clockVars, fileVars>>

LoggerExit ==
  /\ pc = "while" /\ StopRunning
  /\ Goto("joined")
  /\ UNCHANGED <<ringVars, flags, packetVars, passVars, clockVars, fileVars>>

\* Mutant of CheckTimeOut: m_roate_cnt is not incremented.
CheckTimeOutNoCount ==
  /\ isTimeOut' = (lag > 0)
  /\ lag' = lag
  /\ Goto("free")
  /\ UNCHANGED <<ringVars, flags, packetVars, data, m_serial_cnt,
                 wallTurn, newSecond, overtaken, fileVars>>

\* Mutant of CheckTimeOut: >= where the code has >.
CheckTimeOutEarly ==
  /\ isTimeOut' = (lag >= 0)
  /\ lag' = IF lag >= 0 THEN lag - m_rotate_cycle ELSE lag
  /\ Goto("free")
  /\ UNCHANGED <<ringVars, flags, packetVars, data, m_serial_cnt,
                 wallTurn, newSecond, overtaken, fileVars>>

\* The clock against m_roate_cnt cycles: a pass is timed out once per cycle,
\* or, after a delay, once per pass until m_roate_cnt has caught up.
CheckTimeOut ==
  /\ isTimeOut' = (lag > 0)
  /\ lag' = IF lag > 0 THEN lag - m_rotate_cycle ELSE lag
  /\ Goto("free")
  /\ UNCHANGED <<ringVars, flags, packetVars, data, m_serial_cnt,
                 wallTurn, newSecond, overtaken, fileVars>>

CheckRotate ==
  /\ pc = "while" /\ ~StopRunning /\ ~SkipOutput
  /\ exiting' = FALSE
  /\ CheckTimeOut

\* main: every thread is joined and gLogger is destroyed.
Destroy ==
  /\ pc = "joined" /\ cmd = "joined"
  /\ \A p \in PacketThreads : packet_pc[p] = "joined"
  /\ exiting' = TRUE
  /\ CheckTimeOut

RingFreeCount == Capacity - Len(queue) - Len(taken[LoggerThread])

CheckFree ==
  /\ pc = "free"
  /\ isTimeOut \/ RingFreeCount <= kVectorThreshold
  /\ Goto("dequeue")
  /\ UNCHANGED <<ringVars, flags, packetVars, passVars, clockVars, fileVars>>

\* Otherwise data and how_much are never assigned.  What the stack holds is
\* either 0 and NULL, and the pass goes on with no packet, or something else:
\* reading packets from there, or deleting it, ends the process.
Uninitialised ==
  /\ pc = "free"
  /\ ~isTimeOut /\ RingFreeCount > kVectorThreshold
  /\ Goto("name") \/ Goto("crashed")
  /\ UNCHANGED <<ringVars, flags, packetVars, passVars, clockVars, fileVars>>

\* DoDequeue of at most kVectorThreshold packets.
Dequeue ==
  /\ pc = "dequeue"
  /\ IF queue = <<>>
       THEN Goto("name") /\ UNCHANGED ringVars
       ELSE /\ Ring!TakeFirst(LoggerThread,
                 IF Len(queue) < kVectorThreshold THEN Len(queue) ELSE kVectorThreshold)
            /\ Goto("release")
  /\ UNCHANGED <<flags, packetVars, passVars, clockVars, fileVars>>

Release ==
  /\ pc = "release"
  /\ Ring!Release(LoggerThread)
  /\ Goto("dequeued")
  /\ UNCHANGED <<flags, packetVars, passVars, clockVars, fileVars>>

\* Mutant of Dequeued: the loop over data starts at 1.
DequeuedFromOne ==
  /\ pc = "dequeued"
  /\ Ring!Return(LoggerThread)
  /\ data' = Tail(out[LoggerThread])
  /\ Goto("name")
  /\ UNCHANGED <<flags, packetVars, exiting, isTimeOut, m_serial_cnt, clockVars, fileVars>>

Dequeued ==
  /\ pc = "dequeued"
  /\ Ring!Return(LoggerThread)
  /\ data' = out[LoggerThread]
  /\ Goto("name")
  /\ UNCHANGED <<flags, packetVars, exiting, isTimeOut, m_serial_cnt, clockVars, fileVars>>

Lines(fs) == UNION {ToSet(fs[k].lines) : k \in DOMAIN fs}

\* m_serial_cnt = 0 and getFileGenTime: names start again at 00000, in the
\* present second.
NameFiles ==
  /\ pc = "name"
  /\ m_serial_cnt' = 0
  /\ newSecond' = FALSE
  /\ IF newSecond THEN archive' = archive \union Lines(files) /\ files' = <<>>
                  ELSE UNCHANGED <<archive, files>>
  /\ Goto("each")
  /\ UNCHANGED <<ringVars, flags, packetVars, exiting, isTimeOut, data,
                 lag, wallTurn, overtaken, m_buf, tmp, lost>>

\* Mutant of Full: off by one.
FullLater == Len(m_buf) > m_rotate_size + 1

Full == Len(m_buf) > m_rotate_size

\* makeCsvLog(data[i]) and the next i.
MakeCsvLog ==
  /\ pc = "each" /\ data # <<>> /\ ~Full
  /\ m_buf' = Append(m_buf, Head(data))
  /\ data' = Tail(data)
  /\ UNCHANGED <<ringVars, flags, packetVars, pc, exiting, isTimeOut, m_serial_cnt,
                 clockVars, tmp, files, archive, lost>>

\* Mutant of OutputDue: a timed out pass writes no file of its own.
OutputDueWhenFull == data # <<>> /\ Full

\* A file is due: it is full, or the pass ends timed out without having written
\* one.
OutputDue == IF data # <<>> THEN Full ELSE isTimeOut /\ m_serial_cnt = 0

\* outputFile, fopen of the .tmptmp file.
OpenTmp ==
  /\ pc = "each" /\ OutputDue
  /\ tmp' = <<>>
  /\ Goto("write")
  /\ UNCHANGED <<ringVars, flags, packetVars, passVars, clockVars, m_buf, files, archive, lost>>

\* After outputFile: m_serial_cnt++ when it was called for a packet, else the
\* pass returns.
Return == pc' = IF exiting THEN "exited" ELSE "while"
AfterOutput ==
  IF data # <<>> THEN m_serial_cnt' = m_serial_cnt + 1 /\ Goto("each")
                 ELSE UNCHANGED m_serial_cnt /\ Return

\* fopen fails: the message is printed and m_buf cleared all the same.
OpenFails ==
  /\ pc = "each" /\ OutputDue /\ DiskFails
  /\ lost' = lost \union ToSet(m_buf)
  /\ m_buf' = <<>>
  /\ AfterOutput
  /\ UNCHANGED <<ringVars, flags, packetVars, exiting, isTimeOut, data,
                 clockVars, tmp, files, archive>>

\* fwrite; a short write on a full disk goes unnoticed.  A line that is cut
\* counts as not written.
WriteTmp ==
  /\ pc = "write"
  /\ \/ tmp' = m_buf
     \/ DiskFails /\ \E n \in 0..(Len(m_buf) - 1) : tmp' = SubSeq(m_buf, 1, n)
  /\ Goto("rename")
  /\ UNCHANGED <<ringVars, flags, packetVars, passVars, clockVars, m_buf, files, archive, lost>>

\* rename replaces a file of the same second and serial, whose lines are lost;
\* so are those that a short write left out.
Replace ==
  LET Same == {k \in DOMAIN files : files[k].serial = m_serial_cnt}
      new == [serial |-> m_serial_cnt, lines |-> tmp]
      unwritten == ToSet(m_buf) \ ToSet(tmp)
  IN \/ /\ Same = {}
        /\ files' = Append(files, new)
        /\ lost' = lost \union unwritten
     \/ \E k \in Same : /\ files' = Append(RemoveAt(files, k), new)
                        /\ lost' = lost \union unwritten \union ToSet(files[k].lines)

\* Mutant of RenameTmp: m_buf is not cleared.
RenameTmpKeepsBuffer ==
  /\ pc = "rename"
  /\ Replace
  /\ AfterOutput
  /\ UNCHANGED <<ringVars, flags, packetVars, exiting, isTimeOut, data, clockVars, m_buf, tmp, archive>>

\* rename, and m_buf.clear().
RenameTmp ==
  /\ pc = "rename"
  /\ Replace
  /\ m_buf' = <<>>
  /\ AfterOutput
  /\ UNCHANGED <<ringVars, flags, packetVars, exiting, isTimeOut, data, clockVars, tmp, archive>>

\* rename fails, which nobody notices either.
RenameFails ==
  /\ pc = "rename" /\ DiskFails
  /\ lost' = lost \union ToSet(m_buf)
  /\ m_buf' = <<>>
  /\ AfterOutput
  /\ UNCHANGED <<ringVars, flags, packetVars, exiting, isTimeOut, data,
                 clockVars, tmp, files, archive>>

\* return 1
PassEnd ==
  /\ pc = "each" /\ data = <<>> /\ ~OutputDue
  /\ Return
  /\ UNCHANGED <<ringVars, flags, packetVars, passVars, clockVars, fileVars>>

PassStep ==
  \/ CheckFree \/ Uninitialised \/ Dequeue \/ Release \/ Dequeued \/ NameFiles
  \/ MakeCsvLog \/ OpenTmp \/ OpenFails \/ WriteTmp
  \/ RenameTmp \/ RenameFails \/ PassEnd
LoggerStep == LoggerExit \/ CheckRotate \/ PassStep
PacketStep(p) ==
  PacketExit(p) \/ PacketPass(p) \/ PushClaim(p) \/ PushPublish(p) \/ PushFull(p)
Tick == TickMonotonic \/ TickWall

Next ==
  \/ Tick \/ CmdStop \/ CmdSkipOutput \/ Signal
  \/ \E p \in PacketThreads : PacketStep(p)
  \/ LoggerStep \/ Destroy

Spec == Init /\ [][Next]_vars

\* The clocks go on and the threads are scheduled.
FairSpec == /\ Spec
            /\ WF_vars(Tick)
            /\ WF_vars(LoggerStep)
            /\ \A p \in PacketThreads : WF_vars(PacketStep(p))

----------------------------------------------------------------------------
\* Properties.

\* The files of the present second and where a packet may be before it is in
\* one, oldest first; every line in a file; and all of these together.
Segments ==
  [k \in DOMAIN files |-> files[k].lines]
    \o <<m_buf, data, out[LoggerThread], taken[LoggerThread], queue>>
Written == archive \union Lines(files)
Held == archive \union UNION {ToSet(Segments[k]) : k \in DOMAIN Segments}

\* Type invariant.
TypeOK ==
  /\ queue \in Seq(Packets) /\ room \in 0..Capacity
  /\ reserved \in [PacketThreads -> Seq(Packets)]
  /\ taken \in [{LoggerThread} -> Seq(Packets)] /\ out \in [{LoggerThread} -> Seq(Packets)]
  /\ StopRunning \in BOOLEAN /\ SkipOutput \in BOOLEAN /\ cmd \in {"readLine", "joined"}
  /\ packet_pc \in [PacketThreads -> {"while", "for", "joined"}]
  /\ pushed \in [PacketThreads -> 0..Pushes]
  /\ pc \in {"while", "joined", "free", "dequeue", "release", "dequeued", "name", "each",
            "write", "rename", "exited", "crashed"}
  /\ exiting \in BOOLEAN /\ isTimeOut \in BOOLEAN
  /\ data \in Seq(Packets) /\ m_buf \in Seq(Packets) /\ tmp \in Seq(Packets)
  /\ m_serial_cnt \in Nat
  /\ lag \in (1 - m_rotate_cycle)..MaxLag
  /\ wallTurn \in BOOLEAN /\ newSecond \in BOOLEAN /\ overtaken \in BOOLEAN
  /\ files \in Seq([serial : Nat, lines : Seq(Packets)])
  /\ archive \subseteq Packets /\ lost \subseteq Packets

\* Each packet in S was pushed before each packet of the same thread in T.
Below(S, T) == \A r \in S, q \in T : r[1] = q[1] => r[2] < q[2]
Sorted(lines) == \A x, y \in DOMAIN lines : x < y => Below({lines[x]}, {lines[y]})

\* From the ring through the batch, the buffer and the files, the packets of
\* one thread stay in the order it pushed them and none appears twice, whatever
\* rotations, overwritten names and disk errors come in between.
InOrder ==
  \A k \in DOMAIN Segments :
    /\ Sorted(Segments[k])
    /\ Below(archive, ToSet(Segments[k]))
    /\ \A n \in DOMAIN Segments : k < n => Below(ToSet(Segments[k]), ToSet(Segments[n]))

\* A packet is lost in no other way than those the code accepts: refused by a
\* full ring, in a file that was overwritten, or dropped by a disk error.  Every
\* other packet is in the ring, in memory or in a file.
Accounted ==
  /\ Held \union lost = {r \in Packets : r[2] <= pushed[r[1]]}
  /\ Held \intersect lost = {}

\* A file never holds more than one line over m_rotate_size.
FileSize ==
  /\ Len(m_buf) <= m_rotate_size + 1
  /\ \A k \in DOMAIN files : Len(files[k].lines) <= m_rotate_size + 1

\* A file is overwritten only after the wall clock has overtaken a timed out
\* pass: entered a new second between the monotonic tick that made the pass due
\* and getFileGenTime.  The next pass may then find the same second.  Up to that
\* moment m_roate_cnt, m_serial_cnt and m_fileGenTime give every file a name of
\* its own, and while the disk works and the ring is under half full no packet
\* is lost.  Nothing in the code keeps the pass ahead of the wall clock.
NothingLost == lost # {} => overtaken

\* A packet in the ring reaches a file, or is lost to a disk error, within
\* finitely many passes, also when traffic is too low to fill a file.
AcceptedIsWritten ==
  \A r \in Packets :
    r \in ToSet(queue) ~> \/ r \in Written \union lost
                         \/ StopRunning \/ SkipOutput \/ pc = "crashed"

\* Once StopRunning is set every thread but the one reading the terminal ends.
StopEnds ==
  StopRunning ~> \/ pc \in {"joined", "exited"} /\ \A p \in PacketThreads : packet_pc[p] = "joined"
                 \/ exiting \/ pc = "crashed"

\* The comment at src/logger.cpp:254-256, in checkRotate: a pass that is neither
\* timed out nor over the threshold does "return 0".
IdlePassReturns == pc # "crashed"
====
