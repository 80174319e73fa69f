# A TLA+ development of the `restore` packet logger

`logger_test` reads a capture file, deals its packets out to capture threads,
pushes them through a lock-free ring to a logger thread, and writes rotated
log files, plain or compressed; a command line with history and completion
controls it. This directory holds TLA+ models of the ring, the logging pipeline,
the gzip path, the line editor, the capture reader, the older ring and the
readers-writer lock, TLC configurations that check them on small instances, and
TLAPS proofs about all of them for every size, any number of threads, any keys and
any crash: every invariant, action property and refinement that a passing run checks
is also a theorem, and only liveness is left to TLC alone.

## 1. Inventory of the system

| component | source | state | operations | who uses it |
|---|---|---|---|---|
| BuffRing | `buffer_ring.h` (C twin: `buffer_ring_c.h`) | `prod_.head/tail`, `cons_.head/tail`, `data_`, mode flags | `DoEnqueue`, `DoDequeue`, `RingCount`, `RingFreeCount` | capture threads (producers), logger thread (consumer) |
| BasicBusinessLogger | `logger.h`, `logger.cpp` | the ring, `m_buf`, `m_serial_cnt`, `m_roate_cnt`, `m_start_time`, `m_fileGenTime`, the files | `init`, `push_back`, `checkRotate`, `outputFile`, destructor | `gLogger` in `logger_test.cpp` |
| program threads | `logger_test.cpp`, `thread.h` | `StopRunning`, `SkipOutput`, joins | `PacketGet`, `LoggerWrite`, `CmdLineProcess`, `signal_handler`, `main` | - |
| GzipHelper | `gziphelper.*`, `gzip_test.cc` | zlib stream, output buffer, `m_size` | init, update, finish, reset, `isFull`, dump | logger when `is_gzip` |
| RingBuff | `ring_buffer.h`, `rb_test.cc` | `wd_index_`, `rd_index_`, `data_` | `Put`, `GetHalf`, `GetAll` | `rb_test.cc` only |
| RwLock | `rwlock.h` | `cnt` | read/write lock, try, unlock | disabled by `#if` in `logger.h` |
| CmdLine | `access_cmdline.*` | history, `curr`, `cmd`, `cmd_buffer`, `m_index` | `readLine`, `compareHints`, history file | command thread |
| PcapReader, FileReader | `pcap.*`, `file_reader.*`, `packet.h`, `endian.h`, `port_posix.h` | per-group packet vectors | `ReadPcapFile`, `ParsePacket` | main, before threads start |
| Rte | `rte.*` | settings | constructor reads `.config` | all |
| Util, ClockTime | `util.*`, `clock_time.h`, `define.h`, `atomic.h` | none, a timer | string helpers, durations, builtins | all |

How they interact: `main` reads settings and packets, creates the logger and
starts the threads. Capture threads call `push_back`, which enqueues one packet
and ignores a full ring. The logger thread calls `checkRotate` in a loop; it
dequeues when the rotation period is over or the ring is at least half full,
appends lines to `m_buf`, and writes a file when the buffer is over
`m_rotate_size` or when a timed-out pass has written none. The command thread
or SIGINT sets `StopRunning`; `main` joins the command thread, then the others,
and at exit the destructor of `gLogger` runs `checkRotate` once more.

What is hard, and what makes each part correct:

- BuffRing: loads of two indices at different moments, a compare-and-swap that
  may lose, copies that are not atomic, tails published in claim order, indices
  that wrap. Correct when no slot is held twice, no claim leaves a gap, a full
  or empty answer is real, and the whole is a bounded FIFO of batches.
- Logger: several places a packet passes through, two clocks, file names with
  the resolution of a second, disk errors step by step, uninitialised locals in
  an idle pass. Correct when packets stay in order, appear once, and are lost
  only in ways the code accepts.
- Threads: flags polled at different places; a thread blocked on the terminal.
  Correct when a stop ends every other thread.
- GzipHelper: a stream life cycle whose failing steps nobody looks at, a buffer
  limit kept only by a reserve, a temporary file that survives a crash. Correct
  when lines are whole and in order, a published file is a whole stream, and no
  deflate state is lost.
- RingBuff: check-then-act on a counter, index visible before the data, indices
  compared as they are, a copy that may run past the end of the slots. Its overruns
  are bounded and its wrong reads have four known causes.
- RwLock: exclusion from one counter; starvation of writers. Correct when it is
  the abstract lock and the counter always is the holders.
- CmdLine: an iterator into a growing vector, an index into an edited string, a
  terminal that is never read back, a history file that is truncated before it
  is rewritten. Correct when the row shows the line, completion takes exactly what
  its matches share, and the history survives a session.
- PcapReader: a walk over a buffer with no look at its end, a capture that may
  still be growing, threads that share groups by a remainder. Correct when every
  whole packet is kept once, in order, and a flow stays with one thread.

`PROJECT.json` lists every hazard at its line with the properties that cover it.

## 2. Modules

| module | what it is | source |
|---|---|---|
| `RingQueue` | abstract specification: a bounded FIFO of batches with reserve, publish, take, release | promise of `buffer_ring.h` |
| `BuffRing` | the ring at the grain of shared-memory accesses | `buffer_ring.h` |
| `MCBuffRing` | values for TLC | - |
| `BuffRingProofs` | the index protocol of `BuffRing`, what its calls report, and that it implements `RingQueue`, proved | - |
| `Logger` | packets from `push_back` to files, with threads, clocks, disk and exit; its ring is an instance of `RingQueue` | `logger.cpp`, `logger_test.cpp` |
| `MCLogger` | symmetry for TLC | - |
| `LoggerProofs` | order, accounting, names and sizes along the pipeline, proved | - |
| `GzipHelper` | the stream life cycle as operators over zlib, which is external | `gziphelper.cpp` |
| `GzipLogger` | composes it with the gzip branches of the logger thread, a crash and a restart | `logger.cpp`, `gziphelper.cpp` |
| `GzipLoggerProofs` | lines, files and deflate states of the gzip path, proved | - |
| `CmdLine`, `MCCmdLine` | line editor, terminal row, history file over sessions; values for TLC | `access_cmdline.cpp` |
| `CmdLineProofs` | the row, the history and completion, proved | - |
| `PcapReader`, `MCPcapReader` | from the capture file to the vector each packet thread copies; captures for TLC | `pcap.cc`, `file_reader.cpp`, `logger_test.cpp` |
| `PcapReaderProofs` | which packets are kept and where each goes, proved | - |
| `RingBuff` | the older ring at the grain of loads, adds and element copies | `ring_buffer.h` |
| `ReadersWriters` | abstract specification: many readers or one writer | promise of `rwlock.h` |
| `RwLock` | the lock at the grain of loads and compare-and-swaps | `rwlock.h` |
| `RingBuffProofs`, `RwLockProofs` | theorems and proofs about the two | - |
| `CommonLemmas` | division, powers of two, parts of sequences, induction up to a number and `FlattenSeq`, for the proofs | - |

### BuffRing against the code

Each thread is inside one call at a time. `pc` names its next access to shared
memory, the other per-thread variables are its arguments and locals:

| action | code |
|---|---|
| `LoadProdHead`, `LoadConsHead` | first load of the loop in `MoveProdHead`, `MoveConsumerHead` |
| `BoundProducer`, `BoundConsumer` | load of the opposite tail, comparison, clipping, return of 0 |
| `MoveProdHead`, `RetryProdHead` (and consumer twins) | the store or CAS, and its failure |
| `EnqueueCopy`, `DequeueCopy` | one element of the copy macros |
| `UpdateProdTail`, `UpdateConsTail` | end of the wait in `UpdateTail` and its store |
| `RingCountProdTail`, `RingCountConsTail` | the two loads of `RingCount` |
| `Return` | return to the caller; locals are reset, as they are dead |

Steps interleave in program order. That is what the build produces: CMake sets
no optimisation level, and x86 keeps loads, and stores, in order among
themselves. The head and tail fields are not volatile (the keyword is commented
out), so an optimising build would need its own argument.

`Modulus` stands for 2^32. `NoLap` in the two claiming actions is a scheduling
bound: while a thread is between its load of a head and its CAS, the others of
its side claim at most `MaxLag` elements, so the head cannot come round to the
loaded value. With 32-bit indices this excludes four billion elements during
one preemption. It is a named constant with a named assumption; in the code
nothing enforces it.

### Logger against the code

A packet is the pair of its thread and its number in that thread's sequence of
pushes. Lines of a file are the packets they describe. `push_back` is the two
steps of `RingQueue` (claim, publish) or `PushFull` when there is no room, which
is the only reason for a refusal (`NoSpuriousFull`, proved for `BuffRing`).
`checkRotate` is the chain `CheckTimeOut`, `CheckFree` or `Uninitialised`,
`Dequeue`, `Release`, `Dequeued`, `NameFiles`, then per packet `MakeCsvLog` with
`OpenTmp`, `WriteTmp`, `RenameTmp` (or a failing twin) when a file is due, then
`PassEnd`. The same chain runs in `main` for the destructor (`Destroy`).

Data abstracted:

- `lag` is `uptime - m_start_time - m_roate_cnt * m_rotate_cycle`: the code
  compares only this difference with 0. It stops growing at `MaxLag`.
- `newSecond` says whether the wall clock shows another second than
  `m_fileGenTime`. Files of earlier seconds cannot be touched again; the set of
  their lines is `archive`. Files of the current name second are in `files`, a
  sequence of serials and lines in the order they were written.
- The two clocks tick once a second each, at different instants: in turns.
- `lost` is a history variable: packets that no file will hold.
- `overtaken` is a history variable: the wall clock has changed while a timed-out pass
  was due, or ran and had not named its files (`Unnamed`).
- A short write leaves any number of the first lines; a line that is cut in the middle
  counts as not written.

The uninitialised locals of an idle pass have the outcomes the build can
produce: the stack holds 0 and NULL and the pass is harmless, or it holds
something else, and reading packets from there or deleting it ends the process. No
earlier pass is needed for that: the first idle pass may do it.

Nothing in the code keeps a pass ahead of the wall clock: `LoggerWrite` sleeps for a
microsecond and reads two clocks that tick at different instants. When pass `k` runs after
the wall tick, and pass `k + 1` right after the next monotonic tick and still in that
second, both name their first file after the same second with serial 0, and the second
takes the place of the first, even when it is empty. The model has these schedules;
`NothingLost` says that with a disk that works and a ring under half full they are the
only way to lose a packet.

### GzipHelper and GzipLogger against the code

`GzipHelper` has one operator per method; its state is what the object and zlib hold:
whether `m_stream` has a deflate state, states nothing points to any more, units taken in
and not yet put out, and `m_data`. A unit of output is named after the line it encodes.
What `deflate` does is external: it takes in what its own buffer (`kPending`) and the room
left allow, and answers Z_OK even when that is part of a line. A `deflateInit2` that fails
in `compressReset` has left the old state in place or has put it out of reach.

`GzipLogger` is `checkRotate` with `is_gzip`: `CheckRotate`, then per line `Each`,
or `Finish`, `Dump`, `Reset`, `Rename`, `WriteAfter` (the four calls of
`outputFile`, then the line that found the stream full), then `PassEnd`.
`StartUp` is `init`, `Clear` is `clear()`. `Crash` may come between any two steps
and leaves the files; the next start finds the old `.tmptmp`. What feeds the
logger is in `Logger`, and here a pass brings any few lines.

### CmdLine against the code

`readLine` is a loop over keys and each key is one action, with every call it
makes on the terminal: `Insert`, `Backspace`, `EnterCommand`, `EnterBlank`, `Tab`,
`Up`, `Down`, `LeftArrow`, `RightArrow`, `OtherEscape`, `OtherKey`. `Completed` is the
loop of `compareHints` over positions: it ends at `len_min`, where a match differs
from the first (`Agree`), or at the terminator of a string (`NUL`). `Start` is the
constructor with `init` and `readHistory`; `Quit` the destructor with
`writeBackHistory`, which may be cut short; `Kill` a death without it. The
terminal is one row, wide enough for any line the bounds allow, and a cursor: what is shown
is shown of a line that fits in a row of the real terminal, where a longer one wraps and `\b` does
not go back over the edge. `clearLine` and `Redraw` are translated by the backspaces and
blanks they send. `curr` is the 0-based position of the iterator.
Lines are sequences of characters because the properties are about prefixes,
blanks and positions. Line and history lengths are bounded by `MaxLine` and
`MaxHistory`, and a save is cut short only while those before it were whole; what a
cut would do to any reachable history is in `HistorySurvives`. The history file is only
written by the program itself. `kKept` and `kBuf`
stand for 502 and 1024.

### PcapReader against the code

A file is a sequence of cells: a file header, and per packet a record header
(whose value is the length in cells) and the parts `ParsePacket` takes fields
from. Any cell may be read as any field. `Stat` and `Create` are the two steps of
`FileReader`: the buffer has the size found by the first, what is in it comes
from one `read` whose answer is not looked at; `Capture` lets the capturing
program write in between. `ReadHeader`, `ReadPacket`, `ReadDone` are the loop of
`ReadPcapFile`; `Get` is the copy each packet thread makes. Cells nobody wrote,
or behind the buffer, have any values of `kHeap` (two of them, in turns).
`kGroupBits` stands for the 8 bits of the constructor's argument.

### RingBuff and RwLock against the code

`Put` is `PutLoad`, `PutTest`, `PutIndex` (the atomic add), `PutCopy`, `PutDone`
(the element while it is written is `Torn`); the reader is `GetHalf` or `GetAll`,
then `Copy` per element, then `Advance`. The index is masked once and the copy goes on from
there (`Position`); past the end of `data_` it is `CopyOutside`, which copies whatever is there or
ends the process. `late`, `early` and `halves` are history
variables the properties use to say when and why. Compiled code may load the two
indices of the test in either order: the other order uses an older `rd_index_`,
which only refuses more.

A round of a lock loop is `Load` (with the test) and `ReadCAS` or `WriteCAS`;
`Unlock` is one atomic add; `Refused` is the return of a failed trylock.

## 3. Runs

| run | question | instance | result |
|---|---|---|---|
| `ring_mpsc` | is the ring as the logger uses it a bounded FIFO, with exclusive slots, real full answers and a safe `RingCount`; does every claim complete, and does the only consumer always return? | 2 producers with batches of 2, 1 consumer taking up to 2, VARIABLE, 4 slots, indices modulo 8, fair threads | holds |
| `ring_mpmc` | slots, empty answers, the reported count and the refinement with both sides contended | 2 producers with batches of 2, 2 consumers taking 1 or asking for 5, FIXED | holds |
| `ring_entries` | is `entries` always below the ring size, as a comment says? | 1 producer, 2 consumers | violated: see findings |
| `logger_core` | order, no duplicates, accounting of every packet, file size, through rotations, late passes, disk errors and exit | 2 packet threads with 2 packets each, threshold 2 (ring of 3), files of 2 lines | holds |
| `logger_names` | when do two files get one name, so that packets are lost? | 2 threads with 2 passes of 1 packet, threshold 8, one line per file, no disk error, every schedule of passes against the clocks | holds: only after the wall clock overtook a timed-out pass |
| `logger_live` | does what is in the ring reach a file, and does a stop end the threads? | 1 thread, 3 packets, fair threads and clocks | holds |
| `logger_idle` | does an idle pass just return, as a comment says? | 2 threads, 1 packet each | violated: see findings |
| `gzip` | are compressed lines whole and in order, are published files whole streams across a crash, is a stream lost only by `clear()`? | 4 lines of 2 units, a stream of 3 units and a reserve of 4, 2 seconds, 1 crash, 1 clear, failing disk and memory | holds |
| `cmdline` | does the row show the line, does the history survive, does completion take exactly what its matches share? | lines of 2 typed characters, 3 entries, 2 kept, hints up to 5 characters | holds |
| `pcap` | is every whole packet kept once, in order, unchanged, and does a flow stay with one thread? | 6 captures cut at every cell, 0 to 5 threads with a 2-bit group count, failing reads | holds |
| `ring_buff` | how far can the older ring be overrun, why may a read be wrong, when does it stop taking elements? | 2 producers, size 3 rounded to 4, 4-bit indices | holds |
| `rwlock` | is the counter the holders, is the lock the abstract one, does it make progress? | 3 threads, fair | holds |

Why the bounds are enough: in the ring, indices modulo 8 over 4 slots make both the index
and the slot wrap, 3 usable slots with batches of 2 make claims that fit, that are clipped
(VARIABLE) or refused (FIXED), that wrap in the copy, and two claims in flight per side;
`MaxLag` 3 in `ring_mpmc` lets a loaded head become stale by a whole capacity (2 in
`ring_mpsc`, by the other producer's batch). In the logger, a ring of 3 fills up, a batch
of 2 after a buffer of 2 gives outputs in the middle of a pass, a lag of 2 gives late
passes that catch up in one second and overwrite a file; 4 packets give every order of two
threads. The threshold of 8 in `logger_names` keeps the ring under half full, so that only
timed-out passes write; with a lower one, size rotations in the second of a timed-out pass
overwrite its file and `NothingLost` fails. A lag of 2 has passes that the wall clock
overtakes, and without `overtaken` in `NothingLost` TLC shows the two passes of section 2
writing one name.

In `gzip`, a line of 2 units against a reserve of 4 units, 2 of which zlib may hold
back, fills the reserve to the last unit that still fits, so a test a little
later tears a line; two seconds and the serial make names that clash and names
that do not. In `cmdline`, 2 kept of 3 entries drop one, a 4-byte buffer for
`fgets` splits a completed line, hints with a blank and without set
`have_space`, the two hints with blanks share one character more than is typed and then differ,
and the completed line is longer than any typed one. In `pcap` the
captures have options, other protocols, packets cut short, an empty packet and an
empty file; a file may end inside any record; 4 threads make the group count 0
and 5 make it 1. In `ring_buff` a 4-bit index is four laps of the ring, so a late
producer can be laps behind and the wrap is reached; two producers are enough
for the test and the add to race. In `rwlock` three threads are two readers and a
writer in every order.

Deadlock is checked in the runs of `BuffRing`, `RwLock`, `CmdLine` and
`GzipLogger`. In those of `Logger`, in `pcap` and in `ring_buff` it is not: the program ends, dies
(in `ring_buff` in a `memcpy` past the end), or has read its input.

Fairness. `ring_mpsc`: weak fairness of each thread inside a call, as an
operating system gives it; no thread is obliged to start a call. `logger_live`:
weak fairness of the clocks, of the logger thread and of each packet thread;
none for the user, so `StopEnds` speaks of the workers and not of the command
thread that waits for a key. A process that dies in an idle pass is an
alternative in both properties. `rwlock`: weak fairness of each thread inside a
call or with the lock held, as `logger.cpp` gives the lock back at the end of the
same block; none to start a call. It does not give a writer the lock while
readers overlap, and `LockProgress` does not say so.

Each property of a passing run has a mutant in `PROJECT.json`: an operator,
defined just before the one it replaces, that changes it as a plausible bug
would, with which TLC finds the property violated. Operators introduced by a
comment "Mutant of" are used nowhere else.

### Findings

- `ring_entries` (`buffer_ring_c.h:207`): with two consumers, `entries` can be
  the full ring size before the CAS fails; the comment at line 203 is too
  strong. No wrong dequeue follows, as `IndexInv` shows.
- `logger_idle` (`logger.cpp:274`): a pass that is neither timed out nor over
  the threshold uses `how_much` and `data` unassigned. The early return it had
  is still in the comment at lines 254-256.

Facts the models show without a comment they contradict: files of one second overwrite
each other when two passes write in it (`lost` in `logger_core`, `overtaken` in
`logger_names`), and packets in the ring or the buffer at exit are not written unless the
destructor's pass happens to be timed out (`Accounted` counts them as held where they
are). In the others:

- `CmdLine`: with a history file that exists and is empty (a save cut short at
  once leaves one) the first Enter with a command reads below a null pointer;
  a missing file does not, as it puts `help` in the history. A line of 1023 bytes or more
  comes back from the file as several entries. Hints after the first one with a
  blank are hidden from a command without one.
- `GzipHelper`: `clear()` puts a new deflate state over the old one; it has no
  caller. After a crash the file published under the name of an old `.tmptmp`
  may have the old one's tail behind its stream, as `open` has no O_TRUNC.
- `RingBuff`: each producer but one may overrun a full ring by one element.
  Close to 2^32 every `Put` is refused although there is room, and `GetHalf` succeeds on
  an empty ring. `GetAll` copies `size_` elements whatever is in the ring, past the
  end of `data_` when the reader is not at its start, moves `rd_index_` to a
  value it reads after the copy, and may report more than the `size_` elements it copied. After it
  `rd_index_` need not be a multiple of `half_size`, and then `GetHalf` copies past the
  end too.
- `PcapReader`: at the end of a whole file one more record is read behind the
  buffer and may be kept as a packet; `len` is never looked at; a multiple of 256
  packet threads ends the process with a remainder by 0.

## 4. Proofs

Every theorem is for all values of the constants that the named ASSUMEs allow;
TLC evaluates those on each run. The last column names the property a run
checks on a small instance.

| module | theorem | what it states | property |
|---|---|---|---|
| `BuffRingProofs` | `TypeCorrect` | types | `TypeOK` |
| | `IndexProtocol` | order of the indices, claims in bounds, apart, without gaps | `IndexInv` |
| | `SlotsNeverShared` | no two calls hold one slot | `SlotExclusive` |
| | `FullIsReal`, `EmptyIsReal` | an answer of 0 is true when it is given | `NoSpuriousFull`, `NoSpuriousEmpty` |
| | `ReportsAreSlots` | the remaining counts reported are numbers of slots | `ReportInRange` |
| | `CountsAreElements` | `RingCount` promises its only consumer nothing it cannot take | `CountIsLowerBound` |
| | `RingImplements` | the ring is a bounded FIFO of batches | `RefinesRingQueue` |
| `LoggerProofs` | `Types` | types; the room of the ring is at most its capacity | `TypeOK` |
| | `FilesAreBounded` | a file is at most one line over `m_rotate_size` | `FileSize` |
| | `PacketsInOrder` | each thread's packets stay in order and are not duplicated | `InOrder` |
| | `PacketsAccounted` | each packet is in one place, or lost in a way the code accepts | `Accounted` |
| | `LossNeedsLatePass` | with a disk that works and a ring under half full no packet is lost until the wall clock overtakes a timed-out pass | `NothingLost` |
| `GzipLoggerProofs` | `Types` | types; `m_data` keeps within its capacity | `TypeOK` |
| | `OnlyClearLoses` | only `clear()` loses a deflate state | `OnlyClearLeaks` |
| | `LinesStayWhole` | `deflate` never drops part of a line | `NoTornLine` |
| | `PublishedAreWhole` | no cut stream is published, whenever the process dies | `PublishedWhole` |
| | `LinesInOrder` | without fault, files and stream are every line produced, in order | `InOrder` |
| `CmdLineProofs` | `Types` | types; `m_index` is in the line, `curr` in the history | `TypeOK` |
| | `TerminalIsTrue` | the terminal shows the line and the cursor, for a line that fits in its row | `ScreenShowsLine` |
| | `CrashOnlyAfterTornSave` | the read below an empty history follows a save cut short | `CrashNeedsTornSave` |
| | `CompletionIsCommon` | the loop of `compareHints` adds what all matches share, and no less | `CompletionKeepsMatches` |
| | `SavedHistorySurvives` | the newest entries come back in order, wherever a save was cut | `HistorySurvives` |
| `PcapReaderProofs` | `Types` | types; a packet starts within the file | `TypeOK` |
| | `FlowsToOneThread` | a flow stays with one thread, each packet has one | `FlowsStayTogether` |
| | `CaptureInGroups` | every whole packet is kept, in order, and at most one stray one | `GroupsHoldCapture` |
| `RingBuffProofs` | `Types` | types; copies stay within what the reader asked for | `TypeOK` |
| | `OverrunIsCrowd` | all producers but one may overrun by one element | `OverrunBound` |
| | `ReadsAreExplained` | a wrong read has one of four causes | `ReadExplained` |
| | `IndexNeverWraps` | read by halves, `wd_index_` does not wrap | `NeverWraps` |
| | `RoundupIsRight` | the constructor's rounding is the least power of two | `RoundupIsLeast` |
| `RwLockProofs` | `CounterIsHolders` | the counter is the readers, or -1 for one writer | `CounterInv` |
| | `LockImplements` | the lock is the abstract readers-writer lock | `RefinesReadersWriters` |

### Assumptions

- `BuffRing`: the size divides the modulus, single-thread flags tell the truth,
  batches are not empty, the sides share no thread, and `MaxLag` is below the
  modulus minus the capacity (the `NoLap` bound of section 2).
- `Logger`: finitely many packet threads, a positive threshold, period and pass; `MaxLag`
  positive. `LossNeedsLatePass` also assumes `~DiskFails` and that the ring always has
  more free places than `kVectorThreshold`, which is when `checkRotate` leaves it alone;
  `logger_names` has only such behaviours. It assumes nothing of the clocks: that no wall
  tick came too early is in `NothingLost`.
- `GzipLogger`: sizes and bounds are numbers, a line has at least one unit. The last
  three theorems assume `ReserveIsEnough`: a line and what zlib holds back are together
  less than `kSafeThreshold` and the window of `isFull`, and a line fits an empty buffer.
  The code keeps 8 MB for lines of less than 1 KB; what zlib holds back is bounded by
  its own buffers, far less than 1 MB. Without it `compressUpdate` does tear lines, as
  the mutant of `isFull` shows.
- `CmdLine`: a blank is a character and neither the mark of a missing file nor the
  terminator of a string is one; `help` is a line that does not end in a blank; `fgets`
  reads at least one byte and a file keeps at least one line. Hints are any lines.
- `PcapReader`: a packet is a sequence of numbers; what memory holds is open, and so is
  `^`, of which `CaptureInGroups` assumes that two numbers give a number (`XorOnNumbers`):
  otherwise the remainder that names the group means nothing. TLC cannot evaluate that
  over all numbers, so it is a hypothesis of the theorem and not an ASSUME of the module.
- `RingBuff`: at least one producer, and finitely many; a size the constructor can
  double twice within the index. `IndexNeverWraps` assumes at most `half_size`
  producers: with more, a crowd past the test could carry the index over the wrap.
- `RwLock`: finitely many threads.

### The argument for BuffRing

All positions are distances from `cons_tail` modulo `Modulus` (`Used`), which
turns the circular order into an order on 0..capacity. The inductive invariant
is `TypeOK /\ IndexInv`, where `IndexInv` is the conjunction of: `IndexOrder` (the
four indices in order, at most a capacity apart), `ClaimBounds`, `ClaimsApart`,
`ClaimsTile` (claims of a side do not overlap and cover from its tail to its
head), `PendingBounds` (what a thread knows between its load and its CAS) and
`CopyBounds`. `SlotExclusive` alone is not inductive: that a new claim misses the
others follows only from their tiling the occupied part, and that a CAS which
succeeds is justified by tails loaded earlier follows only from `PendingBounds`.
There is one lemma for steps that touch only one thread's locals, one for each
of the four steps that move an index; the arithmetic is in a few lemmas on `Add`
and `Sub` that cite Euclidean division once. From the invariant,
`SlotsNeverShared` maps distances below the size to distinct slots, and the two
answers theorems show that a head stale by at most `MaxLag` can only make the
difference look larger, never smaller.

The second half of `BuffRingProofs` adds three conjuncts. `Contents`: a claimed slot holds
what its producer has copied so far, and a consumer's array what its slots hold.
`Reports`: what a thread computed from a head stale by `Lag` is off by at most `Lag`, and
a claim that succeeded was not stale. `Counts`: between the two loads of the only consumer
`prod_tail` moves only forward. The refinement maps the four steps that move an index to
reserve, publish, take and release, and every other step to a stutter; the copies are
stutters because a slot that is being written is not yet published and one that is being
read is no longer in the queue.

### The argument for Logger

- `RingInv`: free places, queued elements, a batch on its way out and reservations
  in flight add up to the capacity, and a batch is on its way only at the program
  counters between `DoDequeue` and the loop. `TypeOK` follows.
- `SizeInv`: with `FileSize`, the temporary file holds `m_buf`, or, after a short write,
  the first of its lines.
- `HistoryInv`: let `Flow` be everything not yet in a file, oldest first: `m_buf`, the
  batch, the dequeued elements, the queue. `OrderInv` says that `Flow` is sorted, that
  what is written is below it, and that files written one after another hold lines
  pushed one after another. `InOrder`, which sorts files by name, is not inductive: a
  file that overwrites another takes its name but not its age. `AccountInv` says that
  what is written, in flow or lost is exactly what was pushed, and that the lost is
  apart; each step either moves lines along `Flow` or drops some into `lost`.
- `CalmInv`, for `LossNeedsLatePass`: only timed-out passes write; while no wall tick has
  overtaken one, the wall clock enters a new second after one and before another times
  out; so every pass that writes starts with no file of its own second, and serials do
  the rest.

### The argument for GzipLogger

`Run(a, b)` is the text of the lines after `a` up to `b`; lemmas say that it is whole
lines, holds each of them, and grows by one line at its end. Each invariant needs the
ones before it.

- `ControlInv`: which program counters have no deflate state; `OnlyClearLoses` follows.
- `StreamInv`: `m_data` and what zlib holds back are a `Run` (`StreamIs`), with the trailer
  between `compressFinish` and `compressReset`; and they leave room for the next line
  and the trailer (`RoomInv`). `NoTornLine` alone is not inductive: that the whole line
  is taken depends on `isFull` having been asked with room for what zlib holds back,
  and that the one line written without asking goes to an empty buffer.
- `WholeInv`: while the calls work there is always a state to finish, every file begins
  with a stream, and without a crash a tmp is there only between `dumpCompressFile` and
  `rename`. This is what makes writing without O_TRUNC harmless: over an old
  tmp the new stream may be the shorter one, but its trailer comes first.
- `OrderInv`: some line `b` divides what was produced: the files hold `1..b` in order, the
  stream (or the tmp, between `compressReset` and `rename`) the rest. Rename moves `b`.

### The argument for CmdLine

`LineInv` has three parts.

- `EditInv`: `m_index` is in the line, and `RowOK`: the terminal's cursor is not right of
  `m_index`, and no more of the row is filled right of it than the line has right of
  `m_index`. `ScreenShowsLine` is not inductive: after a key that prints
  `len =` the row shows nothing of the line, and yet the next redraw must leave nothing
  behind. `RowOK` holds then too, and is all that `clearLine` needs to blank the row; a
  redraw makes the row true again (`Shows`).
- `ListInv`: no entry ends in a blank, and `curr` is an iterator of the history.
  It is why each entry comes back from the file as it was: `fgets` gives it with its
  newline, and the trimming of `readHistory` takes off that and nothing else.
- `DiskInv`: the file is lines of characters and newlines, or missing.

`SaveInv` adds that while every save was whole the file has a line and a session an entry,
which is `CrashNeedsTornSave`. `HistorySurvives` is a statement about
`readHistory(FileOf(history))`, that is about `FlattenSeq` over pieces of lines; with
lines shorter than the buffer each line is one piece, and `FlattenSingles` says that
flattening sequences of one element gives the elements. For `CompletionKeepsMatches`,
`LoopEnds` says where the loop of `compareHints` stops: every position before its end is
in every match and the same in all of them, and at its end a match differs or is over.
`CompletedIs` turns the two halves into "a prefix of each match" and "no longer one is".

What `FlattenSeq` computes is an induction over data. The induction theorems of the library
take an operator, which no installed prover can instantiate; `LeastNat` and `UpTo` in
`CommonLemmas` do the same by the least counterexample of a set, from the well-foundedness
of finite sets under strict inclusion. With them `FlattenDef` shows that the recursive
function in the definition of `FlattenSeq` exists, and the lemmas after it what it gives.

### The argument for PcapReader

- Each packet is in the group of its hash, threads copy when the reader has finished, and
  `Hash4Tuple` is a function of the flow: that is `FlowsStayTogether`.
- `Layout` says of the file of a capture where its records are (`Place`), that they
  follow each other, and that the file holds each at its place; `FileOfAppend` and `UpTo` carry
  it from one packet to the next.
- `FileInv`: file and buffer are beginnings of that file, whenever it was opened.
- `WalkInv`: while `offset` is in the buffer it is the place of a record (`WalkPlace`); what is
  kept are the whole packets before `offset` (`WalkRight`), nothing at or behind it
  (`WalkBehind`), and in order. `GroupsHoldCapture` speaks of the end of the walk only. That at
  most one packet is stray follows because the round that reads a record which is not
  whole is the last: it leaves the buffer (`NextPlace`, `OneStray`).

### The arguments for the others

- `RingBuff`: `Before` bounds, for every index, the crowd of producers that may still
  pass it (those between their test and their add); its claim for the index one lap
  ahead of the reader is `OverrunBound`. `DataInv` says of each element of the last lap
  that it is there, or is being copied over, or was stored late. `HalfInside`: a reader that
  stands at a multiple of `half_size` does not leave `data_` in a `GetHalf`. `HalvesInv` applies
  the crowd bound at the last half before the wrap: `rd_index_ + size_` is a multiple
  of `half_size`, so the test refuses everyone once that half is reached.
- `RwLock`: `CounterInv` with its two added conjuncts, `Exclusion` (at most one writer,
  and then no reader) and `LoadedFree` (a thread at its CAS has loaded a count that lets
  it in). The refinement maps a CAS that succeeds to an acquire.

### What the proofs changed in the models

- `CounterInv` was not inductive: a counter of -1 says nothing of a second writer.
  `Exclusion` had to be part of it.
- In `RwLock` and `PcapReader` a CASE had guards that overlap, so its value was left open
  where two hold. They are a nested IF and disjoint disjuncts now, as in the code.
- `ReportInRange` was stated for every call. A request for more than the capacity that is
  refused after a stale load may report more free places than the ring has; the
  theorem covers calls that got something or asked for no more than the capacity, and
  `ring_mpmc` now has consumers that ask for 5 elements of a ring of 3.
- The text properties of `GzipLogger` filtered units out of files and flattened lists of
  them. They look at what is in front of the trailer (`TextOf`), and `InOrder` compares
  the texts line by line: the same claims, without an operator that counts elements.
- `Torn` in `CmdLine` was a UNION and a set joined without parentheses, which TLC and the
  proof system read differently. It is parenthesised as TLC read it.
- `CmdLine` had no assumption that its mark of a missing file is not a file and that `help`
  survives trimming, and `PcapReader` assumed that captures encode to numbers where it
  means that their packets are numbers. The assumptions are named now.
- `archive` in `Logger` was a sequence of whole files, whose lines only a fold could
  name. It is the set of their lines, as no property looks at more.

### What is only model-checked

- Liveness (`AcceptedIsWritten`, `StopEnds`, `LockProgress` and the progress of the ring),
  out of reach of the installed provers, as is ENABLED.
- The two properties of the findings, which a run shows violated.

## 5. Not modelled

- `buffer_ring_c.h`, beyond the one function of the finding: the C twin has the
  ring of `buffer_ring.h` with the mode chosen per call, and no caller and no
  init function in the repository. A model would have to invent how it is used.
- The VECTOR_TEST build of the logger (`logger.h` defines it as 0), the USE_MMAP
  branch of `FileReader`.
- `Rte` (reading `.config` once), `Util` (string and path helpers without state of
  their own, taken as the operators that use them), `ClockTime`: sequential, no
  hazard a unit test would miss. Their effect on the modelled parts is in the
  constants: `packet_core_num` in `PcapReader`, the rotation period in `Logger`.
- Packet header layouts and byte order, the text of a log line, thread affinity,
  the texts printed. `PcapReader` covers the ports of packets as `ParsePacket` reads
  them; IP fragments, whose payload is read as ports, are not told apart.
- `logger_core_num` above 1, which breaks the promise of a single consumer.

## 6. What is left

The models and the proofs of section 4 are complete as planned. What could still be added:

- liveness by hand-made ranking arguments, if a prover for ENABLED is at hand;
- a model of `buffer_ring_c.h` when it gets a caller.
