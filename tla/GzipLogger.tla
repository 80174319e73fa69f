---- MODULE GzipLogger ----
(***************************************************************************)
(* The logger thread with kCompressGzip: checkRotate's loop over the lines *)
(* of a pass, outputFile's four calls (compressFinish, dumpCompressFile,   *)
(* compressReset, rename), and a process that dies between any two of them *)
(* and is started again in the same log directory.  What feeds the thread  *)
(* and when a pass is due is in Logger; here a pass brings any few lines.  *)
(***************************************************************************)
EXTENDS GzipHelper

CONSTANTS
  PassLines,     \* bound: lines of one pass
  MaxLines,      \* bound: lines in all
  MaxWall,       \* bound: seconds of the wall clock
  MaxCrashes,    \* bound: crashes
  MaxClears,     \* bound: states lost to clear()
  Faults         \* what may fail: a subset of {"disk", "memory"}

ASSUME BoundsAssumption ==
  /\ PassLines \in Nat /\ MaxLines \in Nat /\ MaxWall \in Nat
  /\ MaxCrashes \in Nat /\ MaxClears \in Nat
  /\ Faults \subseteq {"disk", "memory"}

VARIABLES
  pc,            \* "down", "idle", or where checkRotate is
  todo,          \* lines of the pass still to come
  isTimeOut, m_serial_cnt, m_fileGenTime,
  wall,          \* the second of the wall clock
  line,          \* the last line produced
  tmp,           \* the .tmptmp files: name to units
  published,     \* the files renamed into place, oldest first
  crashes,
  trouble        \* what went wrong so far

passVars == <<todo, isTimeOut, m_serial_cnt, m_fileGenTime>>
vars == <<gzipVars, pc, passVars, wall, line, tmp, published, crashes, trouble>>

name == <<m_fileGenTime, m_serial_cnt>>
Names == (0..MaxWall) \X (0..MaxLines)
NoFile == <<-1>>

\* A call that allocates or writes may fail, when Faults lets it.
Works(fault, ok) ==
  /\ ok \/ fault \in Faults
  /\ trouble' = IF ok THEN trouble ELSE trouble \union {fault}

Init ==
  /\ GzipInit
  /\ pc = "down" /\ todo = 0 /\ isTimeOut = FALSE /\ m_serial_cnt = 0 /\ m_fileGenTime = 0
  /\ wall = 0 /\ line = 0 /\ crashes = 0 /\ trouble = {}
  /\ tmp = [f \in Names |-> NoFile] /\ published = <<>>

\* BasicBusinessLogger::init with kCompressGzip.
StartUp ==
  /\ pc = "down" /\ pc' = "idle"
  /\ \E ok \in BOOLEAN : Works("memory", ok) /\ compressInit(ok)
  /\ UNCHANGED <<passVars, wall, line, tmp, published, crashes>>

\* The process dies; the files stay.
Crash ==
  /\ pc # "down" /\ crashes < MaxCrashes
  /\ pc' = "down" /\ crashes' = crashes + 1 /\ trouble' = trouble \union {"crash"}
  /\ m_stream' = FALSE /\ leaked' = 0 /\ held' = <<>> /\ m_data' = <<>>
  /\ todo' = 0 /\ isTimeOut' = FALSE /\ m_serial_cnt' = 0 /\ m_fileGenTime' = 0
  /\ UNCHANGED <<wall, line, tmp, published>>

Tick == wall < MaxWall /\ wall' = wall + 1
        /\ UNCHANGED <<gzipVars, pc, passVars, line, tmp, published, crashes, trouble>>

\* BasicBusinessLogger::clear, public and without a caller.
Clear ==
  /\ pc = "idle" /\ leaked < MaxClears
  /\ \E ok \in BOOLEAN :
       /\ ok \/ "memory" \in Faults
       /\ compressReset(ok)
       /\ trouble' = trouble \union {"clear"} \union (IF ok THEN {} ELSE {"memory"})
  /\ UNCHANGED <<pc, passVars, wall, line, tmp, published, crashes>>

\* checkRotate up to its loop: the serial starts again, the name is the second.
CheckRotate ==
  /\ pc = "idle" /\ pc' = "each"
  /\ todo' \in 0..Min({PassLines, MaxLines - line}) /\ isTimeOut' \in BOOLEAN
  /\ m_serial_cnt' = 0 /\ m_fileGenTime' = wall
  /\ UNCHANGED <<gzipVars, wall, line, tmp, published, crashes, trouble>>

\* One turn of the loop without outputFile: makeCsvLog.
makeCsvLog ==
  /\ line' = line + 1 /\ todo' = todo - 1
  /\ compressUpdate(line')
  /\ UNCHANGED <<isTimeOut, m_serial_cnt, m_fileGenTime, wall, tmp, published, crashes, trouble>>

Each == pc = "each" /\ todo > 0 /\ ~isFull /\ pc' = "each" /\ makeCsvLog

\* isFull, or the timeout at the end of a pass that wrote no file.
OutputDue == IF todo > 0 THEN isFull ELSE isTimeOut /\ m_serial_cnt = 0

\* Mutant of Finish: the stream is dumped as it is.
FinishSkipped ==
  /\ pc = "each" /\ OutputDue /\ pc' = "dump"
  /\ UNCHANGED <<gzipVars, passVars, wall, line, tmp, published, crashes, trouble>>

Finish ==
  /\ pc = "each" /\ OutputDue /\ pc' = "dump"
  /\ compressFinish
  /\ UNCHANGED <<passVars, wall, line, tmp, published, crashes, trouble>>

\* dumpCompressFile; a file that cannot be opened or a short write goes
\* unnoticed.
Dump ==
  /\ pc = "dump" /\ pc' = "reset"
  /\ LET old == IF tmp[name] = NoFile THEN <<>> ELSE tmp[name]
     IN \/ Works("disk", TRUE) /\ tmp' = [tmp EXCEPT ![name] = dumped(old)]
        \/ Works("disk", FALSE) /\ UNCHANGED tmp
        \/ /\ Works("disk", FALSE) /\ m_size > 0
           /\ tmp' = [tmp EXCEPT ![name] =
                SubSeq(m_data, 1, m_size - 1) \o SubSeq(old, m_size, Len(old))]
  /\ UNCHANGED <<gzipVars, passVars, wall, line, published, crashes>>

Reset ==
  /\ pc = "reset" /\ pc' = "rename"
  /\ \E ok \in BOOLEAN : Works("memory", ok) /\ compressReset(ok)
  /\ UNCHANGED <<passVars, wall, line, tmp, published, crashes>>

\* Mutant of Rename: the line that found the stream full is not written.
RenameDropsLine ==
  /\ pc = "rename" /\ tmp[name] # NoFile
  /\ published' = Append(published, [name |-> name, data |-> tmp[name]])
  /\ tmp' = [tmp EXCEPT ![name] = NoFile]
  /\ m_serial_cnt' = m_serial_cnt + 1
  /\ IF todo > 0 THEN line' = line + 1 /\ todo' = todo - 1 /\ pc' = "each"
                 ELSE UNCHANGED <<line, todo>> /\ pc' = "idle"
  /\ UNCHANGED <<gzipVars, isTimeOut, m_fileGenTime, wall, crashes, trouble>>

\* rename replaces a file of the same name.
Replace ==
  LET Same == {k \in DOMAIN published : published[k].name = name}
      new == [name |-> name, data |-> tmp[name]]
  IN \/ /\ Same = {}
        /\ published' = Append(published, new)
        /\ UNCHANGED trouble
     \/ /\ \E k \in Same : published' = Append(RemoveAt(published, k), new)
        /\ trouble' = trouble \union {"clash"}

\* rename, which fails without a tmp.  Back in checkRotate: the pass is over,
\* or the line that found the stream full is written to the new one without
\* another test.
Rename ==
  /\ pc = "rename"
  /\ \/ tmp[name] = NoFile /\ UNCHANGED <<tmp, published, trouble>>
     \/ tmp[name] # NoFile /\ tmp' = [tmp EXCEPT ![name] = NoFile] /\ Replace
  /\ IF todo > 0 THEN m_serial_cnt' = m_serial_cnt + 1 /\ pc' = "write"
                 ELSE UNCHANGED m_serial_cnt /\ pc' = "idle"
  /\ UNCHANGED <<gzipVars, todo, isTimeOut, m_fileGenTime, wall, line, crashes>>

WriteAfter == pc = "write" /\ pc' = "each" /\ makeCsvLog

\* return 1
PassEnd == /\ pc = "each" /\ todo = 0 /\ ~OutputDue /\ pc' = "idle"
           /\ UNCHANGED <<gzipVars, passVars, wall, line, tmp, published, crashes, trouble>>

Next ==
  \/ StartUp \/ Crash \/ Tick \/ Clear \/ CheckRotate \/ Each \/ Finish
  \/ Dump \/ Reset \/ Rename \/ WriteAfter \/ PassEnd

Spec == Init /\ [][Next]_vars

----------------------------------------------------------------------------
\* Properties.

\* The units of lines in data, which may end with the trailer.
TextOf(data) == IF data # <<>> /\ Last(data) = End THEN Front(data) ELSE data

\* Whole lines that were produced one after the other.
IsRun(text) ==
  /\ Len(text) % kLine = 0
  /\ \A k \in DOMAIN text : text[k] = text[1] + ((k - 1) \div kLine)

\* Type invariant.
TypeOK ==
  /\ m_stream \in BOOLEAN /\ leaked \in 0..MaxClears
  /\ held \in Seq(1..MaxLines) /\ m_data \in Seq(0..MaxLines) /\ m_size <= capacity
  /\ pc \in {"down", "idle", "each", "dump", "reset", "rename", "write"}
  /\ todo \in 0..PassLines /\ isTimeOut \in BOOLEAN
  /\ name \in Names /\ wall \in 0..MaxWall /\ line \in 0..MaxLines
  /\ \A f \in Names : tmp[f] = NoFile \/ tmp[f] \in Seq(0..MaxLines)
  /\ \A k \in DOMAIN published : published[k].data \in Seq(0..MaxLines)
  /\ trouble \subseteq {"disk", "memory", "crash", "clash", "clear"}

\* compressUpdate returns 0 even when deflate took only part of the line, and
\* drops the rest; kSafeThreshold is what keeps this from ever happening.
NoTornLine == IsRun(TextOf(m_data \o held))

\* compressFinish comes before every compressReset, so no deflate state is lost
\* on the way through outputFile, whatever fails: only clear() loses one.
OnlyClearLeaks == [][leaked' > leaked => Clear]_vars

\* outputFile renames what it has written: a crash between its calls never
\* publishes a cut stream.  Without a crash the stream is all there is in the
\* file; after one, the old tmp of the same name may show behind it.
PublishedWhole ==
  trouble \intersect {"disk", "memory"} = {} =>
    \A k \in DOMAIN published :
      LET data == published[k].data
          at == SelectInSeq(data, LAMBDA u : u = End)
      IN /\ at > 0 /\ IsRun(SubSeq(data, 1, at - 1))
         /\ "crash" \notin trouble => at = Len(data)

\* While nothing fails and no two files share a name, the files, the stream and
\* what zlib holds are together every line produced so far, in order.
Texts ==
  [k \in DOMAIN published |-> TextOf(published[k].data)]
    \o <<IF pc = "rename" THEN TextOf(tmp[name]) ELSE <<>>, TextOf(m_data \o held)>>
InOrder ==
  trouble = {} =>
    /\ \A k \in DOMAIN Texts : IsRun(Texts[k])
    /\ \A k, n \in DOMAIN Texts :
         k < n => \A x \in ToSet(Texts[k]), y \in ToSet(Texts[n]) : x < y
    /\ UNION {ToSet(Texts[k]) : k \in DOMAIN Texts} = 1..line
====
