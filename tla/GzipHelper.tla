---- MODULE GzipHelper ----
(***************************************************************************)
(* GzipHelper (gziphelper.cpp) over zlib, which is external: what deflate, *)
(* deflateReset, deflateInit2 and deflateEnd do is modelled as the code    *)
(* relies on it.  Text and output are counted in units; a unit of output   *)
(* is named after the line it encodes and End stands for the gzip trailer. *)
(***************************************************************************)
EXTENDS Integers, SequencesExt, FiniteSetsExt

CONSTANTS
  m_compress_size,   \* units the stream was made for
  kSafeThreshold,    \* units of m_data kept in reserve, 8 MB
  kWindow,           \* window_size of isFull, 32 KB
  kPending,          \* units zlib can hold back between two calls
  kLine              \* units of one line

ASSUME GzipAssumption ==
  /\ m_compress_size \in Nat /\ kSafeThreshold \in Nat /\ kWindow \in Nat
  /\ kPending \in Nat /\ kLine \in Nat \ {0}

VARIABLES
  m_stream,     \* has m_stream a deflate state?
  leaked,       \* deflate states nothing points to any more
  held,         \* units zlib took in and has not put out
  m_data        \* the units written to m_data, m_size of them

gzipVars == <<m_stream, leaked, held, m_data>>

End == 0
m_size == Len(m_data)
capacity == m_compress_size + kSafeThreshold
Units(line) == [k \in 1..kLine |-> line]

GzipInit == m_stream = FALSE /\ leaked = 0 /\ held = <<>> /\ m_data = <<>>

\* compressInit clears m_stream, so a state it had is lost; the result of
\* streamInit is ignored.
compressInit(ok) ==
  /\ m_stream' = ok /\ held' = <<>> /\ m_data' = <<>>
  /\ leaked' = leaked + (IF m_stream THEN 1 ELSE 0)

\* compressReset: deflateReset empties the state but keeps it; deflateInit2 then
\* puts a new one in its place.  When it fails it has not touched the pointer
\* yet, or has replaced it and freed the new state only.
compressReset(ok) ==
  /\ held' = <<>> /\ m_data' = <<>>
  /\ \/ m_stream' = ok /\ leaked' = leaked + (IF m_stream THEN 1 ELSE 0)
     \/ ~ok /\ UNCHANGED <<m_stream, leaked>>

\* compressUpdate.  deflate takes the line in as far as its own buffers and
\* the room left in m_data allow and returns Z_OK; it fails with no state and
\* with no room at all.
compressUpdate(line) ==
  LET avail_out == capacity - m_size
      fed == held \o Units(line)
      taken == SubSeq(fed, 1, Min({Len(fed), avail_out + kPending}))
  IN IF m_stream /\ avail_out > 0
       THEN \E k \in Max({0, Len(taken) - kPending})..Min({avail_out, Len(taken)}) :
              /\ m_data' = m_data \o SubSeq(taken, 1, k)
              /\ held' = SubSeq(taken, k + 1, Len(taken))
              /\ UNCHANGED <<m_stream, leaked>>
       ELSE UNCHANGED gzipVars

\* Mutant of compressFinish: no deflateEnd once the stream is complete.
compressFinishNoEnd ==
  /\ IF m_stream /\ Len(held) < capacity - m_size
       THEN m_data' = m_data \o held \o <<End>>
       ELSE UNCHANGED m_data
  /\ UNCHANGED <<m_stream, held, leaked>>

\* compressFinish: deflateSetHeader fails without a state; otherwise the rest
\* and the trailer go out if they fit, m_size is set only then, and the state
\* is freed either way.
compressFinish ==
  /\ IF m_stream /\ Len(held) < capacity - m_size
       THEN m_data' = m_data \o held \o <<End>>
       ELSE UNCHANGED m_data
  /\ m_stream' = FALSE /\ held' = <<>>
  /\ UNCHANGED leaked

\* Mutant of isFull: only when there is no room left.
isFullLate == m_size >= capacity

isFull == m_size + kSafeThreshold + kWindow > capacity

\* dumpCompressFile: open without O_TRUNC, then one write of m_size units; what
\* a longer old file holds behind them stays.
dumped(old) == m_data \o SubSeq(old, m_size + 1, Len(old))
====
