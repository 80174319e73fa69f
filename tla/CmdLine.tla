---- MODULE CmdLine ----
(***************************************************************************)
(* The line editor of the command thread (access_cmdline.cpp): the edit    *)
(* line, the history with its iterator, completion over the hints, the     *)
(* history file over several runs of the program, and the terminal row the *)
(* user sees.  readLine is one action per key.  A closed stdin repeats the *)
(* last key (read returns 0 and c keeps its value), which adds no state.   *)
(***************************************************************************)
EXTENDS Integers, SequencesExt, FiniteSetsExt

CONSTANTS
  Chars,          \* the printable characters; " " is one of them
  Help, Exit,     \* the lines "help" and "exit"
  Hints,          \* the sequence of hints given to addHints
  MaxLine,        \* bound: no character is typed into a line this long
  MaxHistory,     \* bound: no Enter with this many entries
  kKept,          \* lines read and written, 502 in the code
  kBuf            \* the buffer of fgets, 1024 in the code

Lines == Seq(Chars)
Missing == << <<"no file">> >>
NUL == "nul"

ASSUME KeysAssumption == " " \in Chars /\ Help \in Lines /\ Exit \in Lines /\ Hints \in Seq(Lines)
ASSUME FileAssumption == "no file" \notin Chars /\ NUL \notin Chars
ASSUME HelpAssumption == Help # <<>> /\ Last(Help) \notin {" ", "\n"}
ASSUME SizesAssumption == MaxLine \in Nat /\ kKept \in Nat \ {0} /\ kBuf \in Nat \ {0, 1}

VARIABLES
  session,        \* "edit", "down", or "crashed" by undefined behaviour
  history, curr,  \* the entries, oldest first; the iterator as a 0-based position
  cmd, m_index,   \* the line and the cursor in it
  cmd_buffer,     \* the line as of the last character typed
  last_key,       \* was the last key TAB?
  screen,         \* the row after the prompt and the terminal's cursor in it
  noise,          \* "len = " was printed over the row since the last redraw
  file,           \* the history file: lines with their "\n", newest first
  intact          \* every save so far completed, with lines fgets reads whole

lineVars == <<cmd, m_index, cmd_buffer, screen, noise>>
vars == <<session, history, curr, cmd, m_index, cmd_buffer, last_key, screen, noise, file, intact>>

----------------------------------------------------------------------------
\* The terminal, as the one row a line takes.  (Bound: the line fits in a row of
\* the real one, where it wraps and "\b" does not go back over the edge.)

Width == MaxLine + Max({Len(Hints[h]) : h \in DOMAIN Hints} \union {Len(Help)}) + 2
Blank == [row |-> [k \in 1..Width |-> " "], col |-> 0]
writeLine(scr, buf) ==
  [row |-> [k \in 1..Width |->
              IF k - scr.col \in DOMAIN buf THEN buf[k - scr.col] ELSE scr.row[k]],
   col |-> scr.col + Len(buf)]
Left(scr, n) == [scr EXCEPT !.col = Max({0, @ - n})]
Space(scr, n) == writeLine(scr, [k \in 1..n |-> " "])
backSpace(scr, n) == Left(Space(Left(scr, n), n), n)

\* Mutant of clearLine: does not blank what is right of the cursor.
clearLineLeft == backSpace(screen, m_index)

\* From the cursor: blank the rest, come back, blank what is to the left.
clearLine ==
  LET r == Len(cmd) - m_index IN backSpace(Left(Space(screen, r), r), m_index)

\* clearLine, writeLine(cmd), and the cursor moved back over the last part.
Redraw(line, at) ==
  /\ cmd' = line /\ m_index' = at
  /\ screen' = Left(writeLine(clearLine, line), Len(line) - at)
  /\ noise' = FALSE

----------------------------------------------------------------------------
\* Lines and the history file.

Blanks == {" ", "\n"}
RTrim(line) ==
  SubSeq(line, 1, Max({k \in DOMAIN line : line[k] \notin Blanks} \union {0}))
Trim(line) ==
  SubSeq(RTrim(line), Min({k \in DOMAIN line : line[k] # " "} \union {Len(line) + 1}), Len(RTrim(line)))

\* Mutant of FileOf: the oldest entries instead of the newest.
FileOldest(h) ==
  [k \in 1..Min({kKept, Len(h)}) |-> Append(h[Min({kKept, Len(h)}) + 1 - k], "\n")]

\* writeBackHistory: the newest kKept entries, newest first.
FileOf(h) == [k \in 1..Min({kKept, Len(h)}) |-> Append(h[Len(h) + 1 - k], "\n")]

\* What is on disk after a save cut short by a crash or a full disk.
Torn(f) ==
  (UNION {{Append(SubSeq(f, 1, k - 1), SubSeq(f[k], 1, j)) : j \in 1..(Len(f[k]) - 1)} : k \in DOMAIN f})
  \union {SubSeq(f, 1, k) : k \in 0..(Len(f) - 1)}

\* fgets: a line comes in pieces of kBuf - 1 bytes.
Pieces(line) ==
  [k \in 1..((Len(line) + kBuf - 2) \div (kBuf - 1)) |->
     RTrim(SubSeq(line, (k - 1) * (kBuf - 1) + 1, Min({k * (kBuf - 1), Len(line)})))]
Short(lines) == \A k \in DOMAIN lines : Len(lines[k]) < kBuf

\* Mutant of readHistory: a missing file leaves no entry.
readHistoryEmpty(f) ==
  IF f = Missing THEN <<>>
  ELSE LET tmp == FlattenSeq([k \in DOMAIN f |-> Pieces(f[k])])
       IN SubSeq(Reverse(tmp), 1, Min({kKept, Len(tmp)}))

\* readHistory: the last kKept pieces of the file, last one first.
readHistory(f) ==
  IF f = Missing THEN <<Help>>
  ELSE LET tmp == FlattenSeq([k \in DOMAIN f |-> Pieces(f[k])])
       IN SubSeq(Reverse(tmp), 1, Min({kKept, Len(tmp)}))

----------------------------------------------------------------------------
\* Completion.

Spaced(line) == \E k \in DOMAIN line : line[k] = " "

\* compareHints: longer hints that begin with cmd.  have_space stays set from
\* the first two-word hint on, and hides what follows from a one-word cmd.
Matches ==
  IF cmd = <<>> THEN {}
  ELSE {h \in DOMAIN Hints :
          /\ Len(Hints[h]) > Len(cmd) /\ IsPrefix(cmd, Hints[h])
          /\ Spaced(cmd) \/ \A k \in 1..h : ~Spaced(Hints[k])}

\* (*it)[i]: a character of the line, and at its end the string's terminator.
At(line, i) == IF i < Len(line) THEN line[i + 1] ELSE NUL

\* Mutant of Agree: the last match is not looked at.
AgreeButLast(i) ==
  \A h \in Matches \ {Max(Matches)} : At(Hints[h], i) = At(Hints[Min(Matches)], i)

\* The inner loop: every match has the character of the first one at i.
Agree(i) == \A h \in Matches : At(Hints[h], i) = At(Hints[Min(Matches)], i)

\* len_min before the first match.
LongHint == 65535

len_min == Min({LongHint} \union {Len(Hints[h]) : h \in Matches})

\* cmd and append_str: what the first match has from the end of cmd to the
\* first i at which the outer loop ends.
Completed ==
  LET first == Hints[Min(Matches)]
      Ends == {i \in Len(cmd)..Len(first) : i >= len_min \/ ~Agree(i) \/ At(first, i) = NUL}
  IN cmd \o SubSeq(first, Len(cmd) + 1, Min(Ends))

----------------------------------------------------------------------------
Init ==
  /\ session = "down" /\ history = <<>> /\ curr = 0
  /\ cmd = <<>> /\ m_index = 0 /\ cmd_buffer = <<>> /\ last_key = FALSE
  /\ screen = Blank /\ noise = FALSE
  /\ file = Missing /\ intact = TRUE

\* An empty line after the prompt.
EmptyLine == /\ cmd' = <<>> /\ m_index' = 0 /\ cmd_buffer' = <<>>
             /\ screen' = Blank /\ noise' = FALSE

\* The constructor and init(): prompt, history, curr = history.end().
Start ==
  /\ session # "edit"
  /\ session' = "edit"
  /\ history' = readHistory(file)
  /\ curr' = Len(history') /\ last_key' = FALSE
  /\ EmptyLine
  /\ UNCHANGED <<file, intact>>

\* The object is gone; its members no longer matter.
Gone == history' = <<>> /\ curr' = 0 /\ last_key' = FALSE /\ EmptyLine

\* The destructor: writeBackHistory, whose failures nobody notices (bound: a
\* save is cut short only while those before it were whole).
Quit ==
  /\ session = "edit" /\ session' = "down"
  /\ \/ file' = FileOf(history) /\ intact' = (intact /\ Short(FileOf(history)))
     \/ intact /\ file' \in Torn(FileOf(history)) /\ intact' = FALSE
     \/ UNCHANGED <<file, intact>>
  /\ Gone

\* The process dies without the destructor.
Kill == session = "edit" /\ session' = "down" /\ Gone /\ UNCHANGED <<file, intact>>

Key(tab) == session = "edit" /\ last_key' = tab /\ UNCHANGED <<session, file, intact>>

\* A printable character.
Insert ==
  /\ Key(FALSE)
  /\ Len(cmd) < MaxLine
  /\ \E c \in Chars : Redraw(SubSeq(cmd, 1, m_index) \o <<c>> \o SubSeq(cmd, m_index + 1, Len(cmd)), m_index + 1)
  /\ cmd_buffer' = cmd'
  /\ UNCHANGED <<history, curr>>

Backspace ==
  /\ Key(FALSE)
  /\ IF m_index > 0
       THEN Redraw(RemoveAt(cmd, m_index), m_index - 1)
       ELSE UNCHANGED <<cmd, m_index, screen, noise>>
  /\ UNCHANGED <<history, curr, cmd_buffer>>

\* Enter on a line with a command (the prompt comes from the caller): it is
\* pushed unless it repeats the last entry or is "exit".
EnterCommand ==
  /\ Key(FALSE) /\ Trim(cmd) # <<>> /\ history # <<>>
  /\ Len(history) < MaxHistory
  /\ history' = IF Last(history) # Trim(cmd) /\ Trim(cmd) # Exit
                  THEN Append(history, Trim(cmd)) ELSE history
  /\ curr' = Len(history')
  /\ EmptyLine

\* The same with an empty history: *(history.end() - 1) reads below a null
\* pointer.
EnterNoHistory ==
  /\ session = "edit" /\ Trim(cmd) # <<>> /\ history = <<>>
  /\ session' = "crashed"
  /\ Gone /\ UNCHANGED <<file, intact>>

EnterBlank == /\ Key(FALSE) /\ Trim(cmd) = <<>>
              /\ EmptyLine /\ UNCHANGED <<history, curr>>

\* TAB: a single match replaces the line; the second TAB in a row lists
\* several and completes what they share.
Tab ==
  /\ Key(TRUE)
  /\ \/ /\ Cardinality(Matches) > 1 /\ last_key
        /\ cmd' = Completed
        /\ screen' = writeLine(Blank, cmd') /\ noise' = FALSE
        /\ m_index' = Len(cmd')
     \/ /\ Cardinality(Matches) = 1
        /\ LET line == Append(Hints[Min(Matches)], " ") IN Redraw(line, Len(line))
     \/ /\ Matches = {} \/ (Cardinality(Matches) > 1 /\ ~last_key)
        /\ UNCHANGED <<cmd, m_index, screen, noise>>
  /\ UNCHANGED <<history, curr, cmd_buffer>>

Show(line) == Redraw(line, Len(line))

\* Up: one entry back, two when the first is the line shown already.
Up ==
  /\ Key(FALSE) /\ history # <<>>
  /\ curr' = IF curr > 1 /\ history[curr] = cmd THEN curr - 2 ELSE Max({0, curr - 1})
  /\ Show(history[curr' + 1])
  /\ UNCHANGED <<history, cmd_buffer>>

\* Mutant of Down: reads the entry past the last one.
DownPastEnd ==
  /\ Key(FALSE) /\ history # <<>>
  /\ curr' = curr + 1
  /\ Show(IF curr' < Len(history) THEN history[curr' + 1] ELSE cmd_buffer)
  /\ UNCHANGED <<history, cmd_buffer>>

\* Down: one entry forward; past the last one the line typed before, if any.
Down ==
  /\ Key(FALSE) /\ history # <<>>
  /\ curr' = Min({curr + 1, Len(history)})
  /\ \/ curr' < Len(history) /\ Show(history[curr' + 1])
     \/ curr = Len(history) - 1 /\ cmd_buffer # <<>> /\ Show(cmd_buffer)
     \/ /\ curr = Len(history) \/ (curr = Len(history) - 1 /\ cmd_buffer = <<>>)
        /\ UNCHANGED <<cmd, m_index, screen, noise>>
  /\ UNCHANGED <<history, cmd_buffer>>

LeftArrow ==
  /\ Key(FALSE) /\ m_index > 0
  /\ m_index' = m_index - 1
  /\ screen' = Left(screen, 1)
  /\ UNCHANGED <<history, curr, cmd, cmd_buffer, noise>>

RightArrow ==
  /\ Key(FALSE) /\ m_index < Len(cmd)
  /\ m_index' = m_index + 1
  /\ screen' = writeLine(screen, <<cmd[m_index + 1]>>)
  /\ UNCHANGED <<history, curr, cmd, cmd_buffer, noise>>

\* An escape sequence that is none of the four arrows, or one out of place.
OtherEscape == /\ Key(FALSE)
               /\ UNCHANGED <<history, curr, lineVars>>

\* Any other key: "len = %d\n" goes to the terminal.
OtherKey == /\ Key(FALSE)
            /\ screen' = Blank /\ noise' = TRUE
            /\ UNCHANGED <<history, curr, cmd, m_index, cmd_buffer>>

readLine ==
  \/ Insert \/ Backspace \/ EnterCommand \/ EnterNoHistory \/ EnterBlank \/ Tab
  \/ Up \/ Down \/ LeftArrow \/ RightArrow \/ OtherEscape \/ OtherKey

Next == Start \/ Quit \/ Kill \/ readLine

Spec == Init /\ [][Next]_vars

----------------------------------------------------------------------------
\* Properties.

\* Type invariant; m_index is a position of cmd and curr an iterator of history.
TypeOK ==
  /\ session \in {"edit", "down", "crashed"}
  /\ history \in Seq(Lines) /\ curr \in 0..Len(history)
  /\ cmd \in Lines /\ m_index \in 0..Len(cmd) /\ cmd_buffer \in Lines
  /\ screen \in [row : [1..Width -> Chars], col : 0..Width]
  /\ last_key \in BOOLEAN /\ noise \in BOOLEAN /\ intact \in BOOLEAN
  /\ file \in Seq(Seq(Chars \union {"\n"})) \union {Missing}

\* clearLine, writeLine and Left keep the terminal true for a line that fits in
\* its row: whatever keys came before, it shows cmd with the cursor at m_index
\* and nothing left over.
ScreenShowsLine ==
  (session = "edit" /\ ~noise) =>
    /\ screen.col = m_index
    /\ screen.row = writeLine(Blank, cmd).row

\* readLine dereferences history.end() - 1 unguarded; that crashes only after
\* a writeBackHistory that was cut short.
CrashNeedsTornSave == session = "crashed" => ~intact

\* writeBackHistory and readHistory both reverse: the next session starts from
\* the newest kKept entries, in order; and a save cut short costs the oldest
\* ones, never more than one shortened entry in front of the rest.
HistorySurvives ==
  Short(FileOf(history)) =>
    /\ readHistory(FileOf(history)) =
         SubSeq(history, Max({1, Len(history) - kKept + 1}), Len(history))
    /\ \A f \in Torn(FileOf(history)) :
         f # <<>> => IsSuffix(Tail(readHistory(f)), history)

\* TAB only extends the line.  Several matches all begin with what it leaves,
\* and the second TAB takes all that they share: compareHints stops neither
\* late nor early (a line of LongHint characters is completed no further).
CompletionKeepsMatches ==
  [][Tab => /\ IsPrefix(cmd, cmd')
            /\ Cardinality(Matches) > 1 =>
                 /\ \A h \in Matches : IsPrefix(cmd', Hints[h])
                 /\ last_key /\ Len(cmd') < LongHint =>
                      \A c \in Chars : \E h \in Matches : ~IsPrefix(Append(cmd', c), Hints[h])]_vars
====
