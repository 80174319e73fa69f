---- MODULE RingBuff ----
(***************************************************************************)
(* RingBuff (ring_buffer.h): the older ring, as rb_test.cc uses it, with   *)
(* several producers in Put and one reader in GetHalf, and GetAll.  Each   *)
(* load, atomic add and copy of an element is a step.  Element k is named  *)
(* by the index it was put at.                                             *)
(***************************************************************************)
EXTENDS Integers, FiniteSets, FiniteSetsExt

CONSTANTS
  Producers,
  Size,        \* the argument of the constructor
  Bits,        \* width of int and uint32_t
  NoItem, Torn \* a slot never written, a slot being written

Modulus == 2 ^ Bits

is_power_of_2(a) == \E k \in 0..(Bits - 1) : a = 2 ^ k

\* Mutant of roundup_power_of_2: the shifts start at a / 2.
roundup_power_of_2Half(a) ==
  IF is_power_of_2(a) THEN a
  ELSE 2 ^ Cardinality({k \in 1..(Bits - 1) : a \div 2 ^ k # 0})

\* 1 << (the number of shifts until a is 0), for a that is positive as an int.
roundup_power_of_2(a) ==
  IF is_power_of_2(a) THEN a
  ELSE 2 ^ Cardinality({k \in 0..(Bits - 1) : a \div 2 ^ k # 0})

size_ == roundup_power_of_2(Size)
half_size == size_ \div 2

ASSUME RingBuffAssumption ==
  /\ Bits \in Nat \ {0, 1} /\ Size \in 2..(2 ^ (Bits - 2))
  /\ Producers # {} /\ IsFiniteSet(Producers)

VARIABLES
  wd_index_, rd_index_, data_,
  pc,         \* per producer: "idle", "test", "index", "copy", "copying"
  idx,        \* per producer: wd_index_ as loaded, then the index taken
  rpc,        \* the reader: "idle", "half", "all", or "crashed" in its memcpy
  j,          \* elements the reader has copied
  size,       \* GetAll: wd_index_ - rd_index_ as first read
  late,       \* history: slots written for an index after the slot's next lap
              \* was handed out
  early,      \* history: wd_index_ has not come within size_ of the wrap
  halves      \* history: rd_index_ has only been a multiple of half_size

history == <<late, early, halves>>
vars == <<wd_index_, rd_index_, data_, pc, idx, rpc, j, size, history>>

Indices == 0..(Modulus - 1)
Slots == 0..(size_ - 1)
Slot(k) == k % size_
Add(a, b) == (a + b) % Modulus

Init ==
  /\ wd_index_ = 0 /\ rd_index_ = 0 /\ data_ = [s \in Slots |-> NoItem]
  /\ pc = [p \in Producers |-> "idle"] /\ idx = [p \in Producers |-> 0]
  /\ rpc = "idle" /\ j = 0 /\ size = 0
  /\ late = {} /\ early = TRUE /\ halves = TRUE

Goto(p, label) == pc' = [pc EXCEPT ![p] = label]
readerVars == <<rpc, j, size>>

\* The process exists.
Running == rpc # "crashed"

\* Put: load wd_index_ ...
PutLoad(p) ==
  /\ Running /\ pc[p] = "idle" /\ Goto(p, "test")
  /\ idx' = [idx EXCEPT ![p] = wd_index_]
  /\ UNCHANGED <<wd_index_, rd_index_, data_, readerVars, history>>

\* Mutants of Full: the comparison as a distance; one slot more.
FullByDistance(wd) == (wd - rd_index_) % Modulus >= size_
FullLate(wd) == wd > Add(rd_index_, size_)

\* ... compare it with rd_index_ + size_, both as they are ...
Full(wd) == wd >= Add(rd_index_, size_)

PutTest(p) ==
  /\ Running /\ pc[p] = "test"
  /\ Goto(p, IF Full(idx[p]) THEN "idle" ELSE "index")
  /\ idx' = [idx EXCEPT ![p] = 0]
  /\ UNCHANGED <<wd_index_, rd_index_, data_, readerVars, history>>

\* ... take an index with an atomic add ...
PutIndex(p) ==
  /\ Running /\ pc[p] = "index" /\ Goto(p, "copy")
  /\ idx' = [idx EXCEPT ![p] = wd_index_]
  /\ wd_index_' = Add(wd_index_, 1)
  /\ early' = (early /\ wd_index_' + size_ < Modulus)
  /\ UNCHANGED <<rd_index_, data_, readerVars, late, halves>>

\* ... and copy the element, which another thread may see half done.
PutCopy(p) ==
  /\ Running /\ pc[p] = "copy" /\ Goto(p, "copying")
  /\ data_' = [data_ EXCEPT ![Slot(idx[p])] = Torn]
  /\ UNCHANGED <<wd_index_, rd_index_, idx, readerVars, history>>
PutDone(p) ==
  /\ Running /\ pc[p] = "copying" /\ Goto(p, "idle")
  /\ data_' = [data_ EXCEPT ![Slot(idx[p])] = idx[p]]
  /\ idx' = [idx EXCEPT ![p] = 0]
  /\ late' = IF wd_index_ > idx[p] + size_ THEN late \union {Slot(idx[p])}
                                           ELSE late \ {Slot(idx[p])}
  /\ UNCHANGED <<wd_index_, rd_index_, readerVars, early, halves>>

\* Mutant of HalfFull: any element is enough.
HalfFullOne == wd_index_ >= Add(rd_index_, 1)

HalfFull == wd_index_ >= Add(rd_index_, half_size)

\* GetHalf returns 0 and nothing changes, or copies half_size elements ...
GetHalf ==
  /\ rpc = "idle" /\ HalfFull
  /\ rpc' = "half"
  /\ UNCHANGED <<wd_index_, rd_index_, data_, pc, idx, j, size, history>>

\* GetAll: the number of elements to report, then size_ elements are copied.
GetAll ==
  /\ rpc = "idle"
  /\ rpc' = "all" /\ size' = (wd_index_ - rd_index_) % Modulus
  /\ UNCHANGED <<wd_index_, rd_index_, data_, pc, idx, j, history>>

\* Mutant of ToCopy: GetHalf copies size_ elements into the caller's buffer.
ToCopySize == size_

\* The elements the reader's memcpy copies.
ToCopy == IF rpc = "half" THEN half_size ELSE size_

\* Where it reads the next one: idx is masked once, and the copy goes on from
\* there, past the end of data_ too.
Position == Slot(rd_index_) + j

Unfinished == rpc \in {"half", "all"} /\ j < ToCopy

Copy ==
  /\ Unfinished /\ Position < size_
  /\ j' = j + 1
  /\ UNCHANGED <<wd_index_, rd_index_, data_, pc, idx, rpc, size, history>>

\* Past the end: whatever lies there is copied, or the page is not mapped.
CopyOutside ==
  /\ Unfinished /\ Position >= size_
  /\ \/ j' = j + 1 /\ UNCHANGED rpc
     \/ rpc' = "crashed" /\ UNCHANGED j
  /\ UNCHANGED <<wd_index_, rd_index_, data_, pc, idx, size, history>>

\* ... and moves rd_index_: by half_size, or to wd_index_ as it is by now.
Advance ==
  /\ rpc \in {"half", "all"} /\ j = ToCopy
  /\ rd_index_' = IF rpc = "half" THEN Add(rd_index_, half_size) ELSE wd_index_
  /\ rpc' = "idle" /\ j' = 0 /\ size' = 0
  /\ halves' = (halves /\ rd_index_' % half_size = 0)
  /\ UNCHANGED <<wd_index_, data_, pc, idx, late, early>>

Put(p) == PutLoad(p) \/ PutTest(p) \/ PutIndex(p) \/ PutCopy(p) \/ PutDone(p)
Next == (\E p \in Producers : Put(p)) \/ GetHalf \/ GetAll \/ Copy \/ CopyOutside \/ Advance

Spec == Init /\ [][Next]_vars

----------------------------------------------------------------------------
\* Properties.

Held == (wd_index_ - rd_index_) % Modulus

\* Type invariant.
TypeOK ==
  /\ wd_index_ \in Indices /\ rd_index_ \in Indices
  /\ data_ \in [Slots -> Indices \union {NoItem, Torn}]
  /\ pc \in [Producers -> {"idle", "test", "index", "copy", "copying"}]
  /\ idx \in [Producers -> Indices]
  /\ rpc \in {"idle", "half", "all", "crashed"} /\ size \in Indices
  /\ j \in 0..(IF rpc = "half" THEN half_size ELSE size_)
  /\ late \subseteq Slots /\ early \in BOOLEAN /\ halves \in BOOLEAN

\* Both rings round the size up to the least power of two, for every size that
\* is positive as an int; the indices are masked to exactly those slots.
RoundupIsLeast ==
  \A a \in 0..(2 ^ (Bits - 1)) :
    /\ roundup_power_of_2(a) = Min({2 ^ k : k \in {k \in 0..(Bits - 1) : 2 ^ k >= a}})
    /\ a = Size => DOMAIN data_ = 0..(roundup_power_of_2(a) - 1)

\* Put tests for room before it takes an index: each producer but one may go
\* past the test with a stale wd_index_, so the ring holds up to that many more
\* elements than it has slots.  Before the last lap it is never worse.
OverrunBound ==
  early => Held <= size_ + Cardinality(Producers) - 1

\* Put takes its index before it copies, and the reader masks rd_index_ but not
\* what it adds to it, so it need not get the element it asks for.  Before the
\* last lap these are the only reasons: a producer is still copying into the
\* slot, one finished there a lap late, the next lap's index is out already, or
\* the reader is past the end of data_.  The last never happens to GetHalf in a
\* ring that is only read by halves, whatever the producers do.  The reader
\* never copies an index not handed out.
ReadExplained ==
  [][((Copy \/ CopyOutside) /\ j < (IF rpc = "half" THEN half_size ELSE size)
                           /\ early) =>
       LET k == rd_index_ + j
       IN /\ k < wd_index_
          /\ \/ Position < size_ /\ data_[Position] = k
             \/ Position >= size_ /\ (rpc = "half" => ~halves)
             \/ \E p \in Producers : pc[p] \in {"copy", "copying"}
                                    /\ Slot(idx[p]) = Slot(k)
             \/ Slot(k) \in late
             \/ Held > size_ + j]_vars

\* Put compares the indices as they are.  Close to the wrap every Put of a ring
\* read by halves is refused, so wd_index_ never wraps: the ring takes fewer than
\* 2^32 elements in its life (with no more producers than half_size).
NeverWraps == [][halves => wd_index_' >= wd_index_]_vars
====
