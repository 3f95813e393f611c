---------------------------- MODULE RawSpanData ----------------------------
(***************************************************************************)
(* RawSpanData<Size>: the operations on the memory-mapped slots, one store *)
(* into the mapping per step, with a crash possible between any two.       *)
(*                                                                         *)
(* What survives a crash is what was stored in the mapping: the count in   *)
(* the header, and a mark and a span per slot.  The next process reads the *)
(* slots below the count whose mark is not zero, then clears the store     *)
(* (remove_all, called by the constructor of Context).                     *)
(*                                                                         *)
(* A span is copied into its slot word by word in an order the code does   *)
(* not choose (it is a memcpy), so a slot under a copy may hold words of   *)
(* two spans.  A span has four words here: its id, its end time and its    *)
(* attributes, which change later, and `body', which stands for every      *)
(* field written once and identifies the span it belongs to.  Setting an   *)
(* attribute is one step; AttributeStore has the stores it is made of.     *)
(***************************************************************************)
EXTENDS Integers

CONSTANTS SpanId,     \* the span ids; 0 is the id of no span
          Time,       \* the end times; 0 is the end time of a span not ended
          Attributes, \* what attributes a span may have; 0 stands for none
          MaxSpans,   \* mmap_config<Size>.max_spans
          MaxMark     \* bound: how many spans one process adds

ASSUME MaxSpansAssumption == MaxSpans \in Nat \ {0}
ASSUME MaxMarkAssumption == MaxMark \in Nat
ASSUME SpanIdAssumption == 0 \notin SpanId

VARIABLES
  (* in the file *)
  active_span_count,  \* layout_->header.active_span_count
  mark,               \* layout_->marked_spans[i].mark
  span,               \* layout_->marked_spans[i].span
  (* in the process *)
  mark_counter,       \* RawSpanData::mark_counter_
  pc,                 \* the next store of the operation under way
  raw_index,          \* the slot the operation writes
  last_mark,          \* remove: the mark read from the last slot
  last_span_id,       \* remove: the id it returns, 0 if it moves no span
  arg,                \* add: the RawSpan built from the argument
  copied              \* the words of the span copy already written

file == <<active_span_count, mark, span>>
locals == <<raw_index, last_mark, last_span_id, arg, copied>>
vars == <<active_span_count, mark, span, mark_counter, pc, raw_index,
          last_mark, last_span_id, arg, copied>>

-----------------------------------------------------------------------------
Slot == 0 .. (MaxSpans - 1)
Mark == 0 .. MaxMark
Word == {"span_id", "body", "end_time", "attributes"}
Content == SpanId \cup Time \cup Attributes \cup {0}
RawSpan == [Word -> Content]
NoSpan == [w \in Word |-> 0]

\* A span as the process built it: all its words belong together.
Whole(s) == /\ s["span_id"] \in SpanId
            /\ s["body"] = s["span_id"]
            /\ s["end_time"] \in Time \cup {0}
            /\ s["attributes"] \in Attributes \cup {0}
to_raw_span(x, t, a) ==
  [w \in Word |-> CASE w = "end_time" -> t
                    [] w = "attributes" -> a
                    [] OTHER -> x]
Span == {to_raw_span(x, t, a) : x \in SpanId, t \in Time \cup {0}, a \in Attributes \cup {0}}

PC == {"idle", "add_span", "add_count",
       "remove_span", "remove_last_mark", "remove_count",
       "clear", "crashed"}

\* The slot of the last active span.
last_index == active_span_count - 1

\* A slot the next process would recover a span from.
Recoverable(i) == i < active_span_count /\ mark[i] # 0

\* The spans the next process would recover.
Live == {span[i] : i \in {j \in Slot : Recoverable(j)}}

TypeOK ==
  /\ active_span_count \in 0 .. MaxSpans
  /\ mark \in [Slot -> Mark]
  /\ span \in [Slot -> RawSpan]
  /\ mark_counter \in Mark
  /\ pc \in PC
  /\ raw_index \in Slot
  /\ last_mark \in Mark
  /\ last_span_id \in Content
  /\ arg \in RawSpan
  /\ copied \in SUBSET Word

\* A process that has called nothing yet holds no values of a past call.
NoCall == /\ raw_index = 0
          /\ last_mark = 0
          /\ last_span_id = 0
          /\ arg = NoSpan
          /\ copied = {}

Init == /\ active_span_count = 0
        /\ mark = [i \in Slot |-> 0]
        /\ span = [i \in Slot |-> NoSpan]
        /\ mark_counter = 0
        /\ pc = "idle"
        /\ NoCall

-----------------------------------------------------------------------------
(* What the caller of an operation owes to it: add is called with room for *)
(* a span whose id is not active, the others with the index of an active   *)
(* slot.  Nothing in these operations checks it in a build    *)
(* with NDEBUG.                                                            *)

\* Mutant: the caller lets an add in when every slot is taken.
MayAddWhenFull(s) ==
  /\ active_span_count <= MaxSpans
  /\ \A i \in Slot : i < active_span_count => span[i]["span_id"] # s["span_id"]

MayAdd(s) ==
  /\ active_span_count < MaxSpans
  /\ \A i \in Slot : i < active_span_count => span[i]["span_id"] # s["span_id"]

Active(i) == i \in Slot /\ i < active_span_count

-----------------------------------------------------------------------------
(* add                                                                     *)

AddBegin(s) ==
  /\ pc = "idle"
  /\ mark_counter < MaxMark
  /\ mark_counter' = mark_counter + 1
  /\ mark' = [mark EXCEPT ![active_span_count] = 0]
  /\ raw_index' = active_span_count
  /\ arg' = s
  /\ copied' = {}
  /\ pc' = "add_span"
  /\ UNCHANGED <<active_span_count, span, last_mark, last_span_id>>

AddCopy(w) ==
  /\ pc = "add_span"
  /\ w \notin copied
  /\ span' = [span EXCEPT ![raw_index] = [@ EXCEPT ![w] = arg[w]]]
  /\ copied' = copied \cup {w}
  /\ UNCHANGED <<active_span_count, mark, mark_counter, pc, raw_index,
                 last_mark, last_span_id, arg>>

AddMark ==
  /\ pc = "add_span"
  /\ copied = Word
  /\ mark' = [mark EXCEPT ![raw_index] = mark_counter]
  /\ pc' = "add_count"
  /\ UNCHANGED <<active_span_count, span, mark_counter, locals>>

AddCount ==
  /\ pc = "add_count"
  /\ active_span_count' = active_span_count + 1
  /\ pc' = "idle"
  /\ UNCHANGED <<mark, span, mark_counter, locals>>

-----------------------------------------------------------------------------
(* remove                                                                  *)

\* Mutant: only the count drops, the mark of the last slot stays.
RemoveLastKeepsMark(i) ==
  /\ pc = "idle"
  /\ i = last_index
  /\ raw_index' = i
  /\ last_span_id' = 0
  /\ pc' = "remove_count"
  /\ UNCHANGED <<active_span_count, mark, span, mark_counter, last_mark, arg, copied>>

RemoveLast(i) ==
  /\ pc = "idle"
  /\ i = last_index
  /\ mark' = [mark EXCEPT ![i] = 0]
  /\ raw_index' = i
  /\ last_span_id' = 0
  /\ pc' = "remove_count"
  /\ UNCHANGED <<active_span_count, span, mark_counter, last_mark, arg, copied>>

\* Mutant: the slot keeps its mark while the last span is copied over it.
RemoveBeginKeepsMark(i) ==
  /\ pc = "idle"
  /\ i # last_index
  /\ last_span_id' = span[last_index]["span_id"]
  /\ last_mark' = mark[last_index]
  /\ raw_index' = i
  /\ copied' = {}
  /\ pc' = "remove_span"
  /\ UNCHANGED <<active_span_count, mark, span, mark_counter, arg>>

\* Mutant: the last slot loses its mark before its span is copied.
RemoveBeginUnmarksBoth(i) ==
  /\ pc = "idle"
  /\ i # last_index
  /\ last_span_id' = span[last_index]["span_id"]
  /\ last_mark' = mark[last_index]
  /\ mark' = [mark EXCEPT ![i] = 0, ![last_index] = 0]
  /\ raw_index' = i
  /\ copied' = {}
  /\ pc' = "remove_span"
  /\ UNCHANGED <<active_span_count, span, mark_counter, arg>>

RemoveBegin(i) ==
  /\ pc = "idle"
  /\ i # last_index
  /\ last_span_id' = span[last_index]["span_id"]
  /\ last_mark' = mark[last_index]
  /\ mark' = [mark EXCEPT ![i] = 0]
  /\ raw_index' = i
  /\ copied' = {}
  /\ pc' = "remove_span"
  /\ UNCHANGED <<active_span_count, span, mark_counter, arg>>

RemoveCopy(w) ==
  /\ pc = "remove_span"
  /\ w \notin copied
  /\ span' = [span EXCEPT ![raw_index] = [@ EXCEPT ![w] = span[last_index][w]]]
  /\ copied' = copied \cup {w}
  /\ UNCHANGED <<active_span_count, mark, mark_counter, pc, raw_index,
                 last_mark, last_span_id, arg>>

RemoveMark ==
  /\ pc = "remove_span"
  /\ copied = Word
  /\ mark' = [mark EXCEPT ![raw_index] = last_mark]
  /\ pc' = "remove_last_mark"
  /\ UNCHANGED <<active_span_count, span, mark_counter, locals>>

\* Mutant: the last slot keeps its mark after its span has moved.
RemoveLastMarkForgotten ==
  /\ pc = "remove_last_mark"
  /\ pc' = "remove_count"
  /\ UNCHANGED <<file, mark_counter, locals>>

RemoveLastMark ==
  /\ pc = "remove_last_mark"
  /\ mark' = [mark EXCEPT ![last_index] = 0]
  /\ pc' = "remove_count"
  /\ UNCHANGED <<active_span_count, span, mark_counter, locals>>

RemoveCount ==
  /\ pc = "remove_count"
  /\ active_span_count' = active_span_count - 1
  /\ pc' = "idle"
  /\ UNCHANGED <<mark, span, mark_counter, locals>>

-----------------------------------------------------------------------------
(* set_end_time and set_attribute_on_span                                  *)

SetEndTime(i, t) ==
  /\ pc = "idle"
  /\ span' = [span EXCEPT ![i] = [@ EXCEPT !["end_time"] = t]]
  /\ UNCHANGED <<active_span_count, mark, mark_counter, pc, locals>>

SetAttributeOnSpan(i, a) ==
  /\ pc = "idle"
  /\ span' = [span EXCEPT ![i] = [@ EXCEPT !["attributes"] = a]]
  /\ UNCHANGED <<active_span_count, mark, mark_counter, pc, locals>>

-----------------------------------------------------------------------------
(* The process dies, or releases its context, between any two stores.  The *)
(* next one maps the file, reads it, and calls remove_all: the count is    *)
(* zeroed first, then the slots, in whatever order memset writes them.     *)

Crash ==
  /\ pc # "crashed"
  /\ pc' = "crashed"
  /\ mark_counter' = 0
  /\ raw_index' = 0
  /\ last_mark' = 0
  /\ last_span_id' = 0
  /\ arg' = NoSpan
  /\ copied' = {}
  /\ UNCHANGED file

\* Mutant: the slots are cleared while the count still covers them.
RemoveAllKeepsCount ==
  /\ pc = "crashed"
  /\ pc' = "clear"
  /\ UNCHANGED <<file, mark_counter, locals>>

RemoveAllCount ==
  /\ pc = "crashed"
  /\ active_span_count' = 0
  /\ pc' = "clear"
  /\ UNCHANGED <<mark, span, mark_counter, locals>>

RemoveAllMark(i) ==
  /\ pc = "clear"
  /\ mark[i] # 0
  /\ mark' = [mark EXCEPT ![i] = 0]
  /\ UNCHANGED <<active_span_count, span, mark_counter, pc, locals>>

RemoveAllSpan(i) ==
  /\ pc = "clear"
  /\ span[i] # NoSpan
  /\ span' = [span EXCEPT ![i] = NoSpan]
  /\ UNCHANGED <<active_span_count, mark, mark_counter, pc, locals>>

RemoveAllDone ==
  /\ pc = "clear"
  /\ \A i \in Slot : mark[i] = 0 /\ span[i] = NoSpan
  /\ pc' = "idle"
  /\ UNCHANGED <<file, mark_counter, locals>>

-----------------------------------------------------------------------------
Next ==
  \/ \E s \in Span : MayAdd(s) /\ AddBegin(s)
  \/ \E w \in Word : AddCopy(w)
  \/ AddMark
  \/ AddCount
  \/ \E i \in Slot : Active(i) /\ RemoveLast(i)
  \/ \E i \in Slot : Active(i) /\ RemoveBegin(i)
  \/ \E w \in Word : RemoveCopy(w)
  \/ RemoveMark
  \/ RemoveLastMark
  \/ RemoveCount
  \/ \E i \in Slot, t \in Time : Active(i) /\ SetEndTime(i, t)
  \/ \E i \in Slot, a \in Attributes : Active(i) /\ SetAttributeOnSpan(i, a)
  \/ Crash
  \/ RemoveAllCount
  \/ \E i \in Slot : RemoveAllMark(i)
  \/ \E i \in Slot : RemoveAllSpan(i)
  \/ RemoveAllDone

Spec == Init /\ [][Next]_vars

-----------------------------------------------------------------------------
(* Properties                                                              *)

\* A recovered span is never inconsistent (comments at raw_span_data.h:113
\* and :195): whatever store the process died at, a slot below the count with
\* a nonzero mark holds all the words of one span.
MarkedWhole == \A i \in Slot : Recoverable(i) => Whole(span[i])

\* In the worst case remove duplicates the last span (raw_span_data.h:205):
\* at any store two recoverable slots with the same id are the last slot and
\* one copy of it, equal in span and in mark, and this is only so between the
\* two stores that swap the marks, or after a crash between them.
AtMostOneDuplicate ==
  \A i, j \in Slot :
    /\ Recoverable(i)
    /\ Recoverable(j)
    /\ i < j
    /\ span[i]["span_id"] = span[j]["span_id"]
    => /\ j = last_index
       /\ span[i] = span[j]
       /\ mark[i] = mark[j]
       /\ pc \in {"remove_last_mark", "crashed"}

\* Between calls the active slots are exactly the marked ones and the marks
\* are distinct values of the counter.  This is what the assertions of the
\* next add (raw_span_data.h:111) and the next remove (:184, :188) rest on,
\* and what makes the smallest mark the oldest span.
Quiescent ==
  pc = "idle" =>
    /\ \A i \in Slot : mark[i] # 0 <=> i < active_span_count
    /\ \A i \in Slot : mark[i] <= mark_counter
    /\ \A i, j \in Slot : mark[i] = mark[j] /\ mark[i] # 0 => i = j

\* No store of one operation touches a span the operation was not called on:
\* a recoverable id stays recoverable through every step, except the first
\* store of its own removal and of remove_all (raw_span_data.h:196: a span
\* is never lost while the last one moves into the freed slot).
LiveIds == {s["span_id"] : s \in Live}
OnlyRemovedSpansDisappear ==
  [][\A x \in LiveIds : x \notin LiveIds' =>
       \/ pc = "crashed"
       \/ pc = "idle" /\ raw_index' \in Slot /\ span[raw_index']["span_id"] = x]_vars

\* The file implements the set of spans it promises.  An add counts from the
\* store of the count, a remove from the store that clears the slot's mark.
Promise == INSTANCE SpanSet WITH
             live   <- Live,
             adding <- IF pc \in {"add_span", "add_count"} THEN {arg} ELSE {},
             up     <- pc \notin {"crashed", "clear"},
             Id     <- LAMBDA s : s["span_id"],
             End    <- LAMBDA s, t : [s EXCEPT !["end_time"] = t],
             Attach <- LAMBDA s, a : [s EXCEPT !["attributes"] = a]

\* Every store of add, remove and remove_all is a step of the abstract set or
\* leaves it unchanged, at every point a crash can show it.
ImplementsSpanSet == Promise!Spec

-----------------------------------------------------------------------------
(* The inductive invariant: what each step of each operation has done to   *)
(* the slots so far.                                                       *)

Running == pc \notin {"clear", "crashed"}

\* The marked slots: those below the count, but for the slot an add has
\* marked and not counted, or the one a remove has unmarked and not counted.
MustBeMarked(i) ==
  \/ /\ i < active_span_count
     /\ ~(pc = "remove_span" /\ i = raw_index)
     /\ ~(pc = "remove_count" /\ i = last_index)
  \/ pc = "add_count" /\ i = active_span_count
SlotsMarked == Running => \A i \in Slot : mark[i] # 0 <=> MustBeMarked(i)

\* Marks are distinct values of the counter, except while a mark is swapped.
MarksDistinct ==
  Running =>
    /\ \A i \in Slot : mark[i] <= mark_counter
    /\ \A i, j \in Slot : i < j /\ mark[i] = mark[j] /\ mark[i] # 0 =>
         pc = "remove_last_mark" /\ i = raw_index /\ j = last_index

Adding ==
  pc \in {"add_span", "add_count"} =>
    /\ raw_index = active_span_count
    /\ arg \in Span
    /\ MayAdd(arg)
    /\ \A i \in Slot : i < active_span_count => mark[i] < mark_counter
    /\ mark_counter # 0
    /\ \A w \in copied : span[raw_index][w] = arg[w]
    /\ pc = "add_count" => copied = Word /\ mark[raw_index] = mark_counter

Removing ==
  /\ pc \in {"remove_span", "remove_last_mark"} =>
       /\ raw_index < last_index
       /\ last_mark = mark[last_index]
       /\ last_span_id = span[last_index]["span_id"]
       /\ \A w \in copied : span[raw_index][w] = span[last_index][w]
  /\ pc = "remove_last_mark" => copied = Word /\ mark[raw_index] = last_mark
  /\ pc = "remove_count" =>
       /\ active_span_count # 0
       /\ raw_index <= last_index
       /\ raw_index = last_index => last_span_id = 0
       /\ raw_index < last_index => /\ last_span_id = span[raw_index]["span_id"]
                                    /\ last_span_id = span[last_index]["span_id"]

Clearing == pc = "clear" => active_span_count = 0

IInv ==
  /\ TypeOK
  /\ MarkedWhole
  /\ AtMostOneDuplicate
  /\ SlotsMarked
  /\ MarksDistinct
  /\ Adding
  /\ Removing
  /\ Clearing
=============================================================================
