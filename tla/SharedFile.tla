------------------------------ MODULE SharedFile ------------------------------
(***************************************************************************)
(* Several contexts over one file, as the tests open them                  *)
(* (initialize_tests.cpp:449, 470).  Each has its own mapping, its own map *)
(* from span ids to slots and its own mark counter; count, marks and spans *)
(* are the file's.  An initialization recovers and clears what the other   *)
(* contexts have added, and they are not told.                             *)
(*                                                                         *)
(* Each initialization asks for a size of its own, resizes the file to it  *)
(* and renames the layout in the header.  A context of another size that   *)
(* goes on writing writes where its own layout has slots (mmap_config.h    *)
(* gives a slot 16, 64 or 128 attributes), perhaps past the end of the     *)
(* file: the file is then garbled, and nothing is said of its words until  *)
(* an initialization clears them.                                          *)
(*                                                                         *)
(* Calls do not overlap: a call is one step here.  Assertions are compiled *)
(* in, as in the build the tests run: one that fails ends the process, and *)
(* the next process goes on with the file.                                 *)
(***************************************************************************)
EXTENDS Integers, FiniteSets

CONSTANTS
  SpanId,       \* spans the application adds, each once
  Context,      \* the contexts of a process
  MmapSize,     \* the sizes an initialization may ask for
  max_count,    \* the slots of each
  null

ASSUME ConstantsAssumption ==
  max_count \in [MmapSize -> Nat \ {0}] /\ null \notin SpanId

VARIABLES
  mmap_size, active_span_count, mark, span,   \* the file
  garbled,                         \* whether its words fit another layout than its header's:
                                   \* "never", "now", or "before" it was last cleared
  open,                            \* the contexts there are
  layout,                          \* the size each asked for when it was opened
  is_recovered, recovered_spans, span_id_to_index, mark_counter,   \* of each context
  failed_assertion,                \* the one that ended the last process, if any
  overlapped,                      \* whether a context was opened while another was open
  added, delivered,                \* history: spans added, spans handed over
  touched                          \* history: the last span removed or ended, and by which name

file == <<mmap_size, active_span_count, mark, span, garbled>>
history == <<added, delivered, touched>>
vars == <<mmap_size, active_span_count, mark, span, garbled, open, layout, is_recovered,
          recovered_spans, span_id_to_index, mark_counter, failed_assertion, overlapped,
          added, delivered, touched>>

SlotOf(L) == 0 .. (max_count[L] - 1)
\* Of the layout the header names.
capacity == max_count[mmap_size]
Slot == 0 .. (capacity - 1)
EmptyMap == [x \in {} |-> 0]
Indexed(c) == DOMAIN span_id_to_index[c]
NotTouched == [named |-> null, span |-> null]

TypeOK ==
  /\ mmap_size \in MmapSize
  /\ active_span_count \in 0 .. capacity
  /\ mark \in [Slot -> Nat]
  /\ span \in [Slot -> SpanId \cup {null}]
  /\ garbled \in {"never", "now", "before"}
  /\ open \subseteq Context
  /\ layout \in [Context -> MmapSize]
  /\ is_recovered \in [Context -> BOOLEAN]
  /\ recovered_spans \in [Context -> SUBSET SpanId]
  /\ \A c \in Context : span_id_to_index[c] \in [Indexed(c) -> SlotOf(layout[c])]
  /\ mark_counter \in [Context -> Nat]
  /\ failed_assertion \in {"none", "room", "unmarked", "marked", "active", "access"}
  /\ overlapped \in BOOLEAN
  /\ added \subseteq SpanId /\ delivered \subseteq SpanId

Init ==
  /\ mmap_size \in MmapSize
  /\ active_span_count = 0
  /\ mark = [i \in Slot |-> 0]
  /\ span = [i \in Slot |-> null]
  /\ garbled = "never"
  /\ open = {}
  /\ layout \in [Context -> MmapSize]
  /\ is_recovered = [c \in Context |-> FALSE]
  /\ recovered_spans = [c \in Context |-> {}]
  /\ span_id_to_index = [c \in Context |-> EmptyMap]
  /\ mark_counter = [c \in Context |-> 0]
  /\ failed_assertion = "none"
  /\ overlapped = FALSE
  /\ added = {}
  /\ delivered = {}
  /\ touched = NotTouched

-----------------------------------------------------------------------------
(* Contexts                                                                *)

Closed(c) == /\ is_recovered' = [is_recovered EXCEPT ![c] = FALSE]
             /\ recovered_spans' = [recovered_spans EXCEPT ![c] = {}]
             /\ span_id_to_index' = [span_id_to_index EXCEPT ![c] = EmptyMap]
             /\ mark_counter' = [mark_counter EXCEPT ![c] = 0]

OnDisk == {span[i] : i \in {j \in Slot : j < active_span_count /\ mark[j] # 0}}

\* What the recovery may return.  Of a garbled file it is not said which spans
\* the misread slots hold; ids that are no span's are left out.
Recoverable == IF garbled = "now" THEN SUBSET added ELSE {OnDisk}

\* A file of size L with no span, as remove_all leaves it.
Cleared(L) == /\ mmap_size' = L
              /\ active_span_count' = 0
              /\ mark' = [i \in SlotOf(L) |-> 0]
              /\ span' = [i \in SlotOf(L) |-> null]

\* Mutant: the spans are neither read nor cleared.
InitializeKeepsFile(c, L) ==
  /\ c \notin open
  /\ L = mmap_size
  /\ open' = open \cup {c}
  /\ layout' = [layout EXCEPT ![c] = L]
  /\ Closed(c)
  /\ failed_assertion' = "none"
  /\ overlapped' = (overlapped \/ open # {})
  /\ UNCHANGED <<file, history>>

\* Mutant: the spans are read and not cleared.
InitializeUncleared(c, L) ==
  /\ c \notin open
  /\ L = mmap_size
  /\ open' = open \cup {c}
  /\ layout' = [layout EXCEPT ![c] = L]
  /\ recovered_spans' = [recovered_spans EXCEPT ![c] = OnDisk]
  /\ failed_assertion' = "none"
  /\ overlapped' = (overlapped \/ open # {})
  /\ UNCHANGED <<file, is_recovered, span_id_to_index, mark_counter, history>>

initialize_span_data(c, L) ==
  /\ c \notin open
  /\ open' = open \cup {c}
  /\ layout' = [layout EXCEPT ![c] = L]
  /\ \E spans \in Recoverable : recovered_spans' = [recovered_spans EXCEPT ![c] = spans]
  /\ Cleared(L)
  /\ garbled' = IF garbled = "never" THEN "never" ELSE "before"
  /\ failed_assertion' = "none"
  /\ overlapped' = (overlapped \/ open # {})
  /\ UNCHANGED <<is_recovered, span_id_to_index, mark_counter, history>>

get_recovered_spans(c) ==
  /\ c \in open
  /\ ~is_recovered[c]
  /\ is_recovered' = [is_recovered EXCEPT ![c] = TRUE]
  /\ delivered' = delivered \cup recovered_spans[c]
  /\ recovered_spans' = [recovered_spans EXCEPT ![c] = {}]
  /\ UNCHANGED <<file, open, layout, span_id_to_index, mark_counter, failed_assertion,
                 overlapped, added, touched>>

release_span_data(c) ==
  /\ c \in open
  /\ open' = open \ {c}
  /\ Closed(c)
  /\ UNCHANGED <<file, layout, failed_assertion, overlapped, history>>

\* The process ends, by itself, by an assertion, or by an access the kernel
\* refuses.
Ends(assertion) ==
  /\ failed_assertion' = assertion
  /\ open' = {}
  /\ is_recovered' = [c \in Context |-> FALSE]
  /\ recovered_spans' = [c \in Context |-> {}]
  /\ span_id_to_index' = [c \in Context |-> EmptyMap]
  /\ mark_counter' = [c \in Context |-> 0]
  /\ overlapped' = FALSE
  /\ touched' = NotTouched
  /\ UNCHANGED <<layout, added, delivered>>

Exit == open # {} /\ Ends("none") /\ UNCHANGED file

\* In a garbled file the recovery may take other words for the number of a
\* span's attributes, or find no NUL after its name, and read on past the end.
DiesRecovering == garbled = "now" /\ Ends("access") /\ UNCHANGED file

-----------------------------------------------------------------------------
(* RawSpanData.  What a call leaves in the file, or the assertion it fails, *)
(* from a state of the file that is not always the current one: add comes  *)
(* after a removal in the same call.                                       *)

Now == [count |-> active_span_count, mark |-> mark, span |-> span]
Writes(f) == /\ active_span_count' = f.count /\ mark' = f.mark /\ span' = f.span
             /\ UNCHANGED <<mmap_size, garbled>>

AddFails(f) == IF f.count >= capacity THEN "room"
               ELSE IF f.mark[f.count] # 0 THEN "unmarked" ELSE "none"
Added(f, s, m) == [count |-> f.count + 1,
                   mark  |-> [f.mark EXCEPT ![f.count] = m],
                   span  |-> [f.span EXCEPT ![f.count] = s]]

\* Mutant of RemoveFails: only the span of the last slot is asserted to be there.
RemoveFailsLast(f, i) == IF f.count = 0 THEN "marked" ELSE "none"

RemoveFails(f, i) == IF f.mark[i] = 0 THEN "marked"
                     ELSE IF i >= f.count THEN "active"
                     ELSE IF f.mark[f.count - 1] = 0 THEN "marked" ELSE "none"
\* The span of the last slot, if it is another, moves to slot i.
Removed(f, i) == [count |-> f.count - 1,
                  mark  |-> [f.mark EXCEPT ![i] = f.mark[f.count - 1], ![f.count - 1] = 0],
                  span  |-> [f.span EXCEPT ![i] = f.span[f.count - 1]]]

\* span_id_to_index_ of c after it removed x from slot i.
Reindexed(c, x, i) ==
  LET moved == IF i = active_span_count - 1 THEN null ELSE span[active_span_count - 1]
      all == Indexed(c) \cup ({moved} \ {null})
  IN  [y \in all \ {x} |-> IF y = moved THEN i ELSE span_id_to_index[c][y]]

-----------------------------------------------------------------------------
(* MutableSpanData, which get_mutable_span_data returns once the recovered *)
(* spans are taken.                                                        *)

Usable(c) == c \in open /\ is_recovered[c]

\* The slots of c are those of the file.
Fits(c) == layout[c] = mmap_size /\ garbled # "now"

OldestSlot == CHOOSE i \in Slot :
                /\ i < active_span_count
                /\ \A j \in Slot : j < active_span_count =>
                     mark[i] < mark[j] \/ (mark[i] = mark[j] /\ i <= j)

\* A context whose store is full removes the oldest span, if it is in its map.
Evicts(c) == active_span_count = capacity /\ span[OldestSlot] \in Indexed(c)
EvictedIndex(c) == span_id_to_index[c][span[OldestSlot]]

Add(c, s) ==
  /\ Usable(c) /\ Fits(c)
  /\ s \notin added
  /\ LET evicts == Evicts(c)
         fails == IF evicts THEN RemoveFails(Now, EvictedIndex(c)) ELSE "none"
         left == IF evicts /\ fails = "none" THEN Removed(Now, EvictedIndex(c)) ELSE Now
         map == IF evicts THEN Reindexed(c, span[OldestSlot], EvictedIndex(c))
                ELSE span_id_to_index[c]
     IN  \/ /\ fails # "none"
            /\ Ends(fails)
            /\ UNCHANGED file
         \/ /\ fails = "none" /\ AddFails(left) # "none"
            /\ Ends(AddFails(left))
            /\ Writes(left)
         \/ /\ fails = "none" /\ AddFails(left) = "none"
            /\ Writes(Added(left, s, mark_counter[c] + 1))
            /\ mark_counter' = [mark_counter EXCEPT ![c] = @ + 1]
            /\ span_id_to_index' =
                 [span_id_to_index EXCEPT ![c] =
                    [y \in DOMAIN map \cup {s} |-> IF y \in DOMAIN map THEN map[y] ELSE left.count]]
            /\ added' = added \cup {s}
            /\ UNCHANGED <<open, layout, is_recovered, recovered_spans, failed_assertion,
                           overlapped, delivered>>
  /\ touched' = NotTouched

Remove(c, x) ==
  /\ Usable(c) /\ Fits(c)
  /\ x \in Indexed(c)
  /\ LET i == span_id_to_index[c][x]
         fails == RemoveFails(Now, i)
     IN  \/ fails # "none" /\ Ends(fails) /\ UNCHANGED file
         \/ /\ fails = "none"
            /\ Writes(Removed(Now, i))
            /\ span_id_to_index' = [span_id_to_index EXCEPT ![c] = Reindexed(c, x, i)]
            /\ touched' = [named |-> x, span |-> span[i]]
            /\ UNCHANGED <<open, layout, is_recovered, recovered_spans, mark_counter,
                           failed_assertion, overlapped, added, delivered>>

\* end writes a time into the slot, if the assertions of set_end_time hold.
EndFails(i) == IF i >= active_span_count THEN "active"
               ELSE IF mark[i] = 0 THEN "marked" ELSE "none"

End(c, x) ==
  /\ Usable(c) /\ Fits(c)
  /\ x \in Indexed(c)
  /\ LET i == span_id_to_index[c][x]
     IN  \/ EndFails(i) # "none" /\ Ends(EndFails(i))
         \/ /\ EndFails(i) = "none"
            /\ touched' = [named |-> x, span |-> span[i]]
            /\ UNCHANGED <<open, layout, is_recovered, recovered_spans, span_id_to_index,
                           mark_counter, failed_assertion, overlapped, added, delivered>>
  /\ UNCHANGED file

\* A call on a context whose slots are not the file's reads and writes where
\* its own layout has them, of which some may be past the end of the file.
\* More is allowed than can happen: it dies, before or after it wrote, or it
\* returns; the words of the file, and with them the slots the context then
\* has for its spans, are not followed any further.
Garbles == Cleared(mmap_size) /\ garbled' = "now"

MisplacedReturns(c) ==
  /\ Garbles
  /\ \E ids \in SUBSET SpanId : \E map \in [ids -> SlotOf(layout[c])] :
       span_id_to_index' = [span_id_to_index EXCEPT ![c] = map]
  /\ \/ \E s \in SpanId \ added : /\ added' = added \cup {s}
                                  /\ touched' = NotTouched
                                  /\ mark_counter' = [mark_counter EXCEPT ![c] = @ + 1]
     \/ \E x \in Indexed(c) : /\ touched' = [named |-> x, span |-> null]
                             /\ UNCHANGED <<added, mark_counter>>
  /\ UNCHANGED <<open, layout, is_recovered, recovered_spans, failed_assertion, overlapped,
                 delivered>>

MisplacedCall(c) ==
  /\ Usable(c) /\ ~Fits(c)
  /\ \/ /\ \E a \in {"room", "unmarked", "marked", "active", "access"} : Ends(a)
        /\ UNCHANGED file \/ Garbles
     \/ MisplacedReturns(c)

Next ==
  \/ \E c \in Context : \/ \E L \in MmapSize : initialize_span_data(c, L)
                        \/ MisplacedCall(c)
                        \/ get_recovered_spans(c)
                        \/ release_span_data(c)
                        \/ \E s \in SpanId : Add(c, s) \/ Remove(c, s) \/ End(c, s)
  \/ DiesRecovering
  \/ Exit

Spec == Init /\ [][Next]_vars

-----------------------------------------------------------------------------
(* Properties                                                              *)

\* However the contexts of the file's size get in each other's way, with
\* contexts of other sizes open beside them, the file stays one that the next
\* process can recover from: the marked slots are those below the count (the
\* assertions at raw_span_data.h:110, 183-188).  Once a context of another size
\* has written that is over, until an initialization clears the file.
SlotsConsistent ==
  garbled # "now" => \A i \in Slot : mark[i] # 0 <=> i < active_span_count

\* A span is handed over once, by whichever context: what one of them took,
\* none finds in the file or still has to hand over (initialize.h:48); as long
\* as no context has written into a file of another size.
DeliveredOnce ==
  garbled = "never" =>
    /\ delivered \cap OnDisk = {}
    /\ \A c \in Context : recovered_spans[c] \cap (delivered \cup OnDisk) = {}
    /\ \A c, d \in Context : c # d => recovered_spans[c] \cap recovered_spans[d] = {}

\* A process that never has two contexts on the file at a time fails no
\* assertion, and removes and ends the spans it names, however many it opens
\* one after the other, of whatever sizes, and whatever the processes before it
\* left in the file; unless that is garbled, when opening it may be fatal.
\* (Two at a time do: initialize_tests.cpp:487 has the simplest way to die, and
\* when the second context has added a span by then, the first removes or ends
\* that.)
OneAtATimeIsSafe ==
  [][\/ failed_assertion' \notin {"none", failed_assertion}
     \/ touched'.named # touched'.span
     => overlapped \/ garbled = "now"]_vars
=============================================================================
