----------------------------- MODULE Initialize -----------------------------
(***************************************************************************)
(* initialize_span_data, the Context it returns, and the file between the  *)
(* processes that open it: recovery, resizing, resetting and clearing,     *)
(* with a crash possible after every system call and store, and a failure  *)
(* possible in every system call.                                          *)
(*                                                                         *)
(* The file is an array of words.  Word 0 is the header, kept here as a    *)
(* record; a layout lays its slots out from word 1, and the first word of  *)
(* a slot is its mark.  A word written with the k-th word of span s under  *)
(* layout L has the value <<s, L, k>>, so that reading words under another *)
(* layout, or words of which some were cut off, shows.  A span is added in *)
(* one step here; RawSpanData has the stores it is made of.                *)
(***************************************************************************)
EXTENDS Integers, FiniteSets

CONSTANTS
  SpanId,            \* spans the application adds, each once
  MmapSize,          \* the layouts
  max_spans,         \* mmap_config<L>.max_spans, for each layout L
  slot_words,        \* words of a marked span, for each layout L
  page_words,        \* get_page_size()
  reset_order        \* the stores of reset_header, in their order

ASSUME LayoutAssumption ==
  /\ IsFiniteSet(MmapSize)
  /\ max_spans \in [MmapSize -> Nat \ {0}]
  /\ slot_words \in [MmapSize -> Nat \ {0}]
  /\ page_words \in Nat \ {0}
  /\ "old" \notin MmapSize

ResetStores == {"reset_count", "reset_size", "reset_version", "reset_signature"}

ASSUME ResetOrderAssumption ==
  /\ reset_order \in [1 .. 4 -> ResetStores]
  /\ \A store \in ResetStores : \E i \in 1 .. 4 : reset_order[i] = store

VARIABLES
  (* the file *)
  file_size,         \* st_size, in words
  header,            \* layout_->header
  words,             \* the words after the header, Zero where nothing is stored
  (* the process *)
  pc,                \* where initialize_span_data, or the context, stands
  target_size,       \* its argument
  original_size,     \* the size fstat reported
  recovered_spans,   \* what was read and not handed over yet
  is_recovered,      \* Context::is_recovered_
  (* what the application saw *)
  added,             \* the spans ever added
  delivered          \* the ids of the spans get_recovered_spans ever returned

file == <<file_size, header, words>>
history == <<added, delivered>>
process == <<target_size, original_size, recovered_spans, is_recovered>>
vars == <<file_size, header, words, pc, target_size, original_size,
          recovered_spans, is_recovered, added, delivered>>

-----------------------------------------------------------------------------
(* Layouts                                                                 *)

get_memory_layout_size(L) == 1 + max_spans[L] * slot_words[L]
get_aligned_size(L) ==
  ((get_memory_layout_size(L) + page_words - 1) \div page_words) * page_words
required_size == get_aligned_size(target_size)

Largest == CHOOSE n \in {get_aligned_size(L) : L \in MmapSize} :
             \A L \in MmapSize : get_aligned_size(L) <= n
Word == 1 .. (Largest - 1)
Zero == << >>
\* The layouts of an older version of the library are no layouts of this one.
OldLayout == "old"
WordOf(L) == {<<s, L, k>> : s \in SpanId, k \in 0 .. (slot_words[L] - 1)}
OldWord == {<<s, OldLayout, 0>> : s \in SpanId}
Value == {Zero} \cup OldWord \cup (UNION {WordOf(L) : L \in MmapSize})

SlotStart(L, i) == 1 + i * slot_words[L]
SlotWords(L, i) == {SlotStart(L, i) + k : k \in 0 .. (slot_words[L] - 1)}
\* Mutant of LayoutWords: only the first slot is cleared.
FirstSlotWords(L) == 1 .. slot_words[L]

\* sizeof(marked_spans), which remove_all clears
LayoutWords(L) == 1 .. (get_memory_layout_size(L) - 1)

Header == [signature : BOOLEAN, version : {1, 2}, mmap_size : MmapSize,
           active_span_count : Nat]

-----------------------------------------------------------------------------
(* What an initialization reads from the file                              *)

is_header_valid == header.signature
\* Mutant: any version will do.
AnyVersion == TRUE

is_header_version_current == header.version = 2

\* What is read from slot i: a span, with all the words it was added with or not.
\* The first word holds the mark and the id.
SpanAt(L, i) ==
  LET id == words[SlotStart(L, i)][1]
  IN  [span_id |-> id,
       whole   |-> \A k \in 0 .. (slot_words[L] - 1) :
                     words[SlotStart(L, i) + k] = <<id, L, k>>]
RecoveredSpan == [span_id : SpanId, whole : BOOLEAN]
Ids(spans) == {r.span_id : r \in spans}

should_do_recovery ==
  /\ is_header_valid
  /\ is_header_version_current
  /\ file_size >= get_memory_layout_size(header.mmap_size)
  /\ header.active_span_count > 0

\* The slots of the recovery loop, which skips those whose mark is zero.
RecoveredSlots ==
  {i \in 0 .. (header.active_span_count - 1) :
     words[SlotStart(header.mmap_size, i)] # Zero}

\* The spans the next initialization would read.
OnDisk == IF file_size >= page_words /\ should_do_recovery
          THEN {SpanAt(header.mmap_size, i) : i \in RecoveredSlots}
          ELSE {}

-----------------------------------------------------------------------------
PC == {"none", "opened", "truncate", "map",
       "remove_all_count", "remove_all_words", "ready"} \cup ResetStores

TypeOK ==
  /\ file_size \in 0 .. Largest
  /\ header \in Header
  /\ header.active_span_count <= max_spans[header.mmap_size]
  /\ words \in [Word -> Value]
  /\ pc \in PC
  /\ target_size \in MmapSize
  /\ original_size \in 0 .. Largest
  /\ recovered_spans \subseteq RecoveredSpan
  /\ is_recovered \in BOOLEAN
  /\ added \subseteq SpanId
  /\ delivered \subseteq SpanId

\* No context, and no initialization under way.
NoProcess == /\ pc' = "none"
             /\ original_size' = 0
             /\ recovered_spans' = {}
             /\ is_recovered' = FALSE
             /\ UNCHANGED target_size

\* A file that does not exist yet, or one an older version of the library left,
\* of a size and with words where layout L has them.
NewFile == /\ file_size = 0
           /\ header = [signature |-> FALSE, version |-> 1,
                        mmap_size |-> CHOOSE L \in MmapSize : TRUE,
                        active_span_count |-> 0]
           /\ words = [w \in Word |-> Zero]
OldFile == \E L \in MmapSize, s \in SpanId :
             /\ file_size = get_aligned_size(L)
             /\ header = [signature |-> TRUE, version |-> 1, mmap_size |-> L,
                          active_span_count |-> 1]
             /\ words = [w \in Word |-> IF w <= slot_words[L] THEN <<s, OldLayout, 0>> ELSE Zero]

Init == /\ NewFile \/ OldFile
        /\ pc = "none"
        /\ target_size \in MmapSize
        /\ original_size = 0
        /\ recovered_spans = {}
        /\ is_recovered = FALSE
        /\ added = {}
        /\ delivered = {}

-----------------------------------------------------------------------------
(* initialize_span_data.  When open, fstat, mmap or ftruncate fails it      *)
(* returns nullptr and holds nothing; open and fstat have changed nothing   *)
(* by then.                                                                *)

Open(L) ==
  /\ pc = "none"
  /\ target_size' = L
  /\ original_size' = file_size
  /\ pc' = "opened"
  /\ UNCHANGED <<file, recovered_spans, is_recovered, history>>

\* Mutant: the mapping that is kept is not cleared.
RecoverKeepsSpans ==
  /\ pc = "opened"
  /\ original_size >= page_words
  /\ recovered_spans' = OnDisk
  /\ pc' = IF /\ should_do_recovery
              /\ header.mmap_size = target_size
              /\ original_size = required_size
           THEN "ready" ELSE "truncate"
  /\ UNCHANGED <<file, target_size, original_size, is_recovered, history>>

\* Mutant: a file of another layout is resized without being read.
RecoverSameSize ==
  /\ pc = "opened"
  /\ original_size >= page_words
  /\ recovered_spans' = IF header.mmap_size = target_size THEN OnDisk ELSE {}
  /\ pc' = IF /\ should_do_recovery
              /\ header.mmap_size = target_size
              /\ original_size = required_size
           THEN "remove_all_count" ELSE "truncate"
  /\ UNCHANGED <<file, target_size, original_size, is_recovered, history>>

\* Map the file as it is, read the spans, and keep the mapping if it fits.
Recover ==
  /\ pc = "opened"
  /\ original_size >= page_words
  /\ recovered_spans' = OnDisk
  /\ pc' = IF /\ should_do_recovery
              /\ header.mmap_size = target_size
              /\ original_size = required_size
           THEN "remove_all_count" ELSE "truncate"
  /\ UNCHANGED <<file, target_size, original_size, is_recovered, history>>

SkipRecovery ==
  /\ pc = "opened"
  /\ original_size < page_words
  /\ pc' = "truncate"
  /\ UNCHANGED <<file, process, history>>

\* Mutant: the file is emptied before it gets its new size.
TruncateToNothing ==
  /\ pc = "truncate"
  /\ file_size' = required_size
  /\ header' = [header EXCEPT !.signature = FALSE, !.active_span_count = 0]
  /\ words' = [w \in Word |-> Zero]
  /\ pc' = "map"
  /\ UNCHANGED <<process, history>>

Truncate ==
  /\ pc = "truncate"
  /\ file_size' = required_size
  /\ words' = [w \in Word |-> IF w < required_size THEN words[w] ELSE Zero]
  /\ pc' = "map"
  /\ UNCHANGED <<header, process, history>>

Map ==
  /\ pc = "map"
  /\ pc' = reset_order[1]
  /\ UNCHANGED <<file, process, history>>

SystemCallFails ==
  /\ \/ pc = "opened" /\ original_size >= page_words
     \/ pc \in {"truncate", "map"}
  /\ NoProcess
  /\ UNCHANGED <<file, history>>

(* reset_header, store by store.  The source has them in the order below;  *)
(* reset_order is a parameter so that it can be said what that order is    *)
(* good for.                                                               *)
AfterReset(store) ==
  LET i == CHOOSE j \in 1 .. 4 : reset_order[j] = store
  IN  IF i = 4 THEN "remove_all_count" ELSE reset_order[i + 1]

\* Mutant: the count of the old layout stays.
ResetCountForgotten ==
  /\ pc = "reset_count"
  /\ pc' = AfterReset("reset_count")
  /\ UNCHANGED <<file, process, history>>

ResetCount ==
  /\ pc = "reset_count"
  /\ header' = [header EXCEPT !.active_span_count = 0]
  /\ pc' = AfterReset("reset_count")
  /\ UNCHANGED <<file_size, words, process, history>>

ResetSize ==
  /\ pc = "reset_size"
  /\ header' = [header EXCEPT !.mmap_size = target_size]
  /\ pc' = AfterReset("reset_size")
  /\ UNCHANGED <<file_size, words, process, history>>

ResetVersion ==
  /\ pc = "reset_version"
  /\ header' = [header EXCEPT !.version = 2]
  /\ pc' = AfterReset("reset_version")
  /\ UNCHANGED <<file_size, words, process, history>>

ResetSignature ==
  /\ pc = "reset_signature"
  /\ header' = [header EXCEPT !.signature = TRUE]
  /\ pc' = AfterReset("reset_signature")
  /\ UNCHANGED <<file_size, words, process, history>>

(* The constructor of Context: remove_all.  memset writes the slots of the *)
(* layout in the header, in an order of its own.                           *)
RemoveAllCount ==
  /\ pc = "remove_all_count"
  /\ header' = [header EXCEPT !.active_span_count = 0]
  /\ pc' = "remove_all_words"
  /\ UNCHANGED <<file_size, words, process, history>>

RemoveAllWord(w) ==
  /\ pc = "remove_all_words"
  /\ w \in LayoutWords(header.mmap_size)
  /\ words[w] # Zero
  /\ words' = [words EXCEPT ![w] = Zero]
  /\ UNCHANGED <<file_size, header, pc, process, history>>

RemoveAllDone ==
  /\ pc = "remove_all_words"
  /\ \A w \in LayoutWords(header.mmap_size) : words[w] = Zero
  /\ pc' = "ready"
  /\ UNCHANGED <<file, process, history>>

-----------------------------------------------------------------------------
(* The context                                                             *)

\* Mutant: the spans are marked as taken, and nobody gets them.
get_recovered_spans_drops ==
  /\ pc = "ready"
  /\ ~is_recovered
  /\ is_recovered' = TRUE
  /\ recovered_spans' = {}
  /\ UNCHANGED <<file, pc, target_size, original_size, history>>

get_recovered_spans ==
  /\ pc = "ready"
  /\ ~is_recovered
  /\ is_recovered' = TRUE
  /\ delivered' = delivered \cup Ids(recovered_spans)
  /\ recovered_spans' = {}
  /\ UNCHANGED <<file, pc, target_size, original_size, added>>

\* MutableSpanData::add, through get_mutable_span_data, which returns nullptr
\* until the recovered spans are taken.
Add(s) ==
  /\ pc = "ready"
  /\ is_recovered
  /\ s \notin added
  /\ header.active_span_count < max_spans[header.mmap_size]
  /\ LET L == header.mmap_size
         start == SlotStart(L, header.active_span_count)
     IN  words' = [w \in Word |->
                     IF w \in SlotWords(L, header.active_span_count)
                     THEN <<s, L, w - start>> ELSE words[w]]
  /\ header' = [header EXCEPT !.active_span_count = @ + 1]
  /\ added' = added \cup {s}
  /\ UNCHANGED <<file_size, pc, process, delivered>>

release_span_data ==
  /\ pc = "ready"
  /\ NoProcess
  /\ UNCHANGED <<file, history>>

\* The process dies inside initialize_span_data or with a context open.
Crash ==
  /\ pc # "none"
  /\ NoProcess
  /\ UNCHANGED <<file, history>>

-----------------------------------------------------------------------------
\* The steps of initialize_span_data that succeed, after Open.
Initializes ==
  \/ Recover
  \/ SkipRecovery
  \/ Truncate
  \/ Map
  \/ ResetCount
  \/ ResetSize
  \/ ResetVersion
  \/ ResetSignature
  \/ RemoveAllCount
  \/ \E w \in Word : RemoveAllWord(w)
  \/ RemoveAllDone

Opens == \E L \in MmapSize : Open(L)

Next ==
  \/ Opens
  \/ Initializes
  \/ SystemCallFails
  \/ get_recovered_spans
  \/ \E s \in SpanId : Add(s)
  \/ release_span_data
  \/ Crash

Spec == Init /\ [][Next]_vars

-----------------------------------------------------------------------------
(* Properties                                                              *)

\* Whatever sequence of sizes, failures and crashes came before, the words an
\* initialization takes for spans were written under the layout it reads them
\* with: reset_header zeroes the count before it names the new layout, and an
\* older version's spans are never taken for current ones (header.cpp:50).
ReadsOwnLayout ==
  OnDisk # {} =>
    \A i \in RecoveredSlots, w \in Word :
      w \in SlotWords(header.mmap_size, i) /\ words[w] # Zero =>
        words[w][2] = header.mmap_size

\* A span reaches the application at most once (initialize.h:48): when it has
\* been handed over, neither the file nor any process can produce it again,
\* whatever crashes come next.
AtMostOnce == delivered \cap Ids(OnDisk \cup recovered_spans) = {}

\* A span leaves the disk only when the process that takes it off has read it:
\* every step keeps it on disk or leaves it in recovered_spans, to be handed
\* over.  The exception is a file an interrupted initialization had cut shorter
\* than the layout its header names: the next one does not read it.
WasCut == original_size < get_memory_layout_size(header.mmap_size)
LeavesDiskIntoMemory ==
  [][\A r \in OnDisk : r \in OnDisk' \/ r \in recovered_spans' \/ WasCut]_vars

\* An initialization that returns nullptr has lost nothing: what it read is
\* still on disk for the next one, unless it had already cut the file short.
FailureKeepsSpans ==
  [][SystemCallFails =>
       recovered_spans \subseteq OnDisk' \/ file_size < original_size]_vars

\* A context starts from an empty store of the size asked for, in which every
\* slot add will use is zero, whatever the file held and however the processes
\* before ended (the assertion at raw_span_data.h:111).
StartsClean ==
  pc = "ready" =>
    /\ header.signature /\ header.version = 2 /\ header.mmap_size = target_size
    /\ file_size = required_size
    /\ \A i \in 0 .. (max_spans[target_size] - 1) :
         i >= header.active_span_count =>
           \A w \in SlotWords(target_size, i) : words[w] = Zero

\* Every recovered span is as it was added: a recovered span is never
\* inconsistent (raw_span_data.h:113).
RecoversWholeSpans == \A r \in recovered_spans : r.whole
=============================================================================
