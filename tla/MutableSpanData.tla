-------------------------- MODULE MutableSpanData --------------------------
(***************************************************************************)
(* MutableSpanData: what the application calls.  It finds a span's slot in *)
(* span_id_to_index_, a map of the process that a crash forgets, and makes *)
(* room for a new span by removing the one with the smallest mark.         *)
(*                                                                         *)
(* The stores into the file are those of RawSpanData.  What happens only   *)
(* in the process' memory (looking up the map, scanning the marks,         *)
(* updating the map after the last store) is part of the step of the store *)
(* it comes right before or right after: a crash cannot tell them apart,   *)
(* and no second thread runs these operations.                             *)
(***************************************************************************)
EXTENDS Integers, FiniteSets

CONSTANTS SpanId, Time, Attributes, MaxSpans, MaxMark   \* as in RawSpanData

ASSUME ConstantsAssumption ==
  MaxSpans \in Nat \ {0} /\ MaxMark \in Nat /\ 0 \notin SpanId

VARIABLES active_span_count, mark, span,
          mark_counter, pc, raw_index, last_mark, last_span_id, arg, copied

VARIABLES
  span_id_to_index,   \* MutableSpanData::span_id_to_index_
  method,             \* the call under way, if any
  add_argument,       \* add: the span
  remove_argument     \* remove: the id, be it the caller's or the oldest's

Raw == INSTANCE RawSpanData

raw_vars == Raw!vars
vars == <<raw_vars, span_id_to_index, method, add_argument, remove_argument>>
calls == <<method, add_argument, remove_argument>>

-----------------------------------------------------------------------------
Slot == Raw!Slot
Span == Raw!Span
Indexed == DOMAIN span_id_to_index
EmptyMap == [x \in {} |-> 0]

Method == {"none", "add", "add_evict", "remove"}

\* Nothing is under way and no operation is in the middle of its stores.
Idle == pc = "idle" /\ method = "none"

NoCall == method = "none" /\ add_argument = Raw!NoSpan /\ remove_argument = 0
CallEnds == method' = "none" /\ add_argument' = Raw!NoSpan /\ remove_argument' = 0

\* Mutant: the scan keeps the largest mark.
NewestSlot == CHOOSE i \in Slot :
                /\ i < active_span_count
                /\ \A j \in Slot : j < active_span_count => mark[i] >= mark[j]

\* The slot add's scan settles on: the first with the smallest mark.
OldestSlot == CHOOSE i \in Slot :
                /\ i < active_span_count
                /\ \A j \in Slot : j < active_span_count =>
                     mark[i] < mark[j] \/ (mark[i] = mark[j] /\ i <= j)
OldestSpanId == span[OldestSlot]["span_id"]

\* Mutant: the moved span keeps its old index.
ReindexedForgotten(id, index, moved) ==
  [x \in Indexed \ {id} |-> span_id_to_index[x]]

\* The map after impl_.remove(index) returned `moved': the span that took the
\* slot is found there, and the removed id is forgotten.
Reindexed(id, index, moved) ==
  LET reindexed == IF moved # 0
                   THEN [x \in Indexed \cup {moved} |->
                           IF x = moved THEN index ELSE span_id_to_index[x]]
                   ELSE span_id_to_index
  IN  [x \in DOMAIN reindexed \ {id} |-> reindexed[x]]

TypeOK ==
  /\ Raw!TypeOK
  /\ Indexed \in SUBSET SpanId
  /\ span_id_to_index \in [Indexed -> Slot]
  /\ method \in Method
  /\ add_argument \in Span \cup {Raw!NoSpan}
  /\ remove_argument \in SpanId \cup {0}

Init == /\ Raw!Init
        /\ span_id_to_index = EmptyMap
        /\ NoCall

-----------------------------------------------------------------------------
(* impl_.remove(i), up to its first store                                  *)
RemoveStart(i) == Raw!RemoveLast(i) \/ Raw!RemoveBegin(i)

(* add.  A span whose id is in the map is ignored: no step.                *)

\* Mutant: an id the store already holds is added again.
AddAgain(s) ==
  /\ Idle
  /\ active_span_count # MaxSpans
  /\ Raw!AddBegin(s)
  /\ method' = "add"
  /\ add_argument' = s
  /\ UNCHANGED <<span_id_to_index, remove_argument>>

AddWithRoom(s) ==
  /\ Idle
  /\ s["span_id"] \notin Indexed
  /\ active_span_count # MaxSpans
  /\ Raw!AddBegin(s)
  /\ method' = "add"
  /\ add_argument' = s
  /\ UNCHANGED <<span_id_to_index, remove_argument>>

\* The store is full: remove(oldest_span_id) comes first.
AddWhenFull(s) ==
  /\ Idle
  /\ s["span_id"] \notin Indexed
  /\ active_span_count = MaxSpans
  /\ mark_counter < MaxMark
  /\ OldestSpanId \in Indexed
  /\ RemoveStart(span_id_to_index[OldestSpanId])
  /\ method' = "add_evict"
  /\ add_argument' = s
  /\ remove_argument' = OldestSpanId
  /\ UNCHANGED span_id_to_index

EvictReturns ==
  /\ method = "add_evict"
  /\ Raw!RemoveCount
  /\ span_id_to_index' = Reindexed(remove_argument, raw_index, last_span_id)
  /\ method' = "add"
  /\ remove_argument' = 0
  /\ UNCHANGED add_argument

AddAfterEvict ==
  /\ method = "add"
  /\ Raw!AddBegin(add_argument)
  /\ UNCHANGED <<span_id_to_index, calls>>

\* Mutant: the new span never gets into the map.
AddReturnsUnindexed ==
  /\ method = "add"
  /\ Raw!AddCount
  /\ UNCHANGED span_id_to_index
  /\ CallEnds

AddReturns ==
  /\ method = "add"
  /\ Raw!AddCount
  /\ span_id_to_index' = [x \in Indexed \cup {add_argument["span_id"]} |->
                            IF x \in Indexed THEN span_id_to_index[x] ELSE raw_index]
  /\ CallEnds

-----------------------------------------------------------------------------
(* remove, end and set_attribute_on_span.  An id that is not in the map is *)
(* ignored: no step.                                                       *)

RemoveSpan(x) ==
  /\ Idle
  /\ x \in Indexed
  /\ RemoveStart(span_id_to_index[x])
  /\ method' = "remove"
  /\ remove_argument' = x
  /\ UNCHANGED <<span_id_to_index, add_argument>>

RemoveReturns ==
  /\ method = "remove"
  /\ Raw!RemoveCount
  /\ span_id_to_index' = Reindexed(remove_argument, raw_index, last_span_id)
  /\ CallEnds

\* An end time of zero is replaced by the current time, so t is never zero.
EndSpan(x, t) ==
  /\ Idle
  /\ x \in Indexed
  /\ Raw!SetEndTime(span_id_to_index[x], t)
  /\ UNCHANGED <<span_id_to_index, calls>>

SetAttributeOnSpan(x, a) ==
  /\ Idle
  /\ x \in Indexed
  /\ Raw!SetAttributeOnSpan(span_id_to_index[x], a)
  /\ UNCHANGED <<span_id_to_index, calls>>

-----------------------------------------------------------------------------
(* The stores in between belong to RawSpanData alone.                      *)
RawStore ==
  /\ \/ \E w \in Raw!Word : Raw!AddCopy(w) \/ Raw!RemoveCopy(w)
     \/ Raw!AddMark
     \/ Raw!RemoveMark
     \/ Raw!RemoveLastMark
  /\ UNCHANGED <<span_id_to_index, calls>>

(* A crash, or the release of the context, takes the map with it; the next *)
(* process clears the store before it offers the new, empty map.           *)
Crash ==
  /\ Raw!Crash
  /\ span_id_to_index' = EmptyMap
  /\ CallEnds

RemoveAll ==
  /\ \/ Raw!RemoveAllCount
     \/ \E i \in Slot : Raw!RemoveAllMark(i) \/ Raw!RemoveAllSpan(i)
     \/ Raw!RemoveAllDone
  /\ UNCHANGED <<span_id_to_index, calls>>

Next ==
  \/ \E s \in Span : AddWithRoom(s)
  \/ \E s \in Span : AddWhenFull(s)
  \/ EvictReturns
  \/ AddAfterEvict
  \/ AddReturns
  \/ \E x \in SpanId : RemoveSpan(x)
  \/ RemoveReturns
  \/ \E x \in SpanId, t \in Time : EndSpan(x, t)
  \/ \E x \in SpanId, a \in Attributes : SetAttributeOnSpan(x, a)
  \/ RawStore
  \/ Crash
  \/ RemoveAll

Spec == Init /\ [][Next]_vars

-----------------------------------------------------------------------------
(* Properties                                                              *)

\* Whenever the application may call, the map and the slots agree: exactly
\* the active spans are in the map, and the slot found there holds that span,
\* whatever slots the removals before have moved it through.  A stale index
\* would end, remove or evict a span the application did not name.
IndexFindsItsSpan ==
  Idle => /\ Indexed = {span[i]["span_id"] : i \in {j \in Slot : Raw!Active(j)}}
          /\ \A x \in Indexed : /\ span_id_to_index[x] < active_span_count
                                /\ span[span_id_to_index[x]]["span_id"] = x

\* Every call add, remove and end make on the slots is one RawSpanData allows:
\* there is room for the span added, its id is not active, and the indices
\* are those of active slots (the assertions at raw_span_data.h:110, :159,
\* :183 to :185 would hold).  So what RawSpanData promises holds here too.
KeepsRawContract == Raw!Spec

\* The scan for the oldest span finds one and remove finds it in the map, so
\* that the add that follows never writes past the last slot.
OldestIsEvicted ==
  pc = "idle" /\ method \in {"none", "add"} =>
    /\ method = "add" => active_span_count < MaxSpans
    /\ active_span_count = MaxSpans => OldestSpanId \in Indexed

-----------------------------------------------------------------------------
(* The buffer the slots hold: the spans in the order of their marks.       *)

Rank(S, m) == Cardinality({x \in S : x <= m})
Sorted(S) == [k \in 1 .. Cardinality(S) |-> CHOOSE m \in S : Rank(S, m) = k]

\* The spans a recovery would find, the smallest mark first.
Marks == {mark[i] : i \in {j \in Slot : Raw!Recoverable(j)}}
Marked == [m \in Marks |-> span[CHOOSE i \in Slot : Raw!Recoverable(i) /\ mark[i] = m]]
ByMark == [k \in 1 .. Cardinality(Marks) |-> Marked[Sorted(Marks)[k]]]

BeingAdded == IF method \in {"add", "add_evict"} THEN {add_argument} ELSE {}
Up == Raw!Running

Buffer == INSTANCE SpanBuffer WITH
            queue <- ByMark, adding <- BeingAdded, up <- Up, Capacity <- MaxSpans

\* The spans held are those of a bounded first-in first-out buffer: a full
\* store loses the span added first whatever removals have shuffled the slots,
\* end and remove touch the span they name, and a crash shows the buffer as it
\* was before or after the operation it interrupted (mutable_span_data.cpp).
ImplementsSpanBuffer == Buffer!Spec

-----------------------------------------------------------------------------
(* The inductive invariant: where the map stands during each call.         *)

\* A remove of the span remove_argument names is in the middle of its stores.
Freeing == method \in {"remove", "add_evict"}

MethodMatchesStore ==
  /\ method = "none" => pc \in {"idle", "crashed", "clear"}
  /\ method = "add" => pc \in {"idle", "add_span", "add_count"}
  /\ Freeing => pc \in {"remove_span", "remove_last_mark", "remove_count"}

Arguments ==
  /\ method \in {"add", "add_evict"} =>
       add_argument \in Span /\ add_argument["span_id"] \notin Indexed
  /\ method = "add" /\ pc = "idle" => active_span_count < MaxSpans
  /\ method = "add" /\ pc # "idle" => arg = add_argument
  /\ Freeing => /\ remove_argument \in Indexed
                /\ span_id_to_index[remove_argument] = raw_index

\* The id being removed is still in the map, at the slot the last span is
\* moving into; every other id is found at its slot, and every other active
\* slot is found from its id.
MapMatchesSlots ==
  IF Raw!Running
  THEN /\ \A x \in Indexed :
            /\ span_id_to_index[x] < active_span_count
            /\ Freeing /\ x # remove_argument => span_id_to_index[x] # raw_index
            /\ ~(Freeing /\ x = remove_argument) => span[span_id_to_index[x]]["span_id"] = x
       /\ \A i \in Slot :
            i < active_span_count /\ ~(Freeing /\ i = raw_index) =>
              /\ span[i]["span_id"] \in Indexed
              /\ span_id_to_index[span[i]["span_id"]] = i
  ELSE Indexed = {}

MInv ==
  /\ TypeOK
  /\ Raw!IInv
  /\ MethodMatchesStore
  /\ Arguments
  /\ MapMatchesSlots
=============================================================================
