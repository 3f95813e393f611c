--------------------------- MODULE SharedFile_proofs ---------------------------
(***************************************************************************)
(* Several contexts over one file, for any number of contexts, sizes, slots *)
(* and spans.  The file stays consistent whatever the contexts of its size *)
(* do to each other, because the assertions are on, and is so again once   *)
(* it is cleared after a context of another size wrote; the spans are      *)
(* handed over once because each is added once and every initialization    *)
(* clears the file; and a context that is alone has the size the header    *)
(* names and knows every slot.                                             *)
(***************************************************************************)
EXTENDS SharedFile, WellFoundedInduction, TLAPS

USE ConstantsAssumption

-----------------------------------------------------------------------------
(* The file, now or in the middle of a call                                *)

Consistent(f) ==
  /\ capacity \in Nat \ {0}
  /\ f.count \in 0 .. capacity
  /\ f.mark \in [Slot -> Nat]
  /\ f.span \in [Slot -> SpanId \cup {null}]
  /\ \A i \in Slot : f.mark[i] # 0 <=> i < f.count
  /\ \A i \in Slot : i < f.count => f.span[i] \in SpanId

Spans(f) == {f.span[i] : i \in {j \in Slot : j < f.count}}

LEMMA RemovedIsConsistent ==
  ASSUME NEW f, Consistent(f), NEW i \in Slot, RemoveFails(f, i) = "none"
  PROVE  /\ Consistent(Removed(f, i))
         /\ Spans(Removed(f, i)) \subseteq Spans(f)
         /\ i < f.count /\ f.count - 1 \in Slot
         /\ \A j \in Slot : j < f.count - 1 =>
              Removed(f, i).span[j] = IF j = i THEN f.span[f.count - 1] ELSE f.span[j]
<1> DEFINE g == Removed(f, i)
<1>1. /\ f.count \in 0 .. capacity /\ i \in 0 .. (capacity - 1) /\ capacity \in Nat \ {0}
      /\ i < f.count
  BY DEF RemoveFails, Consistent, Slot
<1>2. f.count - 1 \in Slot /\ i <= f.count - 1
  BY <1>1 DEF Slot
<1>3. f.mark[i] # 0 /\ f.mark[f.count - 1] # 0
  BY <1>1, <1>2 DEF Consistent
<1>4. /\ g.count = f.count - 1
      /\ g.mark = [f.mark EXCEPT ![i] = f.mark[f.count - 1], ![f.count - 1] = 0]
      /\ g.span = [f.span EXCEPT ![i] = f.span[f.count - 1]]
  BY DEF Removed
<1> HIDE DEF g
<1>5. g.count \in 0 .. capacity
  BY <1>1, <1>4
<1>6. g.mark \in [Slot -> Nat] /\ g.span \in [Slot -> SpanId \cup {null}]
  BY <1>2, <1>4 DEF Consistent
<1>7. ASSUME NEW j \in Slot PROVE g.mark[j] # 0 <=> j < g.count
  <2>1. f.mark[j] # 0 <=> j < f.count
    BY DEF Consistent
  <2>2. j \in Int /\ f.count \in Int
    BY <1>1 DEF Slot
  <2>3. CASE j = f.count - 1
    BY <2>3, <1>2, <1>4, <2>2 DEF Consistent
  <2>4. CASE j # f.count - 1
    <3>1. g.mark[j] = IF j = i THEN f.mark[f.count - 1] ELSE f.mark[j]
      BY <2>4, <1>4, <1>2 DEF Consistent
    <3>2. j < f.count <=> j < f.count - 1
      BY <2>2, <2>4
    <3> QED
      BY <3>1, <3>2, <1>1, <1>3, <1>4, <2>1
  <2> QED
    BY <2>3, <2>4
<1>8. \A j \in Slot : g.span[j] = IF j = i THEN f.span[f.count - 1] ELSE f.span[j]
  BY <1>2, <1>4 DEF Consistent
<1>9. Spans(g) \subseteq Spans(f)
  <2> SUFFICES ASSUME NEW j \in Slot, j < g.count
               PROVE  g.span[j] \in Spans(f)
    BY DEF Spans
  <2>1. j < f.count /\ f.count - 1 < f.count
    BY <1>1, <1>4 DEF Slot
  <2> QED
    BY <2>1, <1>2, <1>8 DEF Spans
<1>10. \A j \in Slot : j < g.count => g.span[j] \in SpanId
  BY <1>1, <1>2, <1>4, <1>8 DEF Consistent, Slot
<1> QED
  BY <1>1, <1>2, <1>4, <1>5, <1>6, <1>7, <1>8, <1>9, <1>10 DEF Consistent, g

LEMMA AddedIsConsistent ==
  ASSUME NEW f, Consistent(f), NEW s \in SpanId, NEW m \in Nat \ {0}, AddFails(f) = "none"
  PROVE  /\ Consistent(Added(f, s, m))
         /\ Spans(Added(f, s, m)) \subseteq Spans(f) \cup {s}
         /\ f.count \in Slot
         /\ Added(f, s, m).count = f.count + 1
         /\ \A j \in Slot : Added(f, s, m).span[j] = IF j = f.count THEN s ELSE f.span[j]
<1> DEFINE g == Added(f, s, m)
<1>1. f.count \in 0 .. capacity /\ capacity \in Nat \ {0} /\ f.count < capacity
  BY DEF AddFails, Consistent
<1>2. f.count \in Slot
  BY <1>1 DEF Slot
<1>3. /\ g.count = f.count + 1
      /\ g.mark = [f.mark EXCEPT ![f.count] = m]
      /\ g.span = [f.span EXCEPT ![f.count] = s]
  BY DEF Added
<1> HIDE DEF g
<1>4. g.count \in 0 .. capacity
  BY <1>1, <1>3
<1>5. g.mark \in [Slot -> Nat] /\ g.span \in [Slot -> SpanId \cup {null}]
  BY <1>2, <1>3 DEF Consistent
<1>6. \A j \in Slot : /\ g.span[j] = IF j = f.count THEN s ELSE f.span[j]
                      /\ g.mark[j] = IF j = f.count THEN m ELSE f.mark[j]
  BY <1>2, <1>3 DEF Consistent
<1>7. \A j \in Slot : j < g.count <=> j = f.count \/ j < f.count
  BY <1>1, <1>3 DEF Slot
<1>8. \A j \in Slot : g.mark[j] # 0 <=> j < g.count
  BY <1>6, <1>7 DEF Consistent
<1>9. Spans(g) \subseteq Spans(f) \cup {s}
  BY <1>6, <1>7 DEF Spans
<1>10. \A j \in Slot : j < g.count => g.span[j] \in SpanId
  BY <1>6, <1>7 DEF Consistent
<1> QED
  BY <1>2, <1>3, <1>4, <1>5, <1>6, <1>8, <1>9, <1>10 DEF Consistent, g

-----------------------------------------------------------------------------
(* Typing, and the file                                                    *)

InContexts == span_id_to_index = [c \in Context |-> span_id_to_index[c]]

\* A map outlives no context, so the next one may have another size.
ClosedAreEmpty == \A c \in Context \ open : Indexed(c) = {}

\* A garbled file is one without spans here, so these hold of it too.
MarkedAreActive == \A i \in Slot : mark[i] # 0 <=> i < active_span_count
ActiveAreSpans == \A i \in Slot : i < active_span_count => span[i] \in SpanId

FileInv == TypeOK /\ InContexts /\ ClosedAreEmpty /\ MarkedAreActive /\ ActiveAreSpans

LEMMA Capacity ==
  /\ mmap_size \in MmapSize => capacity \in Nat \ {0}
  /\ \A c : Fits(c) => SlotOf(layout[c]) = Slot
BY DEF capacity, Fits, SlotOf, Slot

LEMMA NowIsConsistent ==
  ASSUME FileInv
  PROVE  Consistent(Now) /\ Spans(Now) = OnDisk
<1>1. Consistent(Now)
  BY Capacity DEF FileInv, TypeOK, MarkedAreActive, ActiveAreSpans, Consistent, Now
<1>2. Spans(Now) = OnDisk
  BY DEF FileInv, MarkedAreActive, Spans, OnDisk, Now
<1> QED
  BY <1>1, <1>2

\* A write keeps the slots there are.
LEMMA SameSlots ==
  ASSUME UNCHANGED mmap_size
  PROVE  capacity' = capacity /\ Slot' = Slot
BY DEF capacity, Slot

LEMMA WritesConsistent ==
  ASSUME NEW f, Consistent(f), Writes(f)
  PROVE  OnDisk' = Spans(f)
<1>1. active_span_count' = f.count /\ mark' = f.mark /\ span' = f.span /\ Slot' = Slot
  BY SameSlots DEF Writes
<1>2. OnDisk' = {span'[i] : i \in {j \in Slot' : j < active_span_count' /\ mark'[j] # 0}}
  BY DEF OnDisk
<1> QED
  BY <1>1, <1>2 DEF Consistent, Spans

LEMMA ReindexedIsAMap ==
  ASSUME FileInv, NEW c \in Context, Fits(c), NEW x, NEW i \in Slot
  PROVE  Reindexed(c, x, i) \in [DOMAIN Reindexed(c, x, i) -> Slot]
<1>1. span_id_to_index[c] \in [Indexed(c) -> Slot]
  BY Capacity DEF FileInv, TypeOK
<1> DEFINE moved == IF i = active_span_count - 1 THEN null ELSE span[active_span_count - 1]
           all == Indexed(c) \cup ({moved} \ {null})
<1>2. Reindexed(c, x, i) =
        [y \in all \ {x} |-> IF y = moved THEN i ELSE span_id_to_index[c][y]]
  BY DEF Reindexed
<1> HIDE DEF moved
<1> QED
  BY <1>1, <1>2

\* What is left of the file and of the map of c when add has made room.
Left(c) == IF Evicts(c) /\ RemoveFails(Now, EvictedIndex(c)) = "none"
           THEN Removed(Now, EvictedIndex(c)) ELSE Now
MapLeft(c) == IF Evicts(c) THEN Reindexed(c, span[OldestSlot], EvictedIndex(c))
              ELSE span_id_to_index[c]

LEMMA LeftIsConsistent ==
  ASSUME FileInv, NEW c \in Context, Fits(c)
  PROVE  /\ Consistent(Left(c))
         /\ Spans(Left(c)) \subseteq OnDisk
         /\ Evicts(c) => EvictedIndex(c) \in Slot
         /\ MapLeft(c) \in [DOMAIN MapLeft(c) -> Slot]
<1>1. Consistent(Now) /\ Spans(Now) = OnDisk
  BY NowIsConsistent
<1>2. span_id_to_index[c] \in [Indexed(c) -> Slot]
  BY Capacity DEF FileInv, TypeOK
<1>3. Evicts(c) => EvictedIndex(c) \in Slot
  BY <1>2 DEF Evicts, EvictedIndex
<1>4. CASE Evicts(c)
  BY <1>1, <1>3, <1>4, RemovedIsConsistent, ReindexedIsAMap DEF Left, MapLeft
<1>5. CASE ~Evicts(c)
  BY <1>1, <1>2, <1>5 DEF Left, MapLeft, Indexed
<1> QED
  BY <1>3, <1>4, <1>5

\* How an add ends: by an assertion, or with the span in the file and the map.
Fails == {"room", "unmarked", "marked", "active", "access"}
AddSucceeds(c, s) ==
  /\ AddFails(Left(c)) = "none"
  /\ Evicts(c) => RemoveFails(Now, EvictedIndex(c)) = "none"
  /\ Writes(Added(Left(c), s, mark_counter[c] + 1))
  /\ mark_counter' = [mark_counter EXCEPT ![c] = @ + 1]
  /\ span_id_to_index' =
       [span_id_to_index EXCEPT ![c] =
          [y \in DOMAIN MapLeft(c) \cup {s} |->
             IF y \in DOMAIN MapLeft(c) THEN MapLeft(c)[y] ELSE Left(c).count]]
  /\ added' = added \cup {s}
  /\ UNCHANGED <<open, layout, is_recovered, recovered_spans, failed_assertion, overlapped,
                 delivered>>

LEMMA AddEnds ==
  ASSUME FileInv, NEW c \in Context, NEW s \in SpanId, Add(c, s)
  PROVE  /\ s \notin added /\ c \in open /\ Fits(c)
         /\ touched' = NotTouched
         /\ \/ AddSucceeds(c, s)
            \/ /\ \E a \in Fails : Ends(a)
               /\ \E f : Consistent(f) /\ Spans(f) \subseteq OnDisk /\ Writes(f)
               /\ \/ Evicts(c) /\ RemoveFails(Now, EvictedIndex(c)) # "none"
                  \/ /\ Evicts(c) => RemoveFails(Now, EvictedIndex(c)) = "none"
                     /\ AddFails(Left(c)) # "none"
<1>1. Consistent(Now) /\ Spans(Now) = OnDisk
  BY NowIsConsistent
<1>2. UNCHANGED file => Writes(Now)
  BY DEF file, Writes, Now
<1> DEFINE evicts == Evicts(c)
           fails == IF evicts THEN RemoveFails(Now, EvictedIndex(c)) ELSE "none"
           left == IF evicts /\ fails = "none" THEN Removed(Now, EvictedIndex(c)) ELSE Now
           map == IF evicts THEN Reindexed(c, span[OldestSlot], EvictedIndex(c))
                  ELSE span_id_to_index[c]
<1>3. left = Left(c) /\ map = MapLeft(c)
  BY DEF Left, MapLeft
<1>4. fails \in Fails \cup {"none"} /\ AddFails(left) \in Fails \cup {"none"}
  BY DEF RemoveFails, AddFails, Fails
<1>5. \/ fails # "none" /\ Ends(fails) /\ UNCHANGED file
      \/ fails = "none" /\ AddFails(left) # "none" /\ Ends(AddFails(left)) /\ Writes(left)
      \/ /\ fails = "none" /\ AddFails(left) = "none"
         /\ Writes(Added(left, s, mark_counter[c] + 1))
         /\ mark_counter' = [mark_counter EXCEPT ![c] = @ + 1]
         /\ span_id_to_index' =
              [span_id_to_index EXCEPT ![c] =
                 [y \in DOMAIN map \cup {s} |-> IF y \in DOMAIN map THEN map[y] ELSE left.count]]
         /\ added' = added \cup {s}
         /\ UNCHANGED <<open, layout, is_recovered, recovered_spans, failed_assertion,
                        overlapped, delivered>>
  BY DEF Add
<1>6. s \notin added /\ c \in open /\ Fits(c) /\ touched' = NotTouched
  BY DEF Add, Usable
<1>7. evicts => (fails = "none" <=> RemoveFails(Now, EvictedIndex(c)) = "none")
  OBVIOUS
<1>8. ~evicts => fails = "none"
  OBVIOUS
<1> HIDE DEF fails, left, map
<1>9. CASE fails # "none" /\ Ends(fails) /\ UNCHANGED file
  BY <1>1, <1>2, <1>4, <1>6, <1>7, <1>8, <1>9
<1>10. CASE fails = "none" /\ AddFails(left) # "none" /\ Ends(AddFails(left)) /\ Writes(left)
  BY <1>3, <1>4, <1>6, <1>7, <1>8, <1>10, LeftIsConsistent
<1>11. CASE /\ fails = "none" /\ AddFails(left) = "none"
            /\ Writes(Added(left, s, mark_counter[c] + 1))
            /\ mark_counter' = [mark_counter EXCEPT ![c] = @ + 1]
            /\ span_id_to_index' =
                 [span_id_to_index EXCEPT ![c] =
                    [y \in DOMAIN map \cup {s} |->
                       IF y \in DOMAIN map THEN map[y] ELSE left.count]]
            /\ added' = added \cup {s}
            /\ UNCHANGED <<open, layout, is_recovered, recovered_spans, failed_assertion,
                           overlapped, delivered>>
  <2>1. AddSucceeds(c, s)
    BY <1>3, <1>7, <1>11 DEF AddSucceeds
  <2> QED
    BY <1>6, <2>1
<1> QED
  BY <1>5, <1>9, <1>10, <1>11

-----------------------------------------------------------------------------
(* SlotsConsistent                                                         *)

MapsTyped == \A c \in Context : span_id_to_index[c] \in [Indexed(c) -> SlotOf(layout[c])]

\* The type of what is neither the file nor a map.
RestTyped ==
  /\ mmap_size \in MmapSize
  /\ garbled \in {"never", "now", "before"}
  /\ open \subseteq Context
  /\ layout \in [Context -> MmapSize]
  /\ is_recovered \in [Context -> BOOLEAN]
  /\ recovered_spans \in [Context -> SUBSET SpanId]
  /\ mark_counter \in [Context -> Nat]
  /\ failed_assertion \in {"none", "room", "unmarked", "marked", "active", "access"}
  /\ overlapped \in BOOLEAN
  /\ added \subseteq SpanId /\ delivered \subseteq SpanId

\* The maps, by context.
MapsOk == InContexts /\ ClosedAreEmpty /\ MapsTyped

LEMMA FileInvParts ==
  FileInv <=> Consistent(Now) /\ MapsOk /\ RestTyped
BY Capacity DEF FileInv, TypeOK, MarkedAreActive, ActiveAreSpans, Consistent, Now, MapsTyped,
   MapsOk, RestTyped

LEMMA WritesNow ==
  ASSUME NEW f, Writes(f), Consistent(f)
  PROVE  Consistent(Now)' /\ UNCHANGED <<mmap_size, garbled>>
<1>1. active_span_count' = f.count /\ mark' = f.mark /\ span' = f.span
      /\ UNCHANGED <<mmap_size, garbled>>
  BY DEF Writes
<1>2. capacity' = capacity /\ Slot' = Slot
  BY <1>1, SameSlots
<1> QED
  BY <1>1, <1>2 DEF Consistent, Now

LEMMA FileUnchanged ==
  ASSUME Consistent(Now), UNCHANGED file
  PROVE  Consistent(Now)' /\ UNCHANGED <<mmap_size, garbled>>
<1>1. UNCHANGED <<mmap_size, active_span_count, mark, span, garbled>>
  BY DEF file
<1>2. capacity' = capacity /\ Slot' = Slot
  BY <1>1, SameSlots
<1> QED
  BY <1>1, <1>2 DEF Consistent, Now

\* A file without spans, of any size.
LEMMA ClearedIsConsistent ==
  ASSUME NEW L \in MmapSize, Cleared(L)
  PROVE  Consistent(Now)' /\ mmap_size' = L /\ OnDisk' = {}
<1>1. /\ mmap_size' = L /\ active_span_count' = 0
      /\ mark' = [i \in SlotOf(L) |-> 0] /\ span' = [i \in SlotOf(L) |-> null]
  BY DEF Cleared
<1>2. capacity' = max_count[L] /\ Slot' = SlotOf(L)
  BY <1>1 DEF capacity, Slot, SlotOf
<1>3. capacity' \in Nat \ {0}
  BY <1>2
<1>4. \A i \in SlotOf(L) : ~(i < 0)
  BY <1>3 DEF SlotOf
<1>5. Consistent(Now)'
  BY <1>1, <1>2, <1>3, <1>4 DEF Consistent, Now
<1>6. OnDisk' = {span'[i] : i \in {j \in Slot' : j < active_span_count' /\ mark'[j] # 0}}
  BY DEF OnDisk
<1>7. OnDisk' = {}
  BY <1>1, <1>2, <1>4, <1>6
<1> QED
  BY <1>1, <1>5, <1>7

\* A context's map is replaced by m.
LEMMA MapReplaced ==
  ASSUME MapsOk, NEW c \in Context, NEW m,
         m \in [DOMAIN m -> SlotOf(layout[c])], UNCHANGED layout,
         c \in open' \/ DOMAIN m = {}, open \ {c} \subseteq open',
         span_id_to_index' = [span_id_to_index EXCEPT ![c] = m]
  PROVE  /\ MapsOk'
         /\ \A d \in Context :
              span_id_to_index'[d] = IF d = c THEN m ELSE span_id_to_index[d]
<1>1. \A d \in Context : span_id_to_index'[d] = IF d = c THEN m ELSE span_id_to_index[d]
  BY DEF MapsOk, InContexts
<1>2. InContexts'
  BY DEF MapsOk, InContexts
<1>3. MapsTyped'
  BY <1>1 DEF MapsOk, MapsTyped, Indexed, SlotOf
<1>4. ClosedAreEmpty'
  BY <1>1 DEF MapsOk, ClosedAreEmpty, Indexed
<1> QED
  BY <1>1, <1>2, <1>3, <1>4 DEF MapsOk

\* No map is touched, nor the layout it is for.
LEMMA MapsKept ==
  ASSUME MapsOk, UNCHANGED <<open, span_id_to_index, layout>>
  PROVE  MapsOk'
BY DEF MapsOk, InContexts, ClosedAreEmpty, MapsTyped, Indexed, SlotOf

LEMMA EmptyMapFits ==
  /\ DOMAIN EmptyMap = {}
  /\ \A L : EmptyMap \in [DOMAIN EmptyMap -> SlotOf(L)]
BY DEF EmptyMap

LEMMA EndsTyped ==
  ASSUME RestTyped, NEW a \in Fails \cup {"none"}, Ends(a),
         mmap_size' \in MmapSize, garbled' \in {"never", "now", "before"}
  PROVE  MapsOk' /\ RestTyped'
<1>1. span_id_to_index' = [c \in Context |-> EmptyMap]
  BY DEF Ends
<1>2. InContexts'
  BY <1>1 DEF InContexts
<1>3. MapsTyped'
  BY <1>1, EmptyMapFits DEF MapsTyped, Indexed, SlotOf
<1>4. ClosedAreEmpty'
  BY <1>1, EmptyMapFits DEF ClosedAreEmpty, Indexed
<1>5. RestTyped'
  BY DEF Ends, RestTyped, Fails
<1> QED
  BY <1>2, <1>3, <1>4, <1>5 DEF MapsOk

LEMMA FileStep ==
  ASSUME FileInv, [Next]_vars
  PROVE  FileInv'
<1> SUFFICES Consistent(Now)' /\ MapsOk' /\ RestTyped'
  BY FileInvParts, PTL
<1>0. Consistent(Now) /\ MapsOk /\ RestTyped
  BY FileInvParts
<1>1. ASSUME NEW c \in Context, NEW L \in MmapSize, initialize_span_data(c, L)
      PROVE  Consistent(Now)' /\ MapsOk' /\ RestTyped'
  <2>1. Consistent(Now)' /\ mmap_size' = L
    BY <1>1, ClearedIsConsistent DEF initialize_span_data
  <2>2. /\ c \notin open /\ open' = open \cup {c} /\ UNCHANGED span_id_to_index
        /\ layout' = [layout EXCEPT ![c] = L]
    BY <1>1 DEF initialize_span_data
  <2>3. /\ Indexed(c) = {} /\ Indexed(c)' = {}
        /\ \A d \in Context : d # c => layout'[d] = layout[d]
    BY <1>0, <2>2 DEF MapsOk, ClosedAreEmpty, RestTyped, Indexed
  <2>4. InContexts' /\ ClosedAreEmpty'
    BY <1>0, <2>2 DEF MapsOk, InContexts, ClosedAreEmpty, Indexed
  <2>5. ASSUME NEW d \in Context
        PROVE  span_id_to_index'[d] \in [Indexed(d)' -> SlotOf(layout'[d])]
    <3>1. span_id_to_index[d] \in [Indexed(d) -> SlotOf(layout[d])] /\ Indexed(d)' = Indexed(d)
      BY <1>0, <2>2 DEF MapsOk, MapsTyped, Indexed
    <3> QED
      BY <2>2, <2>3, <3>1
  <2>6. MapsTyped'
    BY <2>5 DEF MapsTyped, SlotOf
  <2>7. PICK spans \in Recoverable :
          recovered_spans' = [recovered_spans EXCEPT ![c] = spans]
    BY <1>1 DEF initialize_span_data
  <2>8. spans \subseteq SpanId
    BY <1>0 DEF FileInv, ActiveAreSpans, OnDisk, Recoverable, RestTyped
  <2>9. RestTyped'
    BY <1>0, <1>1, <2>1, <2>7, <2>8 DEF initialize_span_data, RestTyped, history
  <2> QED
    BY <2>1, <2>4, <2>6, <2>9 DEF MapsOk
<1>2. ASSUME NEW c \in Context, get_recovered_spans(c)
      PROVE  Consistent(Now)' /\ MapsOk' /\ RestTyped'
  <2>1. Consistent(Now)' /\ UNCHANGED <<mmap_size, garbled>>
    BY <1>0, <1>2, FileUnchanged DEF get_recovered_spans
  <2>2. MapsOk'
    BY <1>0, <1>2, MapsKept DEF get_recovered_spans
  <2>3. RestTyped'
    BY <1>0, <1>2, <2>1 DEF get_recovered_spans, RestTyped
  <2> QED
    BY <2>1, <2>2, <2>3
<1>3. ASSUME NEW c \in Context, release_span_data(c)
      PROVE  Consistent(Now)' /\ MapsOk' /\ RestTyped'
  <2>1. Consistent(Now)' /\ UNCHANGED <<mmap_size, garbled>>
    BY <1>0, <1>3, FileUnchanged DEF release_span_data
  <2>2. MapsOk'
    BY <1>0, <1>3, EmptyMapFits, MapReplaced DEF release_span_data, Closed
  <2>3. RestTyped'
    BY <1>0, <1>3, <2>1 DEF release_span_data, Closed, RestTyped, history
  <2> QED
    BY <2>1, <2>2, <2>3
<1>4. ASSUME NEW c \in Context, NEW s \in SpanId, Add(c, s)
      PROVE  Consistent(Now)' /\ MapsOk' /\ RestTyped'
  <2>0. Fits(c) /\ c \in open /\ SlotOf(layout[c]) = Slot
    BY <1>4, AddEnds, Capacity
  <2>1. CASE AddSucceeds(c, s)
    <3>1. Consistent(Left(c)) /\ MapLeft(c) \in [DOMAIN MapLeft(c) -> Slot]
      BY <2>0, LeftIsConsistent
    <3>2. mark_counter[c] + 1 \in Nat \ {0}
      BY <1>0 DEF RestTyped
    <3>3. AddFails(Left(c)) = "none" /\ Writes(Added(Left(c), s, mark_counter[c] + 1))
      BY <2>1 DEF AddSucceeds
    <3>4. Consistent(Added(Left(c), s, mark_counter[c] + 1)) /\ Left(c).count \in Slot
      BY <3>1, <3>2, <3>3, AddedIsConsistent
    <3>5. Consistent(Now)' /\ UNCHANGED <<mmap_size, garbled>>
      BY <3>3, <3>4, WritesNow
    <3> DEFINE m == [y \in DOMAIN MapLeft(c) \cup {s} |->
                       IF y \in DOMAIN MapLeft(c) THEN MapLeft(c)[y] ELSE Left(c).count]
    <3>6. m \in [DOMAIN m -> SlotOf(layout[c])]
      BY <2>0, <3>1, <3>4
    <3>7. span_id_to_index' = [span_id_to_index EXCEPT ![c] = m] /\ UNCHANGED <<open, layout>>
      BY <2>1 DEF AddSucceeds
    <3> HIDE DEF m
    <3>8. MapsOk'
      BY <1>0, <2>0, <3>6, <3>7, MapReplaced
    <3>9. RestTyped'
      BY <1>0, <2>1, <3>2, <3>5 DEF AddSucceeds, RestTyped
    <3> QED
      BY <3>5, <3>8, <3>9
  <2>2. CASE /\ \E a \in Fails : Ends(a)
             /\ \E f : Consistent(f) /\ Spans(f) \subseteq OnDisk /\ Writes(f)
    <3>1. Consistent(Now)' /\ UNCHANGED <<mmap_size, garbled>>
      BY <2>2, WritesNow
    <3>2. mmap_size' \in MmapSize /\ garbled' \in {"never", "now", "before"}
      BY <1>0, <3>1 DEF RestTyped
    <3> QED
      BY <1>0, <2>2, <3>1, <3>2, EndsTyped
  <2> QED
    BY <1>4, <2>1, <2>2, AddEnds
<1>9. ASSUME NEW a \in Fails \cup {"none"}, Ends(a), UNCHANGED file
      PROVE  Consistent(Now)' /\ MapsOk' /\ RestTyped'
  <2>1. Consistent(Now)' /\ UNCHANGED <<mmap_size, garbled>>
    BY <1>0, <1>9, FileUnchanged
  <2>2. mmap_size' \in MmapSize /\ garbled' \in {"never", "now", "before"}
    BY <1>0, <2>1 DEF RestTyped
  <2> QED
    BY <1>0, <1>9, <2>1, <2>2, EndsTyped
<1>5. ASSUME NEW c \in Context, NEW x \in SpanId, Remove(c, x)
      PROVE  Consistent(Now)' /\ MapsOk' /\ RestTyped'
  <2> DEFINE i == span_id_to_index[c][x]
  <2>1. Fits(c) /\ c \in open /\ SlotOf(layout[c]) = Slot /\ x \in Indexed(c)
    BY <1>5, Capacity DEF Remove, Usable
  <2>2. i \in Slot
    BY <1>0, <2>1 DEF MapsOk, MapsTyped
  <2>3. \/ RemoveFails(Now, i) # "none" /\ Ends(RemoveFails(Now, i)) /\ UNCHANGED file
        \/ /\ RemoveFails(Now, i) = "none"
           /\ Writes(Removed(Now, i))
           /\ span_id_to_index' = [span_id_to_index EXCEPT ![c] = Reindexed(c, x, i)]
           /\ UNCHANGED <<open, layout, is_recovered, recovered_spans, mark_counter,
                          failed_assertion, overlapped, added, delivered>>
    BY <1>5 DEF Remove
  <2>4. RemoveFails(Now, i) \in Fails \cup {"none"}
    BY DEF RemoveFails, Fails
  <2> HIDE DEF i
  <2>5. CASE RemoveFails(Now, i) # "none" /\ Ends(RemoveFails(Now, i)) /\ UNCHANGED file
    BY <1>9, <2>4, <2>5
  <2>6. CASE /\ RemoveFails(Now, i) = "none"
             /\ Writes(Removed(Now, i))
             /\ span_id_to_index' = [span_id_to_index EXCEPT ![c] = Reindexed(c, x, i)]
             /\ UNCHANGED <<open, layout, is_recovered, recovered_spans, mark_counter,
                            failed_assertion, overlapped, added, delivered>>
    <3>1. Consistent(Now)' /\ UNCHANGED <<mmap_size, garbled>>
      BY <1>0, <2>2, <2>6, RemovedIsConsistent, WritesNow
    <3>2. MapsOk'
      BY <1>0, <2>1, <2>2, <2>6, ReindexedIsAMap, MapReplaced
    <3>3. RestTyped'
      BY <1>0, <2>6, <3>1 DEF RestTyped
    <3> QED
      BY <3>1, <3>2, <3>3
  <2> QED
    BY <2>3, <2>5, <2>6
<1>6. ASSUME NEW c \in Context, NEW x \in SpanId, End(c, x)
      PROVE  Consistent(Now)' /\ MapsOk' /\ RestTyped'
  <2>1. UNCHANGED file
    BY <1>6 DEF End
  <2>2. CASE \E a \in Fails : Ends(a)
    BY <1>9, <2>1, <2>2
  <2>3. CASE UNCHANGED <<open, layout, is_recovered, recovered_spans, span_id_to_index,
                         mark_counter, failed_assertion, overlapped, added, delivered>>
    <3>1. Consistent(Now)' /\ UNCHANGED <<mmap_size, garbled>>
      BY <1>0, <2>1, FileUnchanged
    <3> QED
      BY <1>0, <2>3, <3>1, MapsKept DEF RestTyped
  <2>4. \A i : EndFails(i) \in Fails \cup {"none"}
    BY DEF EndFails, Fails
  <2> QED
    BY <1>6, <2>2, <2>3, <2>4 DEF End
<1>7. ASSUME NEW c \in Context, MisplacedCall(c)
      PROVE  Consistent(Now)' /\ MapsOk' /\ RestTyped'
  <2>1. ASSUME Garbles
        PROVE  /\ Consistent(Now)' /\ mmap_size' \in MmapSize
               /\ garbled' \in {"never", "now", "before"}
    BY <1>0, <2>1, ClearedIsConsistent DEF Garbles, RestTyped
  <2>2. CASE (\E a \in Fails : Ends(a)) /\ (UNCHANGED file \/ Garbles)
    BY <1>0, <1>9, <2>1, <2>2, EndsTyped
  <2>3. CASE MisplacedReturns(c)
    <3>1. PICK ids \in SUBSET SpanId : \E map \in [ids -> SlotOf(layout[c])] :
            span_id_to_index' = [span_id_to_index EXCEPT ![c] = map]
      BY <2>3 DEF MisplacedReturns
    <3>2. PICK map \in [ids -> SlotOf(layout[c])] :
            span_id_to_index' = [span_id_to_index EXCEPT ![c] = map]
      BY <3>1
    <3>3. map \in [DOMAIN map -> SlotOf(layout[c])]
      OBVIOUS
    <3>4. /\ c \in open /\ Garbles
          /\ UNCHANGED <<open, layout, is_recovered, recovered_spans, failed_assertion,
                         overlapped, delivered>>
      BY <1>7, <2>3 DEF MisplacedCall, MisplacedReturns, Usable
    <3>5. MapsOk'
      BY <1>0, <3>2, <3>3, <3>4, MapReplaced
    <3>6. \/ \E s \in SpanId : /\ added' = added \cup {s}
                               /\ mark_counter' = [mark_counter EXCEPT ![c] = @ + 1]
          \/ UNCHANGED <<added, mark_counter>>
      BY <2>3 DEF MisplacedReturns
    <3>7. RestTyped'
      BY <1>0, <2>1, <3>4, <3>6 DEF RestTyped
    <3> QED
      BY <2>1, <3>4, <3>5, <3>7
  <2> QED
    BY <1>7, <2>2, <2>3 DEF MisplacedCall, Fails
<1>8. ASSUME Exit \/ DiesRecovering
      PROVE  Consistent(Now)' /\ MapsOk' /\ RestTyped'
  <2>1. \E a \in Fails \cup {"none"} : Ends(a) /\ UNCHANGED file
    BY <1>8 DEF Exit, DiesRecovering, Fails
  <2> QED
    BY <1>9, <2>1
<1>10. ASSUME UNCHANGED vars
       PROVE  Consistent(Now)' /\ MapsOk' /\ RestTyped'
  <2>1. Consistent(Now)' /\ UNCHANGED <<mmap_size, garbled>>
    BY <1>0, <1>10, FileUnchanged DEF vars, file
  <2>2. MapsOk'
    BY <1>0, <1>10, MapsKept DEF vars
  <2> QED
    BY <1>0, <1>10, <2>1, <2>2 DEF vars, RestTyped
<1> QED
  BY <1>1, <1>2, <1>3, <1>4, <1>5, <1>6, <1>7, <1>8, <1>10 DEF Next

LEMMA InitFile == Init => FileInv
<1> SUFFICES ASSUME Init PROVE FileInv
  OBVIOUS
<1>1. Consistent(Now)
  <2>1. capacity \in Nat \ {0}
    BY Capacity DEF Init
  <2>2. \A i \in Slot : ~(i < 0)
    BY <2>1 DEF Slot
  <2> QED
    BY <2>1, <2>2 DEF Init, Consistent, Now
<1>2. MapsOk
  BY EmptyMapFits DEF Init, MapsOk, InContexts, ClosedAreEmpty, MapsTyped, Indexed
<1>3. RestTyped
  BY DEF Init, RestTyped
<1> QED
  BY <1>1, <1>2, <1>3, FileInvParts

\* Whatever the contexts of the file's size do to each other, the marked slots
\* are those below the count when a process has died of an assertion or ended,
\* so that the next one can recover from the file and add to it
\* (raw_span_data.h:110, 183); and they are again after every initialization,
\* also of a file that a context of another size garbled (initialize.cpp:152,
\* raw_span_data.h:217-219).
THEOREM FileStaysRecoverable == Spec => []SlotsConsistent
<1>1. FileInv => SlotsConsistent
  BY DEF FileInv, MarkedAreActive, SlotsConsistent
<1> QED
  BY <1>1, InitFile, FileStep, PTL DEF Spec

-----------------------------------------------------------------------------
(* DeliveredOnce                                                           *)

\* Everything there is was added.
AllAdded == /\ delivered \subseteq added
            /\ OnDisk \subseteq added
            /\ \A c \in Context : recovered_spans[c] \subseteq added

DeliveryInv == FileInv /\ AllAdded /\ DeliveredOnce

\* No file that was garbled is as if it never had been.
StaysGarbled == garbled' = "never" => garbled = "never"

\* No step but an initialization and the hand-over makes more of a span.
LEMMA NothingNew ==
  ASSUME DeliveryInv, OnDisk' \subseteq OnDisk, UNCHANGED <<added, delivered>>, StaysGarbled,
         \A c \in Context : recovered_spans'[c] \subseteq recovered_spans[c]
  PROVE  AllAdded' /\ DeliveredOnce'
BY DEF DeliveryInv, AllAdded, DeliveredOnce, StaysGarbled

LEMMA SameFile == UNCHANGED file => OnDisk' = OnDisk /\ StaysGarbled
<1> SUFFICES ASSUME UNCHANGED file PROVE OnDisk' = OnDisk /\ StaysGarbled
  OBVIOUS
<1>1. UNCHANGED <<mmap_size, active_span_count, mark, span, garbled>>
  BY DEF file
<1> QED
  BY <1>1, SameSlots DEF OnDisk, StaysGarbled

LEMMA DeliveryStep ==
  ASSUME DeliveryInv, [Next]_vars
  PROVE  AllAdded' /\ DeliveredOnce'
<1>0. FileInv /\ recovered_spans \in [Context -> SUBSET SpanId] /\ mmap_size \in MmapSize
  BY DEF DeliveryInv, FileInv, TypeOK
<1>1. ASSUME NEW c \in Context, NEW L \in MmapSize, initialize_span_data(c, L)
      PROVE  AllAdded' /\ DeliveredOnce'
  <2>1. OnDisk' = {}
    BY <1>1, ClearedIsConsistent DEF initialize_span_data
  <2>2. PICK spans \in Recoverable :
          recovered_spans' = [recovered_spans EXCEPT ![c] = spans]
    BY <1>1 DEF initialize_span_data
  <2>3. \A d \in Context :
          recovered_spans'[d] = IF d = c THEN spans ELSE recovered_spans[d]
    BY <1>0, <2>2
  <2>4. UNCHANGED <<added, delivered>> /\ StaysGarbled
    BY <1>1 DEF initialize_span_data, history, StaysGarbled
  <2>5. spans \subseteq added /\ (garbled = "never" => spans = OnDisk)
    BY DEF Recoverable, DeliveryInv, AllAdded
  <2> QED
    BY <2>1, <2>3, <2>4, <2>5 DEF DeliveryInv, AllAdded, DeliveredOnce, StaysGarbled
<1>2. ASSUME NEW c \in Context, get_recovered_spans(c)
      PROVE  AllAdded' /\ DeliveredOnce'
  <2>1. OnDisk' = OnDisk /\ StaysGarbled
    BY <1>2, SameFile DEF get_recovered_spans
  <2>2. \A d \in Context :
          recovered_spans'[d] = IF d = c THEN {} ELSE recovered_spans[d]
    BY <1>0, <1>2 DEF get_recovered_spans
  <2>3. delivered' = delivered \cup recovered_spans[c] /\ added' = added
    BY <1>2 DEF get_recovered_spans
  <2> QED
    BY <2>1, <2>2, <2>3 DEF DeliveryInv, AllAdded, DeliveredOnce, StaysGarbled
<1>3. ASSUME NEW c \in Context, release_span_data(c)
      PROVE  AllAdded' /\ DeliveredOnce'
  <2>1. OnDisk' = OnDisk /\ StaysGarbled
    BY <1>3, SameFile DEF release_span_data
  <2>2. \A d \in Context : recovered_spans'[d] \subseteq recovered_spans[d]
    BY <1>0, <1>3 DEF release_span_data, Closed
  <2>3. UNCHANGED <<added, delivered>>
    BY <1>3 DEF release_span_data, history
  <2> QED
    BY <2>1, <2>2, <2>3, NothingNew
<1>4. ASSUME NEW a, Ends(a), OnDisk' \subseteq OnDisk, StaysGarbled
      PROVE  AllAdded' /\ DeliveredOnce'
  <2>1. UNCHANGED <<added, delivered>> /\ \A d \in Context : recovered_spans'[d] = {}
    BY <1>4 DEF Ends
  <2> QED
    BY <1>4, <2>1, NothingNew
<1>5. ASSUME NEW c \in Context, NEW s \in SpanId, Add(c, s)
      PROVE  AllAdded' /\ DeliveredOnce'
  <2>0. s \notin added /\ Fits(c)
    BY <1>0, <1>5, AddEnds
  <2>1. CASE AddSucceeds(c, s)
    <3>1. Consistent(Left(c)) /\ Spans(Left(c)) \subseteq OnDisk
      BY <1>0, <2>0, LeftIsConsistent
    <3>2. mark_counter[c] + 1 \in Nat \ {0}
      BY <1>0 DEF FileInv, TypeOK
    <3>3. AddFails(Left(c)) = "none" /\ Writes(Added(Left(c), s, mark_counter[c] + 1))
      BY <2>1 DEF AddSucceeds
    <3>4. OnDisk' \subseteq OnDisk \cup {s}
      BY <3>1, <3>2, <3>3, AddedIsConsistent, WritesConsistent
    <3>5. added' = added \cup {s} /\ UNCHANGED <<recovered_spans, delivered, garbled>>
      BY <2>1, <3>3 DEF AddSucceeds, Writes
    <3> QED
      BY <2>0, <3>4, <3>5 DEF DeliveryInv, AllAdded, DeliveredOnce
  <2>2. CASE /\ \E a \in Fails : Ends(a)
             /\ \E f : Consistent(f) /\ Spans(f) \subseteq OnDisk /\ Writes(f)
    <3>1. OnDisk' \subseteq OnDisk
      BY <2>2, WritesConsistent
    <3>2. StaysGarbled
      BY <2>2 DEF Writes, StaysGarbled
    <3> QED
      BY <1>4, <2>2, <3>1, <3>2
  <2> QED
    BY <1>0, <1>5, <2>1, <2>2, AddEnds
<1>6. ASSUME NEW c \in Context, NEW x \in SpanId, Remove(c, x)
      PROVE  AllAdded' /\ DeliveredOnce'
  <2> DEFINE i == span_id_to_index[c][x]
  <2>1. i \in Slot
    <3>1. SlotOf(layout[c]) = Slot /\ x \in Indexed(c)
      BY <1>6, Capacity DEF Remove
    <3>2. span_id_to_index[c] \in [Indexed(c) -> SlotOf(layout[c])]
      BY <1>0 DEF FileInv, TypeOK
    <3> QED
      BY <3>1, <3>2
  <2>2. \/ Ends(RemoveFails(Now, i)) /\ UNCHANGED file
        \/ /\ RemoveFails(Now, i) = "none"
           /\ Writes(Removed(Now, i))
           /\ UNCHANGED <<recovered_spans, added, delivered>>
    BY <1>6 DEF Remove
  <2> HIDE DEF i
  <2>3. CASE Ends(RemoveFails(Now, i)) /\ UNCHANGED file
    BY <1>4, <2>3, SameFile
  <2>4. CASE /\ RemoveFails(Now, i) = "none"
             /\ Writes(Removed(Now, i))
             /\ UNCHANGED <<recovered_spans, added, delivered>>
    <3>1. OnDisk' \subseteq OnDisk
      BY <1>0, <2>1, <2>4, NowIsConsistent, RemovedIsConsistent, WritesConsistent
    <3>2. StaysGarbled
      BY <2>4 DEF Writes, StaysGarbled
    <3> QED
      BY <2>4, <3>1, <3>2, NothingNew
  <2> QED
    BY <2>2, <2>3, <2>4
<1>7. ASSUME NEW c \in Context, NEW x \in SpanId, End(c, x)
      PROVE  AllAdded' /\ DeliveredOnce'
  <2>1. OnDisk' = OnDisk /\ StaysGarbled
    BY <1>7, SameFile DEF End
  <2>2. \/ Ends(EndFails(span_id_to_index[c][x]))
        \/ UNCHANGED <<recovered_spans, added, delivered>>
    BY <1>7 DEF End
  <2> QED
    BY <1>4, <2>1, <2>2, NothingNew
<1>8. ASSUME Exit \/ DiesRecovering
      PROVE  AllAdded' /\ DeliveredOnce'
  BY <1>4, <1>8, SameFile DEF Exit, DiesRecovering
<1>9. ASSUME NEW c \in Context, MisplacedCall(c)
      PROVE  AllAdded' /\ DeliveredOnce'
  <2>1. ASSUME Garbles PROVE OnDisk' = {} /\ garbled' = "now" /\ StaysGarbled
    BY <1>0, <2>1, ClearedIsConsistent DEF Garbles, StaysGarbled
  <2>2. CASE (\E a \in Fails : Ends(a)) /\ (UNCHANGED file \/ Garbles)
    BY <1>4, <2>1, <2>2, SameFile
  <2>3. CASE MisplacedReturns(c)
    <3>1. Garbles /\ added \subseteq added' /\ UNCHANGED <<recovered_spans, delivered>>
      BY <2>3 DEF MisplacedReturns
    <3> QED
      BY <2>1, <3>1 DEF DeliveryInv, AllAdded, DeliveredOnce
  <2> QED
    BY <1>9, <2>2, <2>3 DEF MisplacedCall, Fails
<1>10. ASSUME UNCHANGED vars
       PROVE  AllAdded' /\ DeliveredOnce'
  <2>1. OnDisk' = OnDisk /\ StaysGarbled
    BY <1>10, SameFile DEF vars, file
  <2> QED
    BY <1>10, <2>1, NothingNew DEF vars
<1> QED
  BY <1>1, <1>2, <1>3, <1>5, <1>6, <1>7, <1>8, <1>9, <1>10 DEF Next

LEMMA InitDelivery == Init => DeliveryInv
<1> SUFFICES ASSUME Init PROVE AllAdded /\ DeliveredOnce
  BY InitFile DEF DeliveryInv
<1>1. OnDisk = {}
  BY DEF Init, OnDisk
<1> QED
  BY <1>1 DEF Init, AllAdded, DeliveredOnce

LEMMA DeliveryInvariant == Spec => []DeliveryInv
<1>1. DeliveryInv /\ [Next]_vars => DeliveryInv'
  BY FileStep, DeliveryStep DEF DeliveryInv
<1> QED
  BY <1>1, InitDelivery, PTL DEF Spec

\* However many contexts take spans from one file, each span is handed over
\* once: by the context that found it in the file, which cleared it there
\* (initialize.cpp:73, initialize.h:48).  Contexts may ask for different sizes
\* one after the other, and side by side until one of them writes into a file
\* of another size.
THEOREM HandedOverOnce == Spec => []DeliveredOnce
<1>1. DeliveryInv => DeliveredOnce
  BY DEF DeliveryInv
<1> QED
  BY <1>1, DeliveryInvariant, PTL

-----------------------------------------------------------------------------
(* OneAtATimeIsSafe                                                        *)

\* A map of ids to slots that knows exactly the spans of a file.
Knows(m, f) ==
  /\ \A x \in DOMAIN m : m[x] \in Slot /\ m[x] < f.count /\ f.span[m[x]] = x
  /\ \A i \in Slot : i < f.count => f.span[i] \in DOMAIN m /\ m[f.span[i]] = i

\* A context that is alone has the header's layout.
AloneInv ==
  /\ ~overlapped => \A c \in open :
       open = {c} /\ Fits(c) /\ Knows(span_id_to_index[c], Now)
  /\ ~overlapped => touched.named = touched.span

SafeInv == DeliveryInv /\ AloneInv

\* A slot the map knows fails no assertion of remove.
LEMMA KnownIsRemovable ==
  ASSUME Consistent(Now), NEW m, Knows(m, Now), NEW x \in DOMAIN m
  PROVE  RemoveFails(Now, m[x]) = "none" /\ EndFails(m[x]) = "none" /\ span[m[x]] = x
<1>1. m[x] \in Slot /\ m[x] < active_span_count /\ span[m[x]] = x
  BY DEF Knows, Now
<1>2. active_span_count \in 0 .. capacity /\ m[x] \in 0 .. (capacity - 1) /\ capacity \in Nat
  BY <1>1 DEF Consistent, Now, Slot
<1>3. active_span_count - 1 \in Slot /\ active_span_count - 1 < active_span_count
  BY <1>1, <1>2 DEF Slot
<1>4. mark[m[x]] # 0 /\ mark[active_span_count - 1] # 0
  BY <1>1, <1>3 DEF Consistent, Now
<1>5. ~(m[x] >= active_span_count)
  BY <1>1, <1>2
<1> QED
  BY <1>1, <1>4, <1>5 DEF RemoveFails, EndFails, Now

\* After remove has moved the last span the map knows the file again.
LEMMA RemovedIsKnown ==
  ASSUME FileInv, NEW c \in Context, Knows(span_id_to_index[c], Now), NEW x \in Indexed(c)
  PROVE  LET i == span_id_to_index[c][x]
         IN  Knows(Reindexed(c, x, i), Removed(Now, i))
<1> DEFINE index == span_id_to_index[c]
           i == index[x]
           last == active_span_count - 1
           moved == IF i = last THEN null ELSE span[last]
           m == Reindexed(c, x, i)
           g == Removed(Now, i)
<1>1. /\ \A y \in Indexed(c) : /\ index[y] \in Slot /\ index[y] < active_span_count
                               /\ span[index[y]] = y
      /\ \A j \in Slot : j < active_span_count =>
           span[j] \in Indexed(c) /\ index[span[j]] = j
  BY DEF Knows, Now, Indexed
<1>2. Consistent(Now) /\ RemoveFails(Now, i) = "none" /\ i \in Slot
  BY <1>1, NowIsConsistent, KnownIsRemovable DEF Indexed
<1>3. /\ i < active_span_count /\ last \in Slot /\ g.count = last
      /\ \A j \in Slot : j < last => g.span[j] = IF j = i THEN span[last] ELSE span[j]
  <2>1. Now.count = active_span_count /\ Now.span = span /\ g.count = Now.count - 1
    BY DEF Now, Removed
  <2> HIDE DEF i
  <2> QED
    BY <1>2, <2>1, RemovedIsConsistent
<1>4. null \notin Indexed(c)
  BY <1>1 DEF FileInv, ActiveAreSpans
<1>5. last < active_span_count /\ \A j \in Slot : j < active_span_count <=> j < last \/ j = last
  BY <1>3, Capacity DEF Slot, FileInv, TypeOK
<1>6. m = [y \in (Indexed(c) \cup ({moved} \ {null})) \ {x} |->
             IF y = moved THEN i ELSE index[y]]
  BY DEF Reindexed
<1>7. i # last => moved = span[last] /\ moved \in Indexed(c) /\ index[moved] = last /\ moved # x
  BY <1>1, <1>3, <1>5
<1>8. i = last => moved = null
  OBVIOUS
<1> HIDE DEF i, moved, last, g, m, index
<1>9. DOMAIN m = Indexed(c) \ {x} /\ \A y \in DOMAIN m : m[y] = IF y = moved THEN i ELSE index[y]
  BY <1>4, <1>6, <1>7, <1>8
<1>10. i # last => i < last
  BY <1>2, <1>3, <1>5
<1>11. ASSUME NEW y \in DOMAIN m
       PROVE  m[y] \in Slot /\ m[y] < g.count /\ g.span[m[y]] = y
  <2>1. CASE y = moved
    BY <2>1, <1>2, <1>3, <1>4, <1>7, <1>8, <1>9, <1>10
  <2>2. CASE y # moved
    <3>1. m[y] = index[y] /\ index[y] \in Slot /\ span[index[y]] = y /\ y # x
          /\ index[y] < active_span_count
      BY <2>2, <1>1, <1>9
    <3>2. span[i] = x
      BY <1>1 DEF i
    <3>3. index[y] # last
      BY <3>1, <3>2, <2>2, <1>7
    <3>4. index[y] # i
      BY <3>1, <3>2
    <3>5. index[y] < last
      BY <3>1, <3>3, <1>5
    <3> QED
      BY <3>1, <3>4, <3>5, <1>3
  <2> QED
    BY <2>1, <2>2
<1>12. ASSUME NEW j \in Slot, j < g.count
       PROVE  g.span[j] \in DOMAIN m /\ m[g.span[j]] = j
  <2>0. j < last /\ j < active_span_count
    BY <1>12, <1>3, <1>5
  <2>1. CASE j = i
    <3>1. i # last
      BY <2>0, <2>1, <1>3 DEF Slot
    <3> QED
      BY <2>0, <2>1, <3>1, <1>3, <1>7, <1>9
  <2>2. CASE j # i
    <3>1. g.span[j] = span[j] /\ span[j] \in Indexed(c) /\ index[span[j]] = j
      BY <2>0, <2>2, <1>1, <1>3
    <3>2. span[j] # x
      BY <3>1, <2>2 DEF i
    <3>3. j # last
      BY <2>0, <1>3 DEF Slot
    <3>4. span[j] # moved
      BY <3>1, <3>3, <1>4, <1>7, <1>8
    <3> QED
      BY <3>1, <3>2, <3>4, <1>9
  <2> QED
    BY <2>1, <2>2
<1>13. Knows(m, g)
  BY <1>11, <1>12 DEF Knows
<1> QED
  BY <1>13 DEF m, g, i, index

\* After add the map knows the file with the new span.
LEMMA AddedIsKnown ==
  ASSUME NEW f, Consistent(f), NEW m, Knows(m, f), NEW s \in SpanId, s \notin DOMAIN m,
         NEW k \in Nat \ {0}, AddFails(f) = "none"
  PROVE  Knows([y \in DOMAIN m \cup {s} |-> IF y \in DOMAIN m THEN m[y] ELSE f.count],
               Added(f, s, k))
<1> DEFINE n == [y \in DOMAIN m \cup {s} |-> IF y \in DOMAIN m THEN m[y] ELSE f.count]
           g == Added(f, s, k)
<1>1. /\ f.count \in Slot /\ g.count = f.count + 1
      /\ \A j \in Slot : g.span[j] = IF j = f.count THEN s ELSE f.span[j]
  BY AddedIsConsistent
<1>2. \A j \in Slot : j < g.count <=> j = f.count \/ j < f.count
  BY <1>1 DEF Slot
<1>3. DOMAIN n = DOMAIN m \cup {s} /\ n[s] = f.count /\ \A y \in DOMAIN m : n[y] = m[y]
  OBVIOUS
<1>4. ~(f.count < f.count)
  BY <1>1 DEF Slot
<1> HIDE DEF n, g
<1>5. \A y \in DOMAIN n : n[y] \in Slot /\ n[y] < g.count /\ g.span[n[y]] = y
  BY <1>1, <1>2, <1>3, <1>4 DEF Knows
<1>6. \A j \in Slot : j < g.count => g.span[j] \in DOMAIN n /\ n[g.span[j]] = j
  BY <1>1, <1>2, <1>3, <1>4 DEF Knows
<1>7. Knows(n, g)
  BY <1>5, <1>6 DEF Knows
<1> QED
  BY <1>7 DEF n, g

LEMMA LeastElement ==
  ASSUME NEW S \in SUBSET Nat, S # {}
  PROVE  \E x \in S : \A y \in S : x <= y
<1> DEFINE Less == OpToRel(<, Nat)
<1>1. IsWellFoundedOn(Less, Nat)
  BY NatLessThanWellFounded
<1>2. PICK x \in S : \A y \in S : <<y, x>> \notin Less
  <2> HIDE DEF Less
  <2> QED
    BY <1>1, WFMin
<1>3. \A y \in S : y < x => <<y, x>> \in Less
  BY DEF OpToRel
<1> HIDE DEF Less
<1>4. \A y \in S : ~(y < x)
  BY <1>2, <1>3
<1> QED
  BY <1>4

\* The scan of a store that is not empty ends at one of its spans.
LEMMA ScanFindsASlot ==
  ASSUME FileInv, active_span_count # 0
  PROVE  OldestSlot \in Slot /\ OldestSlot < active_span_count
<1> DEFINE Scanned == {i \in Slot : i < active_span_count}
           Marks == {mark[i] : i \in Scanned}
<1>0. /\ active_span_count \in 0 .. capacity /\ capacity \in Nat \ {0}
      /\ mark \in [Slot -> Nat]
  BY Capacity DEF FileInv, TypeOK
<1>1. Scanned \in SUBSET Nat /\ 0 \in Scanned
  BY <1>0 DEF Slot
<1>2. Marks \in SUBSET Nat /\ Marks # {}
  BY <1>0, <1>1
<1>3. PICK m \in Marks : \A k \in Marks : m <= k
  BY <1>2, LeastElement
<1> DEFINE Smallest == {i \in Scanned : mark[i] = m}
<1>4. Smallest \in SUBSET Nat /\ Smallest # {}
  BY <1>1, <1>3
<1>5. PICK i \in Smallest : \A j \in Smallest : i <= j
  BY <1>4, LeastElement
<1>6. \A j \in Scanned : mark[i] < mark[j] \/ (mark[i] = mark[j] /\ i <= j)
  BY <1>0, <1>2, <1>3, <1>5
<1> QED
  BY <1>5, <1>6 DEF OldestSlot

\* A context that is alone makes room, and knows what is left.
LEMMA AloneHasRoom ==
  ASSUME FileInv, NEW c \in Context, Fits(c), Knows(span_id_to_index[c], Now)
  PROVE  /\ Evicts(c) => RemoveFails(Now, EvictedIndex(c)) = "none"
         /\ AddFails(Left(c)) = "none"
         /\ Knows(MapLeft(c), Left(c))
<1>0. Consistent(Now) /\ Consistent(Left(c))
  BY NowIsConsistent, LeftIsConsistent
<1>1. CASE active_span_count = capacity
  <2>1. OldestSlot \in Slot /\ OldestSlot < active_span_count
    BY <1>0, <1>1, ScanFindsASlot DEF Consistent
  <2>2. span[OldestSlot] \in Indexed(c)
    BY <2>1 DEF Knows, Now, Indexed
  <2>3. Evicts(c)
    BY <1>1, <2>2 DEF Evicts
  <2>4. RemoveFails(Now, EvictedIndex(c)) = "none" /\ EvictedIndex(c) \in Slot
    BY <1>0, <2>2, <2>3, KnownIsRemovable, LeftIsConsistent DEF EvictedIndex, Indexed
  <2>5. Left(c) = Removed(Now, EvictedIndex(c))
        /\ MapLeft(c) = Reindexed(c, span[OldestSlot], EvictedIndex(c))
    BY <2>3, <2>4 DEF Left, MapLeft
  <2>6. Knows(MapLeft(c), Left(c))
    BY <2>2, <2>5, RemovedIsKnown DEF EvictedIndex
  <2>7. Left(c).count = capacity - 1
    BY <1>1, <2>5 DEF Removed, Now
  <2>8. AddFails(Left(c)) = "none"
    <3>1. /\ capacity - 1 \in Slot /\ ~(capacity - 1 >= capacity)
          /\ ~(capacity - 1 < capacity - 1)
      BY <1>0 DEF Slot, Consistent
    <3> QED
      BY <1>0, <2>7, <3>1 DEF AddFails, Consistent
  <2> QED
    BY <2>4, <2>6, <2>8
<1>2. CASE active_span_count # capacity
  <2>1. ~Evicts(c)
    BY <1>2 DEF Evicts
  <2>2. Left(c) = Now /\ MapLeft(c) = span_id_to_index[c]
    BY <2>1 DEF Left, MapLeft
  <2>3. active_span_count \in Slot /\ ~(active_span_count >= capacity)
        /\ ~(active_span_count < active_span_count)
    BY <1>2, <1>0 DEF Consistent, Now, Slot
  <2>4. AddFails(Now) = "none"
    BY <1>0, <2>3 DEF AddFails, Consistent, Now
  <2> QED
    BY <2>1, <2>2, <2>4
<1> QED
  BY <1>1, <1>2

\* One step, by every action.
SafeStep == /\ AloneInv'
            /\ ~overlapped /\ garbled # "now" =>
                 /\ failed_assertion' \in {"none", failed_assertion}
                 /\ touched'.named = touched'.span

LEMMA EndsAlone ==
  ASSUME NEW a, Ends(a)
  PROVE  AloneInv' /\ touched'.named = touched'.span
BY DEF Ends, AloneInv, NotTouched

\* A call on one of the contexts, which has the header's layout.
LEMMA CallAlone ==
  ASSUME SafeInv, NEW c \in open, NEW m, m \in [DOMAIN m -> Slot], Fits(c),
         span_id_to_index' = [span_id_to_index EXCEPT ![c] = m],
         UNCHANGED <<mmap_size, garbled, layout, open, overlapped>>,
         ~overlapped => Knows(m, Now') /\ touched'.named = touched'.span
  PROVE  AloneInv'
<1>1. c \in Context /\ InContexts
  BY DEF SafeInv, DeliveryInv, FileInv, TypeOK
<1>2. span_id_to_index'[c] = m
  BY <1>1 DEF InContexts
<1>3. Fits(c)' /\ Slot' = Slot
  BY SameSlots DEF Fits
<1>4. ~overlapped => open = {c}
  BY DEF SafeInv, AloneInv
<1>5. ~overlapped => Knows(span_id_to_index[c], Now)'
  BY <1>2, <1>3 DEF Knows
<1> QED
  BY <1>3, <1>4, <1>5 DEF AloneInv

\* Neither the file nor a map changes.
LEMMA NothingMoves ==
  ASSUME AloneInv, UNCHANGED <<file, layout, open, span_id_to_index, overlapped>>,
         ~overlapped => touched'.named = touched'.span
  PROVE  AloneInv'
<1>1. UNCHANGED <<mmap_size, active_span_count, mark, span, garbled>>
  BY DEF file
<1>2. Slot' = Slot /\ (Now)' = Now
  BY <1>1, SameSlots DEF Now
<1> QED
  BY <1>1, <1>2 DEF AloneInv, Fits, Knows

LEMMA SafeNext ==
  ASSUME SafeInv, [Next]_vars
  PROVE  SafeStep
<1>0. /\ FileInv /\ AloneInv /\ Consistent(Now) /\ OnDisk \subseteq added
      /\ open \subseteq Context /\ MapsOk /\ MapsTyped /\ RestTyped
  BY NowIsConsistent, FileInvParts DEF SafeInv, DeliveryInv, AllAdded, RestTyped, MapsOk
<1>1. ASSUME NEW c \in Context, NEW L \in MmapSize, initialize_span_data(c, L)
      PROVE  SafeStep
  <2>1. /\ open' = open \cup {c} /\ c \notin open
        /\ overlapped' = (overlapped \/ open # {})
        /\ Cleared(L) /\ garbled' # "now" /\ failed_assertion' = "none"
        /\ layout' = [layout EXCEPT ![c] = L]
        /\ UNCHANGED <<span_id_to_index, touched>>
    BY <1>1 DEF initialize_span_data, history
  <2>2. DOMAIN span_id_to_index'[c] = {}
    BY <1>0, <2>1 DEF MapsOk, ClosedAreEmpty, Indexed
  <2>3. Knows(span_id_to_index[c], Now)'
    <3>1. (Now').count = 0 /\ capacity' \in Nat
      BY <2>1, ClearedIsConsistent DEF Now, Cleared, Consistent
    <3>2. \A i \in Slot' : ~(i < 0)
      BY <3>1 DEF Slot
    <3> QED
      BY <2>2, <3>1, <3>2 DEF Knows
  <2>4. Fits(c)'
    BY <1>0, <2>1 DEF Fits, Cleared, RestTyped
  <2>5. ~overlapped' => open' = {c} /\ touched'.named = touched'.span
    BY <1>0, <2>1 DEF AloneInv, RestTyped
  <2>6. AloneInv'
    BY <2>3, <2>4, <2>5 DEF AloneInv
  <2> QED
    BY <1>0, <2>1, <2>6 DEF SafeStep, AloneInv
<1>2. ASSUME NEW c \in Context, get_recovered_spans(c)
      PROVE  SafeStep
  <2>1. UNCHANGED <<file, layout, open, span_id_to_index, overlapped, touched,
                    failed_assertion>>
    BY <1>2 DEF get_recovered_spans
  <2>2. ~overlapped => touched'.named = touched'.span
    BY <1>0, <2>1 DEF AloneInv
  <2>3. AloneInv'
    BY <1>0, <2>1, <2>2, NothingMoves
  <2> QED
    BY <2>1, <2>2, <2>3 DEF SafeStep
<1>3. ASSUME NEW c \in Context, release_span_data(c)
      PROVE  SafeStep
  <2>1. open' = open \ {c} /\ c \in open /\ UNCHANGED <<overlapped, touched, failed_assertion>>
    BY <1>3 DEF release_span_data, history
  <2>2. ~overlapped => open' = {} /\ touched'.named = touched'.span
    BY <1>0, <2>1 DEF AloneInv
  <2>3. AloneInv'
    BY <2>1, <2>2 DEF AloneInv
  <2> QED
    BY <2>1, <2>2, <2>3 DEF SafeStep
<1>4. ASSUME NEW c \in Context, NEW s \in SpanId, Add(c, s)
      PROVE  SafeStep
  <2>0. s \notin added /\ c \in open /\ Fits(c) /\ touched' = NotTouched
    BY <1>0, <1>4, AddEnds
  <2>1. CASE AddSucceeds(c, s)
    <3> DEFINE k == mark_counter[c] + 1
               m == [y \in DOMAIN MapLeft(c) \cup {s} |->
                       IF y \in DOMAIN MapLeft(c) THEN MapLeft(c)[y] ELSE Left(c).count]
    <3>1. /\ Consistent(Left(c)) /\ Spans(Left(c)) \subseteq OnDisk
          /\ MapLeft(c) \in [DOMAIN MapLeft(c) -> Slot]
      BY <1>0, <2>0, LeftIsConsistent
    <3>2. k \in Nat \ {0}
      BY <1>0 DEF RestTyped
    <3>3. /\ AddFails(Left(c)) = "none" /\ Writes(Added(Left(c), s, k))
          /\ span_id_to_index' = [span_id_to_index EXCEPT ![c] = m]
          /\ UNCHANGED <<layout, open, failed_assertion, overlapped>>
      BY <2>1 DEF AddSucceeds
    <3>4. m \in [DOMAIN m -> Slot]
      BY <3>1, <3>2, <3>3, AddedIsConsistent
    <3> HIDE DEF k
    <3>5. UNCHANGED <<mmap_size, garbled>>
      BY <3>3 DEF Writes
    <3>6. ASSUME ~overlapped PROVE Knows(m, Now')
      <4>1. Knows(MapLeft(c), Left(c))
        BY <1>0, <2>0, <3>6, AloneHasRoom DEF AloneInv
      <4>2. DOMAIN MapLeft(c) \subseteq added
        BY <1>0, <3>1, <4>1 DEF Knows, Spans
      <4>3. Knows(m, Added(Left(c), s, k))
        BY <2>0, <3>1, <3>2, <3>3, <4>1, <4>2, AddedIsKnown
      <4>4. Slot' = Slot
        BY <3>5, SameSlots
      <4> HIDE DEF m
      <4>5. /\ (Now').count = Added(Left(c), s, k).count
            /\ (Now').span = Added(Left(c), s, k).span
        BY <3>3 DEF Writes, Now
      <4> QED
        BY <4>3, <4>5 DEF Knows
    <3> HIDE DEF m
    <3>7. AloneInv'
      BY <2>0, <3>3, <3>4, <3>5, <3>6, CallAlone DEF NotTouched
    <3> QED
      BY <2>0, <3>3, <3>7 DEF SafeStep, NotTouched
  <2>2. CASE /\ \E a \in Fails : Ends(a)
             /\ \/ Evicts(c) /\ RemoveFails(Now, EvictedIndex(c)) # "none"
                \/ /\ Evicts(c) => RemoveFails(Now, EvictedIndex(c)) = "none"
                   /\ AddFails(Left(c)) # "none"
    <3>1. overlapped
      BY <1>0, <2>0, <2>2, AloneHasRoom DEF AloneInv
    <3> QED
      BY <2>2, <3>1, EndsAlone DEF SafeStep
  <2> QED
    BY <1>0, <1>4, <2>1, <2>2, AddEnds
<1>5. ASSUME NEW c \in Context, NEW x \in SpanId, Remove(c, x)
      PROVE  SafeStep
  <2> DEFINE i == span_id_to_index[c][x]
  <2>0. c \in open /\ x \in Indexed(c) /\ Fits(c) /\ SlotOf(layout[c]) = Slot
    BY <1>5, Capacity DEF Remove, Usable
  <2>1. i \in Slot
    BY <1>0, <2>0 DEF MapsTyped
  <2>2. \/ RemoveFails(Now, i) # "none" /\ Ends(RemoveFails(Now, i))
        \/ /\ RemoveFails(Now, i) = "none"
           /\ Writes(Removed(Now, i))
           /\ span_id_to_index' = [span_id_to_index EXCEPT ![c] = Reindexed(c, x, i)]
           /\ touched' = [named |-> x, span |-> span[i]]
           /\ UNCHANGED <<layout, open, failed_assertion, overlapped>>
    BY <1>5 DEF Remove
  <2>3. ~overlapped => /\ RemoveFails(Now, i) = "none" /\ span[i] = x
                       /\ Knows(Reindexed(c, x, i), Removed(Now, i))
    BY <1>0, <2>0, KnownIsRemovable, RemovedIsKnown DEF AloneInv, Indexed
  <2>4. Reindexed(c, x, i) \in [DOMAIN Reindexed(c, x, i) -> Slot]
    BY <1>0, <2>0, <2>1, ReindexedIsAMap
  <2> HIDE DEF i
  <2>5. CASE RemoveFails(Now, i) # "none" /\ Ends(RemoveFails(Now, i))
    BY <2>3, <2>5, EndsAlone DEF SafeStep
  <2>6. CASE /\ Writes(Removed(Now, i))
             /\ span_id_to_index' = [span_id_to_index EXCEPT ![c] = Reindexed(c, x, i)]
             /\ touched' = [named |-> x, span |-> span[i]]
             /\ UNCHANGED <<layout, open, failed_assertion, overlapped>>
    <3>1. UNCHANGED <<mmap_size, garbled>>
      BY <2>6 DEF Writes
    <3>2. (Now').count = Removed(Now, i).count /\ (Now').span = Removed(Now, i).span
      BY <2>6 DEF Writes, Now
    <3>3. ~overlapped => Knows(Reindexed(c, x, i), Now') /\ touched'.named = touched'.span
      BY <2>3, <2>6, <3>2 DEF Knows
    <3>4. AloneInv'
      BY <2>0, <2>4, <2>6, <3>1, <3>3, CallAlone
    <3> QED
      BY <2>6, <3>3, <3>4 DEF SafeStep
  <2> QED
    BY <2>2, <2>5, <2>6
<1>6. ASSUME NEW c \in Context, NEW x \in SpanId, End(c, x)
      PROVE  SafeStep
  <2> DEFINE i == span_id_to_index[c][x]
  <2>0. c \in open /\ x \in Indexed(c)
    BY <1>6 DEF End, Usable
  <2>1. \/ EndFails(i) # "none" /\ Ends(EndFails(i))
        \/ /\ touched' = [named |-> x, span |-> span[i]]
           /\ UNCHANGED <<file, layout, open, span_id_to_index, failed_assertion, overlapped>>
    BY <1>6 DEF End
  <2>2. ~overlapped => EndFails(i) = "none" /\ span[i] = x
    BY <1>0, <2>0, KnownIsRemovable DEF AloneInv, Indexed
  <2> HIDE DEF i
  <2>3. CASE EndFails(i) # "none" /\ Ends(EndFails(i))
    BY <2>2, <2>3, EndsAlone DEF SafeStep
  <2>4. CASE /\ touched' = [named |-> x, span |-> span[i]]
             /\ UNCHANGED <<file, layout, open, span_id_to_index, failed_assertion, overlapped>>
    <3>1. ~overlapped => touched'.named = touched'.span
      BY <2>2, <2>4
    <3>2. AloneInv'
      BY <1>0, <2>4, <3>1, NothingMoves
    <3> QED
      BY <2>4, <3>1, <3>2 DEF SafeStep
  <2> QED
    BY <2>1, <2>3, <2>4
<1>7. ASSUME NEW c \in Context, MisplacedCall(c)
      PROVE  SafeStep
  \* It takes a second context to find the file of another size, or garbled.
  <2>1. overlapped
    BY <1>0, <1>7 DEF MisplacedCall, Usable, AloneInv
  <2>2. CASE \E a \in Fails : Ends(a)
    BY <2>1, <2>2, EndsAlone DEF SafeStep
  <2>3. CASE UNCHANGED overlapped
    BY <1>0, <2>1, <2>3 DEF SafeStep, AloneInv
  <2> QED
    BY <1>7, <2>2, <2>3 DEF MisplacedCall, MisplacedReturns, Fails
<1>8. ASSUME Exit
      PROVE  SafeStep
  BY <1>8, EndsAlone DEF Exit, Ends, SafeStep
<1>9. ASSUME DiesRecovering
      PROVE  SafeStep
  BY <1>9, EndsAlone DEF DiesRecovering, SafeStep
<1>10. ASSUME UNCHANGED vars
       PROVE  SafeStep
  <2>1. UNCHANGED <<file, layout, open, span_id_to_index, overlapped, touched,
                    failed_assertion>>
    BY <1>10 DEF vars, file
  <2>2. ~overlapped => touched'.named = touched'.span
    BY <1>0, <2>1 DEF AloneInv
  <2>3. AloneInv'
    BY <1>0, <2>1, <2>2, NothingMoves
  <2> QED
    BY <2>1, <2>2, <2>3 DEF SafeStep
<1> QED
  BY <1>1, <1>2, <1>3, <1>4, <1>5, <1>6, <1>7, <1>8, <1>9, <1>10 DEF Next

\* A process that opens its contexts one after the other, of whatever sizes,
\* fails no assertion and ends and removes the spans it names, whatever it does
\* and whatever file it starts from, unless that is garbled
\* (initialize_tests.cpp:487, mutable_span_data.cpp:64, 79).
THEOREM OneAtATime == Spec => OneAtATimeIsSafe
<1>1. Init => SafeInv
  <2> SUFFICES ASSUME Init PROVE AloneInv
    BY InitDelivery DEF SafeInv
  <2> QED
    BY DEF Init, AloneInv, NotTouched
<1>2. SafeInv /\ [Next]_vars => SafeInv'
  BY FileStep, DeliveryStep, SafeNext DEF SafeInv, DeliveryInv, SafeStep
<1>3. SafeInv /\ [Next]_vars =>
        [\/ failed_assertion' \notin {"none", failed_assertion}
         \/ touched'.named # touched'.span
         => overlapped \/ garbled = "now"]_vars
  BY SafeNext DEF SafeStep
<1> QED
  BY <1>1, <1>2, <1>3, PTL DEF Spec, OneAtATimeIsSafe
=============================================================================
