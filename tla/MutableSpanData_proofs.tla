----------------------- MODULE MutableSpanData_proofs -----------------------
(***************************************************************************)
(* Proofs about MutableSpanData, for any number of slots, ids, times and   *)
(* adds.  What RawSpanData's own proofs establish is reused: every step of *)
(* MutableSpanData is one that RawSpanData allows.  The refinement of      *)
(* SpanBuffer rests on lemmas about finite sets of numbers in order: how   *)
(* the queue changes when one mark goes, comes, or moves to another slot.  *)
(***************************************************************************)
EXTENDS MutableSpanData, Sequences, FiniteSetTheorems, WellFoundedInduction, TLAPS

RawProofs == INSTANCE RawSpanData_proofs

USE ConstantsAssumption

LEMMA RawInvariant == Raw!IInv <=> RawProofs!IInv
  BY DEF Raw!IInv, RawProofs!IInv, Raw!TypeOK, RawProofs!TypeOK,
     Raw!MarkedWhole, RawProofs!MarkedWhole,
     Raw!AtMostOneDuplicate, RawProofs!AtMostOneDuplicate,
     Raw!SlotsMarked, RawProofs!SlotsMarked,
     Raw!MarksDistinct, RawProofs!MarksDistinct,
     Raw!Adding, RawProofs!Adding, Raw!Removing, RawProofs!Removing,
     Raw!Clearing, RawProofs!Clearing, Raw!Slot, RawProofs!Slot,
     Raw!Mark, RawProofs!Mark, Raw!RawSpan, RawProofs!RawSpan,
     Raw!Word, RawProofs!Word, Raw!PC, RawProofs!PC,
     Raw!Recoverable, RawProofs!Recoverable, Raw!Whole, RawProofs!Whole,
     Raw!Span, RawProofs!Span, Raw!Content, RawProofs!Content,
     Raw!to_raw_span, RawProofs!to_raw_span, Raw!last_index, RawProofs!last_index,
     Raw!Running, RawProofs!Running,
     Raw!MustBeMarked, RawProofs!MustBeMarked, Raw!MayAdd, RawProofs!MayAdd

LEMMA RawInitial == Raw!Init <=> RawProofs!Init
  BY DEF Raw!Init, RawProofs!Init, Raw!NoCall, RawProofs!NoCall,
     Raw!Slot, RawProofs!Slot, Raw!NoSpan, RawProofs!NoSpan,
     Raw!Word, RawProofs!Word

LEMMA RawNext == [Raw!Next]_(Raw!vars) <=> [RawProofs!Next]_(RawProofs!vars)
  BY DEF Raw!Next, RawProofs!Next, Raw!vars, RawProofs!vars,
     Raw!AddBegin, RawProofs!AddBegin, Raw!AddCopy, RawProofs!AddCopy,
     Raw!AddMark, RawProofs!AddMark, Raw!AddCount, RawProofs!AddCount,
     Raw!RemoveLast, RawProofs!RemoveLast, Raw!RemoveBegin, RawProofs!RemoveBegin,
     Raw!RemoveCopy, RawProofs!RemoveCopy, Raw!RemoveMark, RawProofs!RemoveMark,
     Raw!RemoveLastMark, RawProofs!RemoveLastMark,
     Raw!RemoveCount, RawProofs!RemoveCount,
     Raw!SetEndTime, RawProofs!SetEndTime,
     Raw!SetAttributeOnSpan, RawProofs!SetAttributeOnSpan, Raw!Crash, RawProofs!Crash,
     Raw!RemoveAllCount, RawProofs!RemoveAllCount,
     Raw!RemoveAllMark, RawProofs!RemoveAllMark,
     Raw!RemoveAllSpan, RawProofs!RemoveAllSpan,
     Raw!RemoveAllDone, RawProofs!RemoveAllDone,
     Raw!Active, RawProofs!Active, Raw!MayAdd, RawProofs!MayAdd,
     Raw!Slot, RawProofs!Slot, Raw!Word, RawProofs!Word,
     Raw!Span, RawProofs!Span, Raw!to_raw_span, RawProofs!to_raw_span, Raw!NoSpan, RawProofs!NoSpan,
     Raw!last_index, RawProofs!last_index, Raw!file, RawProofs!file,
     Raw!locals, RawProofs!locals

LEMMA RawNextStep == Raw!IInv /\ [Raw!Next]_(Raw!vars) => Raw!IInv'
  BY RawInvariant, RawNext, RawProofs!NextStep, PTL

-----------------------------------------------------------------------------
(* Every step keeps the contract of RawSpanData.                           *)

LEMMA ContractStep == MInv /\ [Next]_vars => [Raw!Next]_(Raw!vars)
<1> SUFFICES ASSUME MInv, [Next]_vars PROVE Raw!Next \/ UNCHANGED Raw!vars
  OBVIOUS
<1>1. ASSUME Idle, NEW x \in Indexed, RemoveStart(span_id_to_index[x])
      PROVE  Raw!Next
  <2>1. span_id_to_index[x] \in Slot /\ Raw!Active(span_id_to_index[x])
    BY <1>1 DEF MInv, TypeOK, MapMatchesSlots, Raw!Active, Slot
  <2> QED
    BY <1>1, <2>1 DEF RemoveStart, Raw!Next, Slot
<1>2. ASSUME NEW s \in Span, AddWithRoom(s)
      PROVE  Raw!Next
  <2>1. Raw!MayAdd(s)
    BY <1>2 DEF AddWithRoom, Idle, MInv, TypeOK, Raw!TypeOK, MapMatchesSlots,
       Freeing, Raw!Running, Raw!MayAdd, Slot
  <2> QED
    BY <1>2, <2>1 DEF AddWithRoom, Raw!Next, Span
<1>3. ASSUME NEW s \in Span, AddWhenFull(s)
      PROVE  Raw!Next
  BY <1>1, <1>3 DEF AddWhenFull
<1>4. ASSUME AddAfterEvict
      PROVE  Raw!Next
  <2>1. pc = "idle" /\ Raw!MayAdd(add_argument) /\ add_argument \in Span
    BY <1>4 DEF AddAfterEvict, Raw!AddBegin, MInv, Arguments, MapMatchesSlots,
       Freeing, Raw!Running, Raw!MayAdd, Slot
  <2> QED
    BY <1>4, <2>1 DEF AddAfterEvict, Raw!Next, Span
<1>5. ASSUME NEW x \in SpanId, RemoveSpan(x)
      PROVE  Raw!Next
  BY <1>1, <1>5 DEF RemoveSpan
<1>6. ASSUME NEW x \in SpanId, NEW t \in Time, EndSpan(x, t)
      PROVE  Raw!Next
  <2>1. span_id_to_index[x] \in Slot /\ Raw!Active(span_id_to_index[x])
    BY <1>6 DEF EndSpan, MInv, TypeOK, MapMatchesSlots, Idle, Raw!Running,
       Raw!Active, Slot
  <2> QED
    BY <1>6, <2>1 DEF EndSpan, Raw!Next, Slot
<1>7. ASSUME NEW x \in SpanId, NEW a \in Attributes, SetAttributeOnSpan(x, a)
      PROVE  Raw!Next
  <2>1. span_id_to_index[x] \in Slot /\ Raw!Active(span_id_to_index[x])
    BY <1>7 DEF SetAttributeOnSpan, MInv, TypeOK, MapMatchesSlots, Idle, Raw!Running,
       Raw!Active, Slot
  <2> QED
    BY <1>7, <2>1 DEF SetAttributeOnSpan, Raw!Next, Slot
<1>8. ASSUME EvictReturns \/ AddReturns \/ RemoveReturns \/ RawStore \/ Crash
      PROVE  Raw!Next
  BY <1>8 DEF EvictReturns, AddReturns, RemoveReturns, RawStore, Crash, Raw!Next
<1>9. ASSUME RemoveAll
      PROVE  Raw!Next
  BY <1>9 DEF RemoveAll, Raw!Next, Slot
<1>10. CASE UNCHANGED vars
  BY <1>10 DEF vars, raw_vars
<1>11. CASE Next
  BY <1>2, <1>3, <1>4, <1>5, <1>6, <1>7, <1>8, <1>9, <1>11 DEF Next
<1> QED
  BY <1>10, <1>11

-----------------------------------------------------------------------------
(* Every action preserves the invariant.                                   *)

LEMMA InitMInv == Init => MInv
<1> SUFFICES ASSUME Init PROVE MInv
  OBVIOUS
<1>1. Raw!IInv
  BY RawInitial, RawInvariant, RawProofs!InitIInv DEF Init
<1>2. Indexed = {}
  BY DEF Init, EmptyMap, Indexed
<1>3. TypeOK
  BY <1>1, <1>2 DEF Init, NoCall, EmptyMap, TypeOK, Raw!IInv, Method
<1>4. MethodMatchesStore /\ Arguments
  BY DEF Init, NoCall, Raw!Init, MethodMatchesStore, Arguments, Freeing
<1>5. MapMatchesSlots
  BY <1>2 DEF Init, Raw!Init, MapMatchesSlots, Slot, Raw!Slot
<1> QED
  BY <1>1, <1>3, <1>4, <1>5 DEF MInv

LEMMA AddWithRoomStep ==
  ASSUME MInv, NEW s \in Span, AddWithRoom(s), Raw!IInv'
  PROVE  MInv'
<1> USE DEF MInv, AddWithRoom, Idle, Raw!AddBegin
<1>1. TypeOK'
  BY DEF TypeOK, Indexed, Raw!IInv, Method
<1>2. MethodMatchesStore'
  BY DEF MethodMatchesStore, Freeing
<1>3. Arguments'
  BY DEF Arguments, Freeing, Indexed
<1>4. MapMatchesSlots'
  BY DEF MapMatchesSlots, MethodMatchesStore, Arguments, Freeing, Indexed, TypeOK,
     Raw!TypeOK, Slot, Raw!Slot, Raw!Running
<1> QED
  BY <1>1, <1>2, <1>3, <1>4

LEMMA AddAfterEvictStep ==
  ASSUME MInv, AddAfterEvict, Raw!IInv'
  PROVE  MInv'
<1> USE DEF MInv, AddAfterEvict, Raw!AddBegin, calls
<1>1. TypeOK'
  BY DEF TypeOK, Indexed, Raw!IInv
<1>2. MethodMatchesStore'
  BY DEF MethodMatchesStore, Freeing
<1>3. Arguments'
  BY DEF Arguments, Freeing, Indexed
<1>4. MapMatchesSlots'
  BY DEF MapMatchesSlots, MethodMatchesStore, Arguments, Freeing, Indexed, TypeOK,
     Raw!TypeOK, Slot, Raw!Slot, Raw!Running
<1> QED
  BY <1>1, <1>2, <1>3, <1>4

LEMMA AddReturnsStep ==
  ASSUME MInv, AddReturns, Raw!IInv'
  PROVE  MInv'
<1> USE DEF MInv, AddReturns, Raw!AddCount, Raw!locals, CallEnds
<1> DEFINE x == add_argument["span_id"]
<1>a. x \in SpanId /\ x \notin Indexed /\ raw_index \in Slot /\ raw_index = active_span_count
  BY DEF Arguments, Raw!TypeOK, Raw!IInv, Raw!Adding, Raw!Span,
     Raw!to_raw_span, Raw!Word, Slot
<1>b. span[raw_index]["span_id"] = x
  BY DEF Arguments, Raw!IInv, Raw!Adding, Raw!Word
<1>c. /\ Indexed' = Indexed \cup {x}
      /\ span_id_to_index'[x] = raw_index
      /\ \A y \in Indexed : span_id_to_index'[y] = span_id_to_index[y]
      /\ span_id_to_index' \in [Indexed' -> Slot]
  BY <1>a DEF TypeOK, Indexed
<1> HIDE DEF x
<1>1. TypeOK'
  BY <1>a, <1>c DEF TypeOK, Raw!IInv, Method
<1>2. MethodMatchesStore'
  BY DEF MethodMatchesStore, Freeing
<1>3. Arguments'
  BY <1>c DEF Arguments, Freeing
<1>4. MapMatchesSlots'
  BY <1>a, <1>b, <1>c DEF MapMatchesSlots, MethodMatchesStore, Freeing, TypeOK,
     Raw!TypeOK, Slot, Raw!Slot, Raw!Running
<1> QED
  BY <1>1, <1>2, <1>3, <1>4

LEMMA EndSpanStep ==
  ASSUME MInv, NEW x \in SpanId, NEW t \in Time, EndSpan(x, t), Raw!IInv'
  PROVE  MInv'
<1> USE DEF MInv, EndSpan, Idle, Raw!SetEndTime, Raw!locals, calls
<1>1. TypeOK'
  BY DEF TypeOK, Indexed, Raw!IInv
<1>2. MethodMatchesStore'
  BY DEF MethodMatchesStore, Freeing
<1>3. Arguments'
  BY DEF Arguments, Freeing
<1>4. MapMatchesSlots'
  BY DEF MapMatchesSlots, MethodMatchesStore, Arguments, Freeing, Indexed, TypeOK,
     Raw!TypeOK, Slot, Raw!Slot, Raw!Running, Raw!RawSpan, Raw!Word
<1> QED
  BY <1>1, <1>2, <1>3, <1>4

LEMMA SetAttributeStep ==
  ASSUME MInv, NEW x \in SpanId, NEW a \in Attributes, SetAttributeOnSpan(x, a), Raw!IInv'
  PROVE  MInv'
<1> USE DEF MInv, SetAttributeOnSpan, Idle, Raw!SetAttributeOnSpan, Raw!locals, calls
<1>1. TypeOK'
  BY DEF TypeOK, Indexed, Raw!IInv
<1>2. MethodMatchesStore'
  BY DEF MethodMatchesStore, Freeing
<1>3. Arguments'
  BY DEF Arguments, Freeing
<1>4. MapMatchesSlots'
  BY DEF MapMatchesSlots, MethodMatchesStore, Arguments, Freeing, Indexed, TypeOK,
     Raw!TypeOK, Slot, Raw!Slot, Raw!Running, Raw!RawSpan, Raw!Word
<1> QED
  BY <1>1, <1>2, <1>3, <1>4

LEMMA RawStoreStep ==
  ASSUME MInv, RawStore, Raw!IInv'
  PROVE  MInv'
<1> USE DEF MInv, RawStore, Raw!AddCopy, Raw!RemoveCopy, Raw!AddMark, Raw!RemoveMark, Raw!RemoveLastMark, Raw!locals, calls
<1>1. TypeOK'
  BY DEF TypeOK, Indexed, Raw!IInv
<1>2. MethodMatchesStore'
  BY DEF MethodMatchesStore, Freeing
<1>3. Arguments'
  BY DEF Arguments, Freeing, Indexed
<1>4. MapMatchesSlots'
  <2> USE DEF MapMatchesSlots, Indexed, Raw!Running
  <2>1. CASE \E w \in Raw!Word : Raw!AddCopy(w)
    <3>1. ~Freeing /\ ~Freeing' /\ raw_index = active_span_count
      BY <2>1 DEF MethodMatchesStore, Freeing, Raw!IInv, Raw!Adding
    <3>2. \A i \in Slot : i < active_span_count => span'[i] = span[i]
      BY <2>1, <3>1 DEF Slot, Raw!Slot
    <3> QED
      BY <2>1, <3>1, <3>2 DEF TypeOK
  <2>2. CASE \E w \in Raw!Word : Raw!RemoveCopy(w)
    <3>1. Freeing /\ Freeing'
      BY <2>2 DEF MethodMatchesStore, Freeing, TypeOK, Method
    <3>2. \A i \in Slot : i # raw_index => span'[i] = span[i]
      BY <2>2
    <3> QED
      BY <2>2, <3>1, <3>2
  <2>3. CASE Raw!AddMark \/ Raw!RemoveMark \/ Raw!RemoveLastMark
    BY <2>3 DEF Freeing
  <2> QED
    BY <2>1, <2>2, <2>3
<1> QED
  BY <1>1, <1>2, <1>3, <1>4

LEMMA CrashStep ==
  ASSUME MInv, Crash, Raw!IInv'
  PROVE  MInv'
<1> USE DEF MInv, Crash, CallEnds, EmptyMap, Raw!Crash, Raw!file
<1>1. TypeOK'
  BY DEF TypeOK, Indexed, Raw!IInv, Method
<1>2. MethodMatchesStore'
  BY DEF MethodMatchesStore, Freeing
<1>3. Arguments'
  BY DEF Arguments, Freeing
<1>4. MapMatchesSlots'
  BY DEF MapMatchesSlots, MethodMatchesStore, Arguments, Freeing, Indexed, TypeOK,
     Raw!TypeOK, Slot, Raw!Slot, Raw!Running
<1> QED
  BY <1>1, <1>2, <1>3, <1>4

LEMMA RemoveAllStep ==
  ASSUME MInv, RemoveAll, Raw!IInv'
  PROVE  MInv'
<1> USE DEF MInv, RemoveAll, Raw!RemoveAllCount, Raw!RemoveAllMark, Raw!RemoveAllSpan, Raw!RemoveAllDone, Raw!file, Raw!locals, calls
<1>1. TypeOK'
  BY DEF TypeOK, Indexed, Raw!IInv
<1>2. MethodMatchesStore'
  BY DEF MethodMatchesStore, Freeing
<1>3. Arguments'
  BY DEF Arguments, MethodMatchesStore, Freeing
<1>4. MapMatchesSlots'
  BY DEF MapMatchesSlots, MethodMatchesStore, Freeing, Indexed, Slot, Raw!Slot,
     Raw!Running, Raw!IInv, Raw!Clearing
<1> QED
  BY <1>1, <1>2, <1>3, <1>4

LEMMA MapAfterRemove ==
  ASSUME MInv, Freeing, ~Freeing', Raw!RemoveCount,
         span_id_to_index' = Reindexed(remove_argument, raw_index, last_span_id)
  PROVE  /\ Indexed' = Indexed \ {remove_argument}
         /\ span_id_to_index' \in [Indexed' -> Slot]
         /\ MapMatchesSlots'
<1> USE DEF MInv, Raw!RemoveCount, Raw!locals
<1> DEFINE id == remove_argument
           moved == last_span_id
<1>a. Freeing /\ pc = "remove_count" /\ ~Freeing'
  OBVIOUS
<1>b. /\ raw_index \in Slot /\ raw_index <= Raw!last_index
      /\ active_span_count \in Nat \ {0}
      /\ raw_index = Raw!last_index => moved = 0
      /\ raw_index < Raw!last_index => /\ moved = span[raw_index]["span_id"]
                                       /\ moved = span[Raw!last_index]["span_id"]
                                       /\ moved # 0
  <2>1. raw_index < Raw!last_index => span[raw_index]["span_id"] \in SpanId
    BY <1>a DEF Raw!IInv, Raw!TypeOK, Raw!MarkedWhole, Raw!Recoverable, Raw!Whole,
       Raw!SlotsMarked, Raw!MustBeMarked, Raw!Running, Raw!Slot, Raw!last_index
  <2> QED
    BY <1>a, <2>1, ConstantsAssumption
       DEF TypeOK, Raw!TypeOK, Raw!IInv, Raw!Removing, Slot, Raw!Slot, Raw!last_index
<1>c. id \in Indexed /\ span_id_to_index[id] = raw_index
  BY <1>a DEF Arguments
<1>d. /\ Raw!last_index \in Slot
      /\ moved # 0 => /\ moved \in Indexed /\ span_id_to_index[moved] = Raw!last_index
                      /\ raw_index < Raw!last_index
  <2>1. CASE raw_index < Raw!last_index
    <3>1. Raw!last_index \in Slot /\ Raw!last_index < active_span_count
      BY <1>b, <2>1 DEF TypeOK, Raw!TypeOK, Slot, Raw!Slot, Raw!last_index
    <3> QED
      BY <1>a, <1>b, <2>1, <3>1 DEF MapMatchesSlots, Raw!Running
  <2>2. CASE raw_index = Raw!last_index
    BY <1>b, <2>2
  <2> QED
    BY <1>b, <2>1, <2>2 DEF Slot, Raw!Slot, Raw!last_index
<1>e. /\ Indexed' = Indexed \ {id}
      /\ \A x \in Indexed' : span_id_to_index'[x] = IF x = moved /\ moved # 0
                                                    THEN raw_index ELSE span_id_to_index[x]
      /\ span_id_to_index' \in [Indexed' -> Slot]
  <2>1. span_id_to_index' = Reindexed(id, raw_index, moved)
    OBVIOUS
  <2>2. moved # 0 => moved \in Indexed
    BY <1>d
  <2> HIDE DEF id, moved
  <2> DEFINE m == span_id_to_index'
  <2>3. /\ DOMAIN m = (Indexed \cup ({moved} \ {0})) \ {id}
        /\ \A x \in DOMAIN m : m[x] = IF x = moved /\ moved # 0
                                      THEN raw_index ELSE span_id_to_index[x]
        /\ m = [x \in DOMAIN m |-> m[x]]
    BY <2>1 DEF Indexed, Reindexed
  <2>4. \A x \in DOMAIN m : m[x] \in Slot
    BY <1>b, <2>3 DEF TypeOK, Indexed
  <2>5. (Indexed \cup ({moved} \ {0})) \ {id} = Indexed \ {id}
    BY <2>2
  <2> QED
    BY <2>3, <2>4, <2>5 DEF Indexed
<1> HIDE DEF id, moved
<1>f. MapMatchesSlots'
  <2>1. \A x \in Indexed' : /\ span_id_to_index'[x] < active_span_count'
                            /\ span[span_id_to_index'[x]]["span_id"] = x
    <3> SUFFICES ASSUME NEW x \in Indexed'
                 PROVE  /\ span_id_to_index'[x] < active_span_count'
                        /\ span[span_id_to_index'[x]]["span_id"] = x
      OBVIOUS
    <3>1. CASE x = moved /\ moved # 0
      BY <1>b, <1>d, <1>e, <3>1 DEF Raw!last_index
    <3>2. CASE ~(x = moved /\ moved # 0)
      <4>1. /\ x \in Indexed /\ x # id /\ span_id_to_index'[x] = span_id_to_index[x]
            /\ span[span_id_to_index[x]]["span_id"] = x
            /\ span_id_to_index[x] < active_span_count
            /\ span_id_to_index[x] # raw_index
        BY <1>a, <1>e, <3>2 DEF MapMatchesSlots, id
      <4>2. span_id_to_index[x] # Raw!last_index
        BY <1>b, <1>d, <3>2, <4>1 DEF Slot, Raw!Slot
      <4> QED
        BY <1>b, <4>1, <4>2 DEF TypeOK, Slot, Raw!Slot, Raw!last_index
    <3> QED
      BY <3>1, <3>2
  <2>2. ASSUME NEW i \in Slot, i < active_span_count'
        PROVE  /\ span[i]["span_id"] \in Indexed'
               /\ span_id_to_index'[span[i]["span_id"]] = i
    <3>1. i < Raw!last_index
      BY <1>b, <2>2 DEF Raw!last_index
    <3>2. CASE i = raw_index
      BY <1>b, <1>c, <1>d, <1>e, <3>1, <3>2, ConstantsAssumption
         DEF TypeOK, Slot, Raw!Slot, Raw!last_index
    <3>3. CASE i # raw_index
      <4>1. /\ span[i]["span_id"] \in Indexed
            /\ span_id_to_index[span[i]["span_id"]] = i
        BY <1>a, <1>b, <3>1, <3>3 DEF MapMatchesSlots, Raw!Running, Slot, Raw!Slot,
           Raw!last_index
      <4> QED
        BY <1>b, <1>c, <1>d, <1>e, <3>1, <3>3, <4>1 DEF Raw!last_index
    <3> QED
      BY <3>2, <3>3
  <2> QED
    BY <1>a, <2>1, <2>2 DEF MapMatchesSlots, Raw!Running
<1> QED
  BY <1>e, <1>f DEF id

LEMMA EvictReturnsStep ==
  ASSUME MInv, EvictReturns, Raw!IInv'
  PROVE  MInv'
<1> USE DEF MInv, EvictReturns, Raw!RemoveCount, Raw!locals
<1>1. Freeing /\ ~Freeing'
  BY DEF Freeing
<1>2. /\ Indexed' = Indexed \ {remove_argument}
      /\ span_id_to_index' \in [Indexed' -> Slot]
      /\ MapMatchesSlots'
  BY <1>1, MapAfterRemove
<1>3. TypeOK'
  BY <1>2 DEF TypeOK, Raw!IInv, Method
<1>4. MethodMatchesStore'
  BY DEF MethodMatchesStore, Freeing
<1>5. Arguments'
  BY <1>1, <1>2 DEF Arguments, Raw!TypeOK, Raw!IInv
<1> QED
  BY <1>2, <1>3, <1>4, <1>5

LEMMA RemoveReturnsStep ==
  ASSUME MInv, RemoveReturns, Raw!IInv'
  PROVE  MInv'
<1> USE DEF MInv, RemoveReturns, Raw!RemoveCount, Raw!locals, CallEnds
<1>1. Freeing /\ ~Freeing'
  BY DEF Freeing
<1>2. /\ Indexed' = Indexed \ {remove_argument}
      /\ span_id_to_index' \in [Indexed' -> Slot]
      /\ MapMatchesSlots'
  BY <1>1, MapAfterRemove
<1>3. TypeOK'
  BY <1>2 DEF TypeOK, Raw!IInv, Method
<1>4. MethodMatchesStore'
  BY DEF MethodMatchesStore, Freeing
<1>5. Arguments'
  BY <1>1, <1>2 DEF Arguments
<1> QED
  BY <1>2, <1>3, <1>4, <1>5

LEMMA RemoveStartStep ==
  ASSUME MInv, Idle, NEW x \in Indexed, RemoveStart(span_id_to_index[x]),
         Freeing', remove_argument' = x, UNCHANGED span_id_to_index
  PROVE  MapMatchesSlots' /\ raw_index' = span_id_to_index'[remove_argument']
         /\ pc' \in {"remove_span", "remove_count"}
<1> USE DEF MInv, Idle, RemoveStart, Raw!RemoveLast, Raw!RemoveBegin, Indexed
<1>1. span' = span /\ active_span_count' = active_span_count
      /\ raw_index' = span_id_to_index[x] /\ pc' \in {"remove_span", "remove_count"}
  OBVIOUS
<1>2. \A y \in Indexed : y # x => span_id_to_index[y] # span_id_to_index[x]
  BY DEF MapMatchesSlots, Freeing
<1> QED
  BY <1>1, <1>2 DEF MapMatchesSlots, Freeing, Raw!Running

LEMMA AddWhenFullStep ==
  ASSUME MInv, NEW s \in Span, AddWhenFull(s), Raw!IInv'
  PROVE  MInv'
<1> USE DEF MInv, AddWhenFull, Idle
<1>1. TypeOK'
  BY DEF TypeOK, Indexed, Raw!IInv, Method
<1>2. /\ MapMatchesSlots'
      /\ raw_index' = span_id_to_index'[remove_argument']
      /\ pc' \in {"remove_span", "remove_count"}
  BY RemoveStartStep DEF Freeing
<1>3. MethodMatchesStore' /\ Arguments'
  BY <1>2 DEF MethodMatchesStore, Arguments, Indexed
<1> QED
  BY <1>1, <1>2, <1>3

LEMMA RemoveSpanStep ==
  ASSUME MInv, NEW x \in SpanId, RemoveSpan(x), Raw!IInv'
  PROVE  MInv'
<1> USE DEF MInv, RemoveSpan, Idle
<1>1. TypeOK'
  BY DEF TypeOK, Indexed, Raw!IInv, Method
<1>2. /\ MapMatchesSlots'
      /\ raw_index' = span_id_to_index'[remove_argument']
      /\ pc' \in {"remove_span", "remove_count"}
  BY RemoveStartStep DEF Freeing
<1>3. MethodMatchesStore' /\ Arguments'
  BY <1>2 DEF MethodMatchesStore, Arguments, Indexed
<1> QED
  BY <1>1, <1>2, <1>3

-----------------------------------------------------------------------------
(* The invariant holds of every behaviour, and the properties follow.      *)

LEMMA NextMInv == MInv /\ [Next]_vars => MInv'
<1> SUFFICES ASSUME MInv, [Next]_vars PROVE MInv'
  OBVIOUS
<1>1. Raw!IInv'
  BY ContractStep, RawNextStep DEF MInv
<1>2. CASE UNCHANGED vars
  BY <1>1, <1>2 DEF MInv, vars, raw_vars, Raw!vars, TypeOK, Raw!TypeOK, Indexed,
     MethodMatchesStore, Arguments, MapMatchesSlots, Freeing, Raw!Running
<1>3. CASE Next
  <2>1. CASE \E s \in Span : AddWithRoom(s) \/ AddWhenFull(s)
    BY <1>1, <2>1, AddWithRoomStep, AddWhenFullStep
  <2>2. CASE EvictReturns \/ AddAfterEvict \/ AddReturns \/ RemoveReturns
    BY <1>1, <2>2, EvictReturnsStep, AddAfterEvictStep, AddReturnsStep, RemoveReturnsStep
  <2>3. CASE \E x \in SpanId : \/ RemoveSpan(x)
                               \/ \E t \in Time : EndSpan(x, t)
                               \/ \E a \in Attributes : SetAttributeOnSpan(x, a)
    BY <1>1, <2>3, RemoveSpanStep, EndSpanStep, SetAttributeStep
  <2>4. CASE RawStore \/ Crash \/ RemoveAll
    BY <1>1, <2>4, RawStoreStep, CrashStep, RemoveAllStep
  <2> QED
    BY <1>3, <2>1, <2>2, <2>3, <2>4 DEF Next
<1> QED
  BY <1>2, <1>3

LEMMA InvarianceM == Spec => []MInv
  BY InitMInv, NextMInv, PTL DEF Spec

\* The map, the call and the store keep their types.
THEOREM TypeCorrect == Spec => []TypeOK
<1>1. MInv => TypeOK
  BY DEF MInv
<1> QED
  BY <1>1, InvarianceM, PTL

\* The map finds every active span at its slot and nothing else, after any
\* number of removals and evictions have moved spans between slots.
THEOREM MapFindsEverySpan == Spec => []IndexFindsItsSpan
<1>1. MInv => IndexFindsItsSpan
  <2> SUFFICES ASSUME MInv, Idle PROVE IndexFindsItsSpan
    BY DEF IndexFindsItsSpan
  <2>1. \A x \in Indexed : /\ span_id_to_index[x] \in Slot
                           /\ span_id_to_index[x] < active_span_count
                           /\ span[span_id_to_index[x]]["span_id"] = x
    BY DEF MInv, TypeOK, MapMatchesSlots, Idle, Freeing
  <2>2. \A i \in Slot : Raw!Active(i) => span[i]["span_id"] \in Indexed
    BY DEF MInv, MapMatchesSlots, Idle, Freeing, Raw!Running, Raw!Active
  <2> QED
    BY <2>1, <2>2 DEF IndexFindsItsSpan, Raw!Active, Slot
<1> QED
  BY <1>1, InvarianceM, PTL

\* add, remove, end and the eviction inside add use the slots only as
\* RawSpanData allows: the whole behaviour is one of RawSpanData.
THEOREM CallsKeepTheContract == Spec => KeepsRawContract
<1>1. Init => Raw!Init
  BY DEF Init
<1> QED
  BY <1>1, ContractStep, InvarianceM, PTL DEF Spec, KeepsRawContract, Raw!Spec

\* So no recovery after a crash of the application's process finds a span that
\* is half written or mixed of two, whatever it was calling.
THEOREM ApplicationSpansAreWhole == Spec => []Raw!MarkedWhole
<1>1. MInv => Raw!MarkedWhole
  BY DEF MInv, Raw!IInv
<1> QED
  BY <1>1, InvarianceM, PTL

-----------------------------------------------------------------------------
(* The scan for the oldest span.                                           *)

LEMMA LeastElement ==
  ASSUME NEW S \in SUBSET Nat, S # {}
  PROVE  \E x \in S : \A y \in S : x <= y
<1> DEFINE Less == OpToRel(<, Nat)
<1>1. IsWellFoundedOn(Less, Nat)
  BY NatLessThanWellFounded
<1>2. PICK x \in S : \A y \in S : <<y, x>> \notin Less
  <2> HIDE DEF Less
  <2> QED
    BY <1>1, WFMin
<1>3. \A y \in S : y < x => <<y, x>> \in Less
  BY DEF OpToRel
<1> HIDE DEF Less
<1>4. \A y \in S : ~(y < x)
  BY <1>2, <1>3
<1> QED
  BY <1>4

LEMMA ScanFindsASlot ==
  ASSUME Raw!TypeOK, active_span_count # 0
  PROVE  /\ OldestSlot \in Slot /\ OldestSlot < active_span_count
         /\ \A j \in Slot : j < active_span_count =>
              mark[OldestSlot] < mark[j] \/ (mark[OldestSlot] = mark[j] /\ OldestSlot <= j)
<1> DEFINE Scanned == {i \in Slot : i < active_span_count}
           ScannedMarks == {mark[i] : i \in Scanned}
<1>1. Scanned \in SUBSET Nat /\ 0 \in Scanned
  BY DEF Raw!TypeOK, Slot, Raw!Slot
<1>2. ScannedMarks \in SUBSET Nat /\ ScannedMarks # {}
  BY <1>1 DEF Raw!TypeOK, Slot, Raw!Mark
<1>3. PICK m \in ScannedMarks : \A k \in ScannedMarks : m <= k
  BY <1>2, LeastElement
<1> DEFINE Smallest == {i \in Scanned : mark[i] = m}
<1>4. Smallest \in SUBSET Nat /\ Smallest # {}
  BY <1>1, <1>3
<1>5. PICK i \in Smallest : \A j \in Smallest : i <= j
  BY <1>4, LeastElement
<1>6. \A j \in Scanned : mark[i] < mark[j] \/ (mark[i] = mark[j] /\ i <= j)
  BY <1>2, <1>3, <1>5
<1> QED
  BY <1>5, <1>6 DEF OldestSlot

\* A full store always has an oldest span to evict, and the map knows it, so
\* add never runs past the last slot.
THEOREM FullStoreEvicts == Spec => []OldestIsEvicted
<1>1. MInv => OldestIsEvicted
  <2> SUFFICES ASSUME MInv, pc = "idle", method \in {"none", "add"}
               PROVE  /\ method = "add" => active_span_count < MaxSpans
                      /\ active_span_count = MaxSpans => OldestSpanId \in Indexed
    BY DEF OldestIsEvicted
  <2>1. method = "add" => active_span_count < MaxSpans
    BY DEF MInv, Arguments
  <2>2. ASSUME active_span_count = MaxSpans
        PROVE  OldestSpanId \in Indexed
    <3>1. OldestSlot \in Slot /\ OldestSlot < active_span_count
      BY <2>2, ScanFindsASlot DEF MInv, Raw!IInv
    <3> QED
      BY <3>1 DEF MInv, MapMatchesSlots, Freeing, Raw!Running, OldestSpanId
  <2> QED
    BY <2>1, <2>2
<1> QED
  BY <1>1, InvarianceM, PTL

-----------------------------------------------------------------------------
(* Finite sets of numbers in order.                                        *)

LEMMA RankOf ==
  ASSUME NEW S \in SUBSET Nat, IsFiniteSet(S), NEW m \in S
  PROVE  Rank(S, m) \in 1 .. Cardinality(S)
<1> DEFINE Below == {x \in S : x <= m}
<1>1. IsFiniteSet(Below) /\ Cardinality(Below) <= Cardinality(S)
  BY FS_Subset
<1>2. Below # {}
  OBVIOUS
<1>3. Cardinality(S) \in Nat
  BY FS_CardinalityType
<1> HIDE DEF Below
<1>4. Cardinality(Below) \in Nat /\ Cardinality(Below) # 0
  BY <1>1, <1>2, FS_CardinalityType, FS_EmptySet
<1>5. Cardinality(Below) \in 1 .. Cardinality(S)
  BY <1>1, <1>3, <1>4
<1>6. QED BY <1>5 DEF Rank, Below

LEMMA RankOrder ==
  ASSUME NEW S \in SUBSET Nat, IsFiniteSet(S), NEW m \in S, NEW n \in S, m < n
  PROVE  Rank(S, m) < Rank(S, n)
<1> DEFINE L == {x \in S : x <= m}
           H == {x \in S : x <= n}
<1>1. L \in SUBSET H /\ n \in H /\ n \notin L
  <2>1. \A x \in S : x <= m => x <= n
    OBVIOUS
  <2>2. n <= n /\ ~(n <= m)
    OBVIOUS
  <2>3. QED BY <2>1, <2>2
<1>2. IsFiniteSet(H)
  BY FS_Subset
<1> HIDE DEF L, H
<1>3. IsFiniteSet(L) /\ Cardinality(L) <= Cardinality(H) /\ Cardinality(L) # Cardinality(H)
  BY <1>1, <1>2, FS_Subset
<1>4. Cardinality(L) \in Nat /\ Cardinality(H) \in Nat
  BY <1>2, <1>3, FS_CardinalityType
<1>5. Cardinality(L) < Cardinality(H)
  BY <1>3, <1>4
<1>6. QED BY <1>5 DEF Rank, L, H

LEMMA RankInjective ==
  ASSUME NEW S \in SUBSET Nat, IsFiniteSet(S), NEW m \in S, NEW n \in S,
         Rank(S, m) = Rank(S, n)
  PROVE  m = n
<1>1. Rank(S, m) \in Nat
  BY RankOf, FS_CardinalityType
<1>2. ~(m < n) /\ ~(n < m)
  BY <1>1, RankOrder
<1>3. m \in Nat /\ n \in Nat
  OBVIOUS
<1>4. QED BY <1>2, <1>3

\* Sorted(S) lists S: every place has the element of its rank.
LEMMA SortedIs ==
  ASSUME NEW S \in SUBSET Nat, IsFiniteSet(S)
  PROVE  /\ \A k \in 1 .. Cardinality(S) : Sorted(S)[k] \in S /\ Rank(S, Sorted(S)[k]) = k
         /\ \A m \in S : Sorted(S)[Rank(S, m)] = m
<1> DEFINE f == [m \in S |-> Rank(S, m)]
           K == 1 .. Cardinality(S)
<1>1. f \in [S -> K]
  BY RankOf
<1>2. f \in Injection(S, K)
  <2>1. \A m, n \in S : f[m] = f[n] => m = n
    BY RankInjective
  <2> HIDE DEF f, K
  <2>2. QED BY <1>1, <2>1 DEF Injection, IsInjective
<1>3. Cardinality(S) \in Nat
  BY FS_CardinalityType
<1>4. IsFiniteSet(K) /\ Cardinality(K) = Cardinality(S)
  BY <1>3, FS_Interval
<1>5. f \in Surjection(S, K)
  <2> HIDE DEF f, K
  <2>1. QED BY <1>2, <1>4, FS_Injection
<1>6. \A k \in K : \E m \in S : Rank(S, m) = k
  <2>1. \A k \in K : \E m \in S : f[m] = k
    <3> HIDE DEF f, K
    <3>1. QED BY <1>5 DEF Surjection
  <2>2. QED BY <2>1
<1>7. ASSUME NEW k \in K PROVE Sorted(S)[k] \in S /\ Rank(S, Sorted(S)[k]) = k
  <2>1. \E m \in S : Rank(S, m) = k
    BY <1>6
  <2>2. Sorted(S)[k] = CHOOSE m \in S : Rank(S, m) = k
    BY DEF Sorted
  <2>3. QED BY <2>1, <2>2
<1>8. ASSUME NEW m \in S PROVE Sorted(S)[Rank(S, m)] = m
  <2>1. Rank(S, m) \in K
    BY RankOf
  <2>2. PICK x \in S : x = Sorted(S)[Rank(S, m)] /\ Rank(S, x) = Rank(S, m)
    BY <1>7, <2>1
  <2>3. QED BY <2>2, RankInjective
<1>9. QED BY <1>7, <1>8

LEMMA SortedWithout ==
  ASSUME NEW S \in SUBSET Nat, IsFiniteSet(S), NEW m \in S
  PROVE  /\ IsFiniteSet(S \ {m}) /\ Cardinality(S \ {m}) = Cardinality(S) - 1
         /\ \A k \in 1 .. (Cardinality(S) - 1) :
              Sorted(S \ {m})[k] = IF k < Rank(S, m) THEN Sorted(S)[k] ELSE Sorted(S)[k + 1]
<1> DEFINE T == S \ {m}
<1>1. IsFiniteSet(T) /\ Cardinality(T) = Cardinality(S) - 1
  BY FS_RemoveElement
<1>2. Cardinality(S) \in Nat /\ Rank(S, m) \in 1 .. Cardinality(S)
  BY FS_CardinalityType, RankOf
<1>3. ASSUME NEW x \in T PROVE Rank(T, x) = IF x < m THEN Rank(S, x) ELSE Rank(S, x) - 1
  <2> DEFINE L == {y \in S : y <= x}
  <2>1. {y \in T : y <= x} = L \ {m}
    OBVIOUS
  <2>2. IsFiniteSet(L)
    BY FS_Subset
  <2>3. m \in L <=> ~(x < m)
    OBVIOUS
  <2>4. Cardinality(L \ {m}) = IF x < m THEN Cardinality(L) ELSE Cardinality(L) - 1
    <3> HIDE DEF L
    <3>1. QED BY <2>2, <2>3, FS_RemoveElement
  <2>5. QED BY <2>1, <2>4 DEF Rank
<1>4. ASSUME NEW k \in 1 .. (Cardinality(S) - 1)
      PROVE  Sorted(T)[k] = IF k < Rank(S, m) THEN Sorted(S)[k] ELSE Sorted(S)[k + 1]
  <2> DEFINE j == IF k < Rank(S, m) THEN k ELSE k + 1
             x == Sorted(S)[j]
  <2>1. j \in 1 .. Cardinality(S) /\ j # Rank(S, m)
    BY <1>2
  <2>2. x \in S /\ Rank(S, x) = j
    <3> HIDE DEF j
    <3>1. QED BY <2>1, SortedIs
  <2>3. x \in T
    BY <2>1, <2>2
  <2>4. x < m <=> k < Rank(S, m)
    <3> HIDE DEF x
    <3>1. x < m => Rank(S, x) < Rank(S, m)
      BY <2>2, RankOrder
    <3>2. m < x => Rank(S, m) < Rank(S, x)
      BY <2>2, RankOrder
    <3>3. x \in Nat /\ m \in Nat /\ x # m
      BY <2>2, <2>3
    <3>4. QED BY <1>2, <2>2, <3>1, <3>2, <3>3
  <2>5. Rank(T, x) = k
    <3> HIDE DEF x, T
    <3>1. QED BY <1>2, <1>3, <2>2, <2>3, <2>4
  <2>6. T \in SUBSET Nat
    OBVIOUS
  <2>7. Sorted(T)[k] = x
    <3> HIDE DEF x, T
    <3>1. QED BY <1>1, <2>3, <2>5, <2>6, SortedIs
  <2>8. QED BY <2>7
<1>5. QED BY <1>1, <1>4

LEMMA SortedWith ==
  ASSUME NEW S \in SUBSET Nat, IsFiniteSet(S), NEW n \in Nat, \A x \in S : x < n
  PROVE  /\ IsFiniteSet(S \cup {n}) /\ Cardinality(S \cup {n}) = Cardinality(S) + 1
         /\ \A k \in 1 .. Cardinality(S) : Sorted(S \cup {n})[k] = Sorted(S)[k]
         /\ Sorted(S \cup {n})[Cardinality(S) + 1] = n
<1> DEFINE T == S \cup {n}
<1>1. IsFiniteSet(T) /\ Cardinality(T) = Cardinality(S) + 1 /\ T \in SUBSET Nat
  BY FS_AddElement
<1>2. ASSUME NEW x \in S PROVE Rank(T, x) = Rank(S, x)
  <2>1. {y \in T : y <= x} = {y \in S : y <= x}
    <3>1. ~(n <= x)
      OBVIOUS
    <3>2. QED BY <3>1
  <2>2. QED BY <2>1 DEF Rank
<1>3. Rank(T, n) = Cardinality(T)
  <2>1. {y \in T : y <= n} = T
    <3>1. \A y \in S : y <= n
      OBVIOUS
    <3>2. n <= n
      OBVIOUS
    <3>3. QED BY <3>1, <3>2
  <2>2. QED BY <2>1 DEF Rank
<1>4. ASSUME NEW k \in 1 .. Cardinality(S) PROVE Sorted(T)[k] = Sorted(S)[k]
  <2>1. PICK x \in S : x = Sorted(S)[k] /\ Rank(S, x) = k
    BY SortedIs
  <2>2. x \in T /\ Rank(T, x) = k
    BY <1>2, <2>1
  <2> HIDE DEF T
  <2>3. QED BY <1>1, <2>1, <2>2, SortedIs
<1>5. Sorted(T)[Cardinality(S) + 1] = n
  <2>1. n \in T
    OBVIOUS
  <2> HIDE DEF T
  <2>2. QED BY <1>1, <1>3, <2>1, SortedIs
<1>6. QED BY <1>1, <1>4, <1>5

-----------------------------------------------------------------------------
(* The spans in the order of their marks.                                  *)

\* Each mark is that of one span, also while a span is in two slots.
Shows ==
  /\ Marks \in SUBSET Nat /\ IsFiniteSet(Marks)
  /\ \A i \in Slot : Raw!Recoverable(i) => mark[i] \in Marks /\ Marked[mark[i]] = span[i]
  /\ \A m \in Marks : \E i \in Slot : Raw!Recoverable(i) /\ mark[i] = m
  /\ Marked = [m \in Marks |-> Marked[m]]
  /\ ByMark = [k \in 1 .. Cardinality(Marks) |-> Marked[Sorted(Marks)[k]]]

LEMMA RunningShows == Raw!IInv /\ Raw!Running => Shows
<1> SUFFICES ASSUME Raw!IInv, Raw!Running PROVE Shows
  OBVIOUS
<1>1. Marks \in SUBSET Nat /\ \A m \in Marks : m <= MaxMark
  BY DEF Raw!IInv, Raw!TypeOK, Raw!Mark, Marks, Slot
<1>2. IsFiniteSet(Marks)
  BY <1>1, FS_BoundedSetOfNaturals
<1>3. ASSUME NEW i \in Slot, NEW j \in Slot, Raw!Recoverable(i), Raw!Recoverable(j),
             mark[i] = mark[j]
      PROVE  span[i] = span[j]
  <2>1. CASE i = j
    BY <2>1
  <2>2. CASE i # j
    <3>1. /\ pc = "remove_last_mark"
          /\ {i, j} = {raw_index, Raw!last_index}
      <4>1. i < j \/ j < i
        BY <2>2 DEF Slot, Raw!Slot
      <4>2. mark[i] # 0
        BY <1>3 DEF Raw!Recoverable
      <4>3. QED BY <1>3, <4>1, <4>2 DEF Raw!IInv, Raw!MarksDistinct, Slot
    <3>2. \A w \in Raw!Word : span[i][w] = span[j][w]
      BY <3>1 DEF Raw!IInv, Raw!Removing
    <3>3. span[i] \in [Raw!Word -> Raw!Content] /\ span[j] \in [Raw!Word -> Raw!Content]
      BY DEF Raw!IInv, Raw!TypeOK, Raw!RawSpan, Slot
    <3>4. QED BY <3>2, <3>3
  <2>3. QED BY <2>1, <2>2
<1>4. ASSUME NEW i \in Slot, Raw!Recoverable(i)
      PROVE  mark[i] \in Marks /\ Marked[mark[i]] = span[i]
  <2>1. mark[i] \in Marks
    BY <1>4 DEF Marks
  <2> DEFINE c == CHOOSE j \in Slot : Raw!Recoverable(j) /\ mark[j] = mark[i]
  <2>2. c \in Slot /\ Raw!Recoverable(c) /\ mark[c] = mark[i]
    BY <1>4
  <2>3. Marked[mark[i]] = span[c]
    BY <2>1 DEF Marked
  <2> HIDE DEF c
  <2>4. QED BY <1>3, <1>4, <2>1, <2>2, <2>3
<1>5. \A m \in Marks : \E i \in Slot : Raw!Recoverable(i) /\ mark[i] = m
  BY DEF Marks
<1>6. Marked = [m \in Marks |-> Marked[m]]
  BY DEF Marked
<1>7. QED BY <1>1, <1>2, <1>4, <1>5, <1>6 DEF Shows, ByMark

LEMMA ShowsBefore == ASSUME MInv, Raw!Running PROVE Shows
BY RunningShows DEF MInv

LEMMA ShowsAfter == ASSUME MInv', Raw!Running' PROVE Shows'
<1>1. (Raw!IInv /\ Raw!Running => Shows)'
  BY RunningShows, PTL
<1>2. QED BY <1>1 DEF MInv

\* The queue has the spans with the marks.
LEMMA Queue ==
  ASSUME Shows
  PROVE  /\ Cardinality(Marks) \in Nat /\ Len(ByMark) = Cardinality(Marks)
         /\ DOMAIN ByMark = 1 .. Cardinality(Marks)
         /\ \A i \in Slot : Raw!Recoverable(i) =>
              /\ Rank(Marks, mark[i]) \in DOMAIN ByMark
              /\ ByMark[Rank(Marks, mark[i])] = span[i]
         /\ \A k \in DOMAIN ByMark : \E i \in Slot :
              /\ Raw!Recoverable(i) /\ Rank(Marks, mark[i]) = k
              /\ ByMark[k] = span[i]
<1> USE DEF Shows
<1>1. Cardinality(Marks) \in Nat
  BY FS_CardinalityType
<1>2. Len(ByMark) = Cardinality(Marks) /\ DOMAIN ByMark = 1 .. Cardinality(Marks)
  BY <1>1
<1>3. ASSUME NEW i \in Slot, Raw!Recoverable(i)
      PROVE  /\ Rank(Marks, mark[i]) \in DOMAIN ByMark
             /\ ByMark[Rank(Marks, mark[i])] = span[i]
  <2>1. mark[i] \in Marks
    BY <1>3
  <2>2. Rank(Marks, mark[i]) \in 1 .. Cardinality(Marks)
    BY <2>1, RankOf
  <2>3. Sorted(Marks)[Rank(Marks, mark[i])] = mark[i]
    BY <2>1, SortedIs
  <2>4. QED BY <1>2, <1>3, <2>2, <2>3
<1>4. ASSUME NEW k \in DOMAIN ByMark
      PROVE  \E i \in Slot : /\ Raw!Recoverable(i) /\ Rank(Marks, mark[i]) = k
                             /\ ByMark[k] = span[i]
  <2>1. k \in 1 .. Cardinality(Marks)
    BY <1>2
  <2>2. Sorted(Marks)[k] \in Marks /\ Rank(Marks, Sorted(Marks)[k]) = k
    BY <2>1, SortedIs
  <2>3. PICK i \in Slot : Raw!Recoverable(i) /\ mark[i] = Sorted(Marks)[k]
    BY <2>2
  <2>4. QED BY <2>1, <2>2, <2>3
<1>5. QED BY <1>1, <1>2, <1>3, <1>4

\* With the same marks on the same spans the queue is the same.
LEMMA QueueKept ==
  ASSUME Shows, Shows',
         \A i \in Slot : Raw!Recoverable(i) =>
           \E j \in Slot : Raw!Recoverable(j)' /\ mark'[j] = mark[i] /\ span'[j] = span[i],
         \A j \in Slot : Raw!Recoverable(j)' =>
           \E i \in Slot : Raw!Recoverable(i) /\ mark[i] = mark'[j]
  PROVE  ByMark' = ByMark
<1>1. ASSUME NEW m \in Marks PROVE m \in Marks' /\ Marked'[m] = Marked[m]
  <2>1. PICK i \in Slot : Raw!Recoverable(i) /\ mark[i] = m
    BY DEF Shows
  <2>2. PICK j \in Slot : Raw!Recoverable(j)' /\ mark'[j] = mark[i] /\ span'[j] = span[i]
    BY <2>1
  <2>3. mark'[j] \in Marks' /\ Marked'[mark'[j]] = span'[j]
    BY <2>2 DEF Shows, Slot, Raw!Slot
  <2>4. Marked[m] = span[i]
    BY <2>1 DEF Shows
  <2>5. QED BY <2>1, <2>2, <2>3, <2>4
<1>2. ASSUME NEW m \in Marks' PROVE m \in Marks
  <2>1. PICK j \in Slot : Raw!Recoverable(j)' /\ mark'[j] = m
    BY DEF Shows, Slot, Raw!Slot
  <2>2. QED BY <2>1 DEF Shows
<1>3. Marks' = Marks
  BY <1>1, <1>2
<1>4. Marked' = Marked
  BY <1>1, <1>3 DEF Shows
<1>5. QED BY <1>3, <1>4 DEF ByMark

\* Without the mark of one slot the queue is without its span.
LEMMA QueueWithout ==
  ASSUME Shows, Shows', NEW r \in Slot, Raw!Recoverable(r),
         \A i \in Slot : Raw!Recoverable(i)' <=> Raw!Recoverable(i) /\ mark[i] # mark[r],
         \A i \in Slot : Raw!Recoverable(i)' => mark'[i] = mark[i] /\ span'[i] = span[i]
  PROVE  ByMark' = Buffer!RemoveAt(ByMark, Rank(Marks, mark[r]))
<1>1. mark[r] \in Marks
  BY DEF Shows
<1>2. ASSUME NEW m \in Marks, m # mark[r] PROVE m \in Marks' /\ Marked'[m] = Marked[m]
  <2>1. PICK i \in Slot : Raw!Recoverable(i) /\ mark[i] = m
    BY DEF Shows
  <2>2. QED BY <1>2, <2>1 DEF Shows, Slot, Raw!Slot
<1>3. ASSUME NEW m \in Marks' PROVE m \in Marks /\ m # mark[r]
  <2>1. PICK i \in Slot : Raw!Recoverable(i)' /\ mark'[i] = m
    BY DEF Shows, Slot, Raw!Slot
  <2>2. QED BY <2>1 DEF Shows
<1>4. Marks' = Marks \ {mark[r]}
  BY <1>2, <1>3
<1>5. PICK m \in Marks : m = mark[r]
  BY <1>1
<1>6. /\ IsFiniteSet(Marks \ {m}) /\ Cardinality(Marks \ {m}) = Cardinality(Marks) - 1
      /\ \A k \in 1 .. (Cardinality(Marks) - 1) :
           Sorted(Marks \ {m})[k] = IF k < Rank(Marks, m) THEN Sorted(Marks)[k]
                                                         ELSE Sorted(Marks)[k + 1]
  BY SortedWithout DEF Shows
<1>7. Cardinality(Marks) \in Nat /\ Len(ByMark) = Cardinality(Marks)
      /\ DOMAIN ByMark = 1 .. Cardinality(Marks)
  BY Queue
<1>8. ASSUME NEW k \in 1 .. (Cardinality(Marks) - 1)
      PROVE  Marked'[Sorted(Marks')[k]] = IF k < Rank(Marks, m) THEN ByMark[k] ELSE ByMark[k + 1]
  <2> DEFINE j == IF k < Rank(Marks, m) THEN k ELSE k + 1
  <2>1. j \in 1 .. Cardinality(Marks)
    BY <1>7
  <2>2. Sorted(Marks')[k] = Sorted(Marks)[j]
    BY <1>4, <1>5, <1>6
  <2> HIDE DEF j
  <2>3. ByMark[j] = Marked[Sorted(Marks)[j]]
    BY <2>1 DEF Shows
  <2>4. Sorted(Marks)[j] \in Marks
    BY <2>1, SortedIs DEF Shows
  <2>5. Sorted(Marks')[k] \in Marks'
    <3>1. k \in 1 .. Cardinality(Marks')
      BY <1>4, <1>5, <1>6
    <3>2. Marks' \in SUBSET Nat /\ IsFiniteSet(Marks')
      BY DEF Shows
    <3>3. QED BY <3>1, <3>2, SortedIs
  <2>6. Marked'[Sorted(Marks)[j]] = Marked[Sorted(Marks)[j]]
    BY <1>2, <1>3, <2>2, <2>4, <2>5
  <2>7. ByMark[j] = IF k < Rank(Marks, m) THEN ByMark[k] ELSE ByMark[k + 1]
    BY DEF j
  <2>8. QED BY <2>2, <2>3, <2>6, <2>7
<1>9. ByMark' = [k \in 1 .. Cardinality(Marks') |-> Marked'[Sorted(Marks')[k]]]
  BY DEF Shows
<1>10. Cardinality(Marks') = Len(ByMark) - 1
  BY <1>4, <1>5, <1>6, <1>7
<1>11. ByMark' = [k \in 1 .. (Len(ByMark) - 1) |->
                    IF k < Rank(Marks, m) THEN ByMark[k] ELSE ByMark[k + 1]]
  BY <1>7, <1>8, <1>9, <1>10
<1>12. QED BY <1>5, <1>11 DEF Buffer!RemoveAt

\* A larger mark than all others puts its span at the end of the queue.
LEMMA QueueWith ==
  ASSUME Shows, Shows', UNCHANGED <<mark, span>>,
         NEW n \in Slot, ~Raw!Recoverable(n), Raw!Recoverable(n)',
         \A i \in Slot : Raw!Recoverable(i)' <=> Raw!Recoverable(i) \/ i = n,
         \A i \in Slot : Raw!Recoverable(i) => mark[i] < mark[n]
  PROVE  ByMark' = Append(ByMark, span[n])
<1>1. PICK m \in Nat : m = mark[n]
  BY DEF Shows, Slot, Raw!Slot
<1>2. \A x \in Marks : x < m
  BY <1>1 DEF Shows
<1>3. ASSUME NEW x \in Marks PROVE x \in Marks' /\ Marked'[x] = Marked[x]
  <2>1. PICK i \in Slot : Raw!Recoverable(i) /\ mark[i] = x
    BY DEF Shows
  <2>2. QED BY <2>1 DEF Shows, Slot, Raw!Slot
<1>4. m \in Marks' /\ Marked'[m] = span[n]
  BY <1>1 DEF Shows, Slot, Raw!Slot
<1>5. ASSUME NEW x \in Marks' PROVE x \in Marks \cup {m}
  <2>1. PICK i \in Slot : Raw!Recoverable(i)' /\ mark'[i] = x
    BY DEF Shows, Slot, Raw!Slot
  <2>2. QED BY <1>1, <2>1 DEF Shows
<1>6. Marks' = Marks \cup {m}
  BY <1>3, <1>4, <1>5
<1>7. /\ Cardinality(Marks \cup {m}) = Cardinality(Marks) + 1
      /\ \A k \in 1 .. Cardinality(Marks) : Sorted(Marks \cup {m})[k] = Sorted(Marks)[k]
      /\ Sorted(Marks \cup {m})[Cardinality(Marks) + 1] = m
  BY <1>2, SortedWith DEF Shows
<1>8. Cardinality(Marks) \in Nat /\ Len(ByMark) = Cardinality(Marks)
      /\ DOMAIN ByMark = 1 .. Cardinality(Marks)
  BY Queue
<1>9. ByMark' = [k \in 1 .. (Cardinality(Marks) + 1) |-> Marked'[Sorted(Marks')[k]]]
  BY <1>6, <1>7 DEF Shows
<1>10. ASSUME NEW k \in 1 .. Cardinality(Marks)
       PROVE  Marked'[Sorted(Marks')[k]] = ByMark[k]
  <2>1. Sorted(Marks)[k] \in Marks
    BY SortedIs DEF Shows
  <2>2. ByMark[k] = Marked[Sorted(Marks)[k]]
    BY DEF Shows
  <2>3. QED BY <1>3, <1>6, <1>7, <2>1, <2>2
<1>11. Marked'[Sorted(Marks')[Cardinality(Marks) + 1]] = span[n]
  BY <1>4, <1>6, <1>7
<1>12. ByMark' = [k \in 1 .. (Len(ByMark) + 1) |->
                    IF k = Len(ByMark) + 1 THEN span[n] ELSE ByMark[k]]
  BY <1>8, <1>9, <1>10, <1>11
<1>13. QED BY <1>8, <1>12

\* A store to the span of one slot changes one place of the queue.
LEMMA QueueChanged ==
  ASSUME Shows, Shows', NEW r \in Slot, Raw!Recoverable(r), UNCHANGED <<active_span_count, mark>>,
         \A i \in Slot : Raw!Recoverable(i) /\ mark[i] = mark[r] => i = r,
         NEW s, span' = [span EXCEPT ![r] = s], Raw!TypeOK
  PROVE  ByMark' = [ByMark EXCEPT ![Rank(Marks, mark[r])] = s]
<1>1. \A i \in Slot : Raw!Recoverable(i)' <=> Raw!Recoverable(i)
  BY DEF Raw!Recoverable
<1>2. Marks' = Marks
  BY <1>1 DEF Marks, Slot, Raw!Slot
<1>3. PICK p \in DOMAIN ByMark : p = Rank(Marks, mark[r])
  BY Queue
<1>4. DOMAIN ByMark = 1 .. Cardinality(Marks)
      /\ ByMark' = [k \in 1 .. Cardinality(Marks) |-> Marked'[Sorted(Marks)[k]]]
  BY <1>2, Queue DEF Shows
<1>5. ASSUME NEW k \in 1 .. Cardinality(Marks)
      PROVE  Marked'[Sorted(Marks)[k]] = IF k = p THEN s ELSE ByMark[k]
  <2>1. Sorted(Marks)[k] \in Marks /\ Rank(Marks, Sorted(Marks)[k]) = k
    BY SortedIs DEF Shows
  <2>2. PICK i \in Slot : Raw!Recoverable(i) /\ mark[i] = Sorted(Marks)[k]
    BY <2>1 DEF Shows
  <2>3. ByMark[k] = span[i] /\ Marked'[Sorted(Marks)[k]] = span'[i]
    BY <1>1, <2>2 DEF Shows, Slot, Raw!Slot
  <2>4. i = r <=> k = p
    <3>1. i = r => k = p
      BY <1>3, <2>1, <2>2
    <3>2. k = p => mark[i] = mark[r]
      <4>1. mark[i] \in Marks /\ mark[r] \in Marks
        BY <2>2 DEF Shows
      <4>2. QED BY <1>3, <2>1, <2>2, <4>1, RankInjective DEF Shows
    <3>3. QED BY <2>2, <3>1, <3>2
  <2>5. span'[i] = IF i = r THEN s ELSE span[i]
    BY DEF Raw!TypeOK, Slot
  <2>6. QED BY <2>3, <2>4, <2>5
<1>6. ByMark' = [k \in DOMAIN ByMark |-> IF k = p THEN s ELSE ByMark[k]]
  BY <1>4, <1>5
<1>7. ByMark = [k \in DOMAIN ByMark |-> ByMark[k]]
  BY DEF ByMark
<1>8. QED BY <1>3, <1>6, <1>7

\* Between calls the queue has as many spans as the store.
LEMMA QueueIsStore ==
  ASSUME MInv, pc = "idle"
  PROVE  /\ \A i \in Slot : Raw!Recoverable(i) <=> i < active_span_count
         /\ \A i, j \in Slot : Raw!Recoverable(i) /\ mark[i] = mark[j] => i = j
         /\ Cardinality(Marks) = active_span_count
<1>1. active_span_count \in Nat /\ active_span_count <= MaxSpans
  BY DEF MInv, Raw!IInv, Raw!TypeOK
<1>2. \A i \in Slot : Raw!Recoverable(i) <=> i < active_span_count
  BY DEF MInv, Raw!IInv, Raw!SlotsMarked, Raw!MustBeMarked, Raw!Running, Raw!Recoverable, Slot
<1>3. \A i, j \in Slot : Raw!Recoverable(i) /\ mark[i] = mark[j] => i = j
  <2> SUFFICES ASSUME NEW i \in Slot, NEW j \in Slot, Raw!Recoverable(i), mark[i] = mark[j]
               PROVE  i = j
    OBVIOUS
  <2>1. ~(i < j) /\ ~(j < i)
    BY DEF MInv, Raw!IInv, Raw!MarksDistinct, Raw!Running, Raw!Recoverable, Slot
  <2>2. i \in Int /\ j \in Int
    BY DEF Slot, Raw!Slot
  <2>3. QED BY <2>1, <2>2
<1> DEFINE D == 0 .. (active_span_count - 1)
           f == [i \in D |-> mark[i]]
<1>4. \A i \in Int : i \in D <=> i \in Slot /\ Raw!Recoverable(i)
  BY <1>1, <1>2 DEF Slot, Raw!Slot
<1>5. Marks = {mark[i] : i \in D}
  <2>1. D = {j \in Slot : Raw!Recoverable(j)}
    BY <1>4 DEF Slot, Raw!Slot
  <2>2. QED BY <2>1 DEF Marks
<1>6. f \in Bijection(D, Marks)
  <2>1. f \in [D -> Marks]
    BY <1>5
  <2>2. \A i, j \in D : f[i] = f[j] => i = j
    BY <1>3, <1>4
  <2>3. \A m \in Marks : \E i \in D : f[i] = m
    BY <1>5
  <2> HIDE DEF D, f
  <2>4. QED BY <2>1, <2>2, <2>3 DEF Bijection, Injection, IsInjective, Surjection
<1>7. IsFiniteSet(D) /\ Cardinality(D) = active_span_count
  BY <1>1, FS_Interval
<1>8. ExistsBijection(D, Marks)
  <2> HIDE DEF D, f
  <2>1. QED BY <1>6 DEF ExistsBijection
<1>9. Cardinality(Marks) = active_span_count
  <2> HIDE DEF D
  <2>1. QED BY <1>7, <1>8, FS_Bijection
<1>10. QED BY <1>2, <1>3, <1>9

\* The span a full store evicts is the first of the queue.
LEMMA OldestIsFirst ==
  ASSUME MInv, pc = "idle", method = "none", active_span_count # 0
  PROVE  /\ OldestSlot \in Slot /\ OldestSlot < active_span_count
         /\ span_id_to_index[OldestSpanId] = OldestSlot
         /\ Rank(Marks, mark[OldestSlot]) = 1
<1>1. /\ OldestSlot \in Slot /\ OldestSlot < active_span_count
      /\ \A j \in Slot : j < active_span_count =>
           mark[OldestSlot] < mark[j] \/ (mark[OldestSlot] = mark[j] /\ OldestSlot <= j)
  BY ScanFindsASlot DEF MInv, Raw!IInv
<1>2. span_id_to_index[OldestSpanId] = OldestSlot
  BY <1>1 DEF MInv, MapMatchesSlots, Freeing, Raw!Running, OldestSpanId
<1>3. Shows
  BY ShowsBefore DEF Raw!Running
<1>4. PICK m \in Marks : m = mark[OldestSlot]
  BY <1>1, <1>3, QueueIsStore DEF Shows
<1>5. ASSUME NEW x \in Marks PROVE x <= m <=> x = m
  <2>1. PICK j \in Slot : Raw!Recoverable(j) /\ mark[j] = x
    BY <1>3 DEF Shows
  <2>2. m < x \/ m = x
    BY <1>1, <1>4, <2>1, QueueIsStore
  <2>3. x \in Nat /\ m \in Nat
    BY <1>3 DEF Shows
  <2>4. QED BY <2>2, <2>3
<1>6. {x \in Marks : x <= m} = {m}
  BY <1>5
<1>7. Rank(Marks, m) = 1
  BY <1>6, FS_Singleton DEF Rank
<1>8. QED BY <1>1, <1>2, <1>4, <1>7

\* The first store of a removal takes its span out of the queue.
LEMMA RemoveStartQueue ==
  ASSUME MInv, MInv', NEW r \in Slot, r < active_span_count, RemoveStart(r)
  PROVE  /\ ByMark' = Buffer!RemoveAt(ByMark, Rank(Marks, mark[r]))
         /\ Rank(Marks, mark[r]) \in 1 .. Len(ByMark)
<1>1. pc = "idle" /\ pc' \in {"remove_span", "remove_count"}
      /\ active_span_count' = active_span_count /\ span' = span
      /\ mark' = [mark EXCEPT ![r] = 0]
  BY DEF RemoveStart, Raw!RemoveLast, Raw!RemoveBegin
<1>2. Shows /\ Shows'
  BY <1>1, ShowsBefore, ShowsAfter DEF Raw!Running
<1>3. \A i \in Slot : mark'[i] = IF i = r THEN 0 ELSE mark[i]
  BY <1>1 DEF MInv, Raw!IInv, Raw!TypeOK, Slot
<1>4. Raw!Recoverable(r) /\ \A i \in Slot : Raw!Recoverable(i) /\ mark[i] = mark[r] => i = r
  BY <1>1, QueueIsStore
<1>5. \A i \in Slot : Raw!Recoverable(i)' <=> Raw!Recoverable(i) /\ mark[i] # mark[r]
  BY <1>1, <1>3, <1>4 DEF Raw!Recoverable
<1>6. \A i \in Slot : Raw!Recoverable(i)' => mark'[i] = mark[i] /\ span'[i] = span[i]
  BY <1>1, <1>3 DEF Raw!Recoverable
<1>7. ByMark' = Buffer!RemoveAt(ByMark, Rank(Marks, mark[r]))
  BY <1>2, <1>4, <1>5, <1>6, QueueWithout
<1>8. QED BY <1>2, <1>4, <1>7, Queue

-----------------------------------------------------------------------------
(* Every step is one of the buffer, or shows nothing to it.                *)

LEMMA QueueEmpty == active_span_count = 0 => ByMark = << >>
<1> SUFFICES ASSUME active_span_count = 0 PROVE ByMark = << >>
  OBVIOUS
<1>1. \A i \in Slot : ~Raw!Recoverable(i)
  BY DEF Raw!Recoverable, Slot, Raw!Slot
<1>2. Marks = {}
  BY <1>1 DEF Marks
<1>3. Cardinality(Marks) = 0
  BY <1>2, FS_EmptySet
<1>4. QED BY <1>3 DEF ByMark

LEMMA QueueUntouched ==
  ASSUME UNCHANGED <<active_span_count, mark, span>>
  PROVE  ByMark' = ByMark
BY DEF ByMark, Marks, Marked, Raw!Recoverable, Slot, Raw!Slot, Sorted, Rank

\* Between calls the ids of the queue are those of the map.
LEMMA QueueIds ==
  ASSUME MInv, pc = "idle", Shows
  PROVE  /\ Len(ByMark) = active_span_count
         /\ \A k \in 1 .. Len(ByMark) : ByMark[k]["span_id"] \in Indexed
<1>1. Len(ByMark) = active_span_count /\ DOMAIN ByMark = 1 .. Len(ByMark)
  BY Queue, QueueIsStore
<1>2. ~Freeing
  BY DEF MInv, MethodMatchesStore
<1>3. ASSUME NEW k \in 1 .. Len(ByMark) PROVE ByMark[k]["span_id"] \in Indexed
  <2>1. PICK i \in Slot : Raw!Recoverable(i) /\ ByMark[k] = span[i]
    BY <1>1, Queue
  <2>2. QED BY <1>2, <2>1 DEF MInv, MapMatchesSlots, Raw!Running, Raw!Recoverable
<1>4. QED BY <1>1, <1>3

LEMMA AddWithRoomBuffer ==
  ASSUME MInv, MInv', NEW s \in Span, AddWithRoom(s)
  PROVE  Buffer!Next
<1> USE DEF AddWithRoom, Idle, Raw!AddBegin
<1>1. pc = "idle" /\ pc' = "add_span" /\ method = "none" /\ method' = "add"
  OBVIOUS
<1>2. Shows /\ Shows'
  BY <1>1, ShowsBefore, ShowsAfter DEF Raw!Running
<1>3. active_span_count \in Nat /\ \A i \in Slot : i < active_span_count => mark'[i] = mark[i]
  BY DEF MInv, Raw!IInv, Raw!TypeOK, Slot, Raw!Slot
<1>4. \A i \in Slot : Raw!Recoverable(i)' <=> Raw!Recoverable(i)
  BY <1>3 DEF Raw!Recoverable
<1>5. \A i \in Slot : Raw!Recoverable(i) => mark'[i] = mark[i] /\ span'[i] = span[i]
  BY <1>3 DEF Raw!Recoverable
<1>6. ByMark' = ByMark
  BY <1>2, <1>4, <1>5, QueueKept
<1>7. Len(ByMark) # MaxSpans /\ \A k \in 1 .. Len(ByMark) : ByMark[k]["span_id"] # s["span_id"]
  BY <1>2, QueueIds
<1>8. BeingAdded = {} /\ BeingAdded' = {s} /\ Up /\ Up'
  BY DEF BeingAdded, Up, Raw!Running
<1>9. Buffer!BeginAdd(s)
  BY <1>6, <1>7, <1>8 DEF Buffer!BeginAdd, Buffer!Position
<1>10. QED BY <1>9 DEF Buffer!Next

LEMMA AddWhenFullBuffer ==
  ASSUME MInv, MInv', NEW s \in Span, AddWhenFull(s)
  PROVE  Buffer!Next
<1> USE DEF AddWhenFull, Idle
<1>1. pc = "idle" /\ pc' \in {"remove_span", "remove_count"} /\ active_span_count # 0
      /\ method = "none" /\ method' = "add_evict" /\ add_argument' = s
  BY DEF RemoveStart, Raw!RemoveLast, Raw!RemoveBegin
<1>2. PICK r \in Slot : /\ r = OldestSlot /\ r < active_span_count
                        /\ span_id_to_index[OldestSpanId] = r
                        /\ Rank(Marks, mark[r]) = 1
  BY <1>1, OldestIsFirst
<1>3. ByMark' = Buffer!RemoveAt(ByMark, 1)
  BY <1>2, RemoveStartQueue
<1>4. Shows
  BY <1>1, ShowsBefore DEF Raw!Running
<1>5. Len(ByMark) = MaxSpans /\ \A k \in 1 .. Len(ByMark) : ByMark[k]["span_id"] # s["span_id"]
  BY <1>1, <1>4, QueueIds
<1>6. BeingAdded = {} /\ BeingAdded' = {s} /\ Up /\ Up'
  BY <1>1 DEF BeingAdded, Up, Raw!Running
<1>7. Buffer!BeginAdd(s)
  BY <1>3, <1>5, <1>6 DEF Buffer!BeginAdd, Buffer!Position
<1>8. QED BY <1>7 DEF Buffer!Next

LEMMA RemoveSpanBuffer ==
  ASSUME MInv, MInv', NEW x \in SpanId, RemoveSpan(x)
  PROVE  Buffer!Next
<1> USE DEF RemoveSpan, Idle
<1>1. pc = "idle" /\ pc' \in {"remove_span", "remove_count"}
      /\ method = "none" /\ method' = "remove"
  BY DEF RemoveStart, Raw!RemoveLast, Raw!RemoveBegin
<1>2. PICK r \in Slot : r = span_id_to_index[x] /\ r < active_span_count
  BY <1>1 DEF MInv, TypeOK, MapMatchesSlots, Raw!Running
<1>3. PICK k \in 1 .. Len(ByMark) : ByMark' = Buffer!RemoveAt(ByMark, k)
  BY <1>2, RemoveStartQueue
<1>4. BeingAdded = {} /\ BeingAdded' = {} /\ Up /\ Up'
  BY <1>1 DEF BeingAdded, Up, Raw!Running
<1>5. Buffer!Remove(k)
  BY <1>3, <1>4 DEF Buffer!Remove
<1>6. QED BY <1>5 DEF Buffer!Next, Buffer!Position

\* The stores of the slot x is found at, when nothing else is under way.
LEMMA WriteSpanBuffer ==
  ASSUME MInv, MInv', Idle, pc' = "idle", NEW x \in Indexed, NEW w \in Raw!Word, NEW c,
         UNCHANGED <<active_span_count, mark, method, add_argument>>,
         span' = [span EXCEPT ![span_id_to_index[x]] = [@ EXCEPT ![w] = c]]
  PROVE  /\ \E k \in 1 .. Len(ByMark) : ByMark' = [ByMark EXCEPT ![k] = [@ EXCEPT ![w] = c]]
         /\ BeingAdded = {} /\ BeingAdded' = {} /\ Up /\ Up'
<1>1. Shows /\ Shows'
  BY ShowsBefore, ShowsAfter DEF Idle, Raw!Running
<1>2. PICK r \in Slot : r = span_id_to_index[x] /\ r < active_span_count
  BY DEF MInv, TypeOK, MapMatchesSlots, Idle, Raw!Running
<1>3. /\ Raw!Recoverable(r)
      /\ \A i \in Slot : Raw!Recoverable(i) /\ mark[i] = mark[r] => i = r
  BY <1>2, QueueIsStore DEF Idle
<1>4. PICK k \in DOMAIN ByMark : k = Rank(Marks, mark[r]) /\ ByMark[k] = span[r]
  BY <1>1, <1>3, Queue
<1>5. PICK s : s = [span[r] EXCEPT ![w] = c]
  OBVIOUS
<1>6. span' = [span EXCEPT ![r] = s]
  BY <1>2, <1>5
<1>7. Raw!TypeOK
  BY DEF MInv, TypeOK
<1>8. ByMark' = [ByMark EXCEPT ![k] = s]
  BY <1>1, <1>3, <1>4, <1>6, <1>7, QueueChanged
<1>9. ByMark' = [ByMark EXCEPT ![k] = [@ EXCEPT ![w] = c]]
  BY <1>4, <1>5, <1>8
<1>10. k \in 1 .. Len(ByMark)
  BY <1>1, <1>4, Queue
<1>11. BeingAdded = {} /\ BeingAdded' = {} /\ Up /\ Up'
  BY DEF BeingAdded, Up, Idle, Raw!Running
<1>12. QED BY <1>9, <1>10, <1>11

LEMMA EndSpanBuffer ==
  ASSUME MInv, MInv', NEW x \in SpanId, NEW t \in Time, EndSpan(x, t)
  PROVE  Buffer!Next
<1> USE DEF EndSpan, Idle, Raw!SetEndTime, calls
<1>1. PICK k \in 1 .. Len(ByMark) : ByMark' = [ByMark EXCEPT ![k] = [@ EXCEPT !["end_time"] = t]]
  BY WriteSpanBuffer DEF Raw!Word
<1>2. BeingAdded = {} /\ BeingAdded' = {} /\ Up /\ Up'
  BY DEF BeingAdded, Up, Raw!Running
<1>3. Buffer!SetEndTime(k, t)
  BY <1>1, <1>2 DEF Buffer!SetEndTime
<1>4. QED BY <1>3 DEF Buffer!Next, Buffer!Position

LEMMA SetAttributeBuffer ==
  ASSUME MInv, MInv', NEW x \in SpanId, NEW a \in Attributes, SetAttributeOnSpan(x, a)
  PROVE  Buffer!Next
<1> USE DEF SetAttributeOnSpan, Idle, Raw!SetAttributeOnSpan, calls
<1>1. PICK k \in 1 .. Len(ByMark) : ByMark' = [ByMark EXCEPT ![k] = [@ EXCEPT !["attributes"] = a]]
  BY WriteSpanBuffer DEF Raw!Word
<1>2. BeingAdded = {} /\ BeingAdded' = {} /\ Up /\ Up'
  BY DEF BeingAdded, Up, Raw!Running
<1>3. Buffer!SetAttribute(k, a)
  BY <1>1, <1>2 DEF Buffer!SetAttribute
<1>4. QED BY <1>3 DEF Buffer!Next, Buffer!Position

LEMMA AddReturnsBuffer ==
  ASSUME MInv, MInv', AddReturns
  PROVE  Buffer!Next
<1> USE DEF AddReturns, Raw!AddCount, Raw!locals, CallEnds
<1>1. Shows /\ Shows'
  BY ShowsBefore, ShowsAfter DEF Raw!Running
<1>2. PICK n \in Slot : n = raw_index
  BY DEF MInv, TypeOK, Raw!TypeOK, Slot
<1>3. /\ n = active_span_count /\ arg = add_argument
      /\ mark[n] = mark_counter /\ mark_counter # 0
      /\ \A i \in Slot : i < active_span_count => mark[i] < mark_counter
      /\ \A w \in Raw!Word : span[n][w] = arg[w]
  BY <1>2 DEF MInv, Arguments, Raw!IInv, Raw!Adding, Slot
<1>4. span[n] = add_argument
  <2>1. span[n] \in [Raw!Word -> Raw!Content] /\ arg \in [Raw!Word -> Raw!Content]
    BY DEF MInv, TypeOK, Raw!TypeOK, Raw!RawSpan, Slot
  <2>2. QED BY <1>3, <2>1
<1>5. ~Raw!Recoverable(n) /\ Raw!Recoverable(n)'
  BY <1>3 DEF Raw!Recoverable, Slot, Raw!Slot
<1>6. \A i \in Slot : Raw!Recoverable(i)' <=> Raw!Recoverable(i) \/ i = n
  BY <1>3 DEF Raw!Recoverable, Slot, Raw!Slot
<1>7. \A i \in Slot : Raw!Recoverable(i) => mark[i] < mark[n]
  BY <1>3 DEF Raw!Recoverable
<1>8. ByMark' = Append(ByMark, add_argument)
  BY <1>1, <1>4, <1>5, <1>6, <1>7, QueueWith
<1>9. BeingAdded = {add_argument} /\ BeingAdded' = {} /\ Up /\ Up'
  BY DEF BeingAdded, Up, Raw!Running
<1>10. Buffer!CompleteAdd
  BY <1>8, <1>9 DEF Buffer!CompleteAdd
<1>11. QED BY <1>10 DEF Buffer!Next

\* The stores in the middle of a call show nothing.
LEMMA EvictReturnsBuffer ==
  ASSUME MInv, MInv', EvictReturns \/ RemoveReturns
  PROVE  UNCHANGED Buffer!vars
<1> USE DEF EvictReturns, RemoveReturns, Raw!RemoveCount, Raw!locals, CallEnds
<1>1. Shows /\ Shows'
  BY ShowsBefore, ShowsAfter DEF Raw!Running
<1>2. \A i \in Slot : Raw!Recoverable(i)' <=> Raw!Recoverable(i)
  <2>1. \A i \in Slot : mark[i] # 0 <=> i < active_span_count /\ i # active_span_count - 1
    BY DEF MInv, Raw!IInv, Raw!SlotsMarked, Raw!MustBeMarked, Raw!Running, Raw!last_index, Slot
  <2>2. active_span_count \in Nat
    BY DEF MInv, TypeOK, Raw!TypeOK
  <2>3. QED BY <2>1, <2>2 DEF Raw!Recoverable, Slot, Raw!Slot
<1>3. ByMark' = ByMark
  BY <1>1, <1>2, QueueKept
<1>4. BeingAdded' = BeingAdded /\ Up' = Up
  BY DEF BeingAdded, Up, Raw!Running
<1>5. QED BY <1>3, <1>4 DEF Buffer!vars

LEMMA AddAfterEvictBuffer ==
  ASSUME MInv, MInv', AddAfterEvict
  PROVE  UNCHANGED Buffer!vars
<1> USE DEF AddAfterEvict, Raw!AddBegin, calls
<1>1. Shows /\ Shows'
  BY ShowsBefore, ShowsAfter DEF Raw!Running
<1>2. active_span_count \in Nat /\ \A i \in Slot : i < active_span_count => mark'[i] = mark[i]
  BY DEF MInv, Raw!IInv, Raw!TypeOK, Slot, Raw!Slot
<1>3. \A i \in Slot : Raw!Recoverable(i)' <=> Raw!Recoverable(i)
  BY <1>2 DEF Raw!Recoverable
<1>4. \A i \in Slot : Raw!Recoverable(i) => mark'[i] = mark[i] /\ span'[i] = span[i]
  BY <1>2 DEF Raw!Recoverable
<1>5. ByMark' = ByMark
  BY <1>1, <1>3, <1>4, QueueKept
<1>6. BeingAdded' = BeingAdded /\ Up' = Up
  BY DEF BeingAdded, Up, Raw!Running
<1>7. QED BY <1>5, <1>6 DEF Buffer!vars

\* Words of a span go to slots without a mark; a mark moves with its span.
LEMMA RawStoreBuffer ==
  ASSUME MInv, MInv', RawStore
  PROVE  UNCHANGED Buffer!vars
<1> USE DEF RawStore, Raw!AddCopy, Raw!RemoveCopy, Raw!AddMark, Raw!RemoveMark,
            Raw!RemoveLastMark, Raw!locals, calls
<1>1. Shows /\ Shows'
  BY ShowsBefore, ShowsAfter DEF Raw!Running
<1>2. Raw!TypeOK /\ active_span_count' = active_span_count
  BY DEF MInv, TypeOK
<1>3. ByMark' = ByMark
  <2>1. CASE \E w \in Raw!Word : Raw!AddCopy(w) \/ Raw!RemoveCopy(w)
    <3>1. /\ mark' = mark
          /\ \A i \in Slot : i # raw_index => span'[i] = span[i]
      BY <2>1, <1>2 DEF Raw!TypeOK, Slot
    <3>2. ~Raw!Recoverable(raw_index)
      <4>1. CASE pc = "add_span"
        BY <4>1 DEF MInv, Raw!IInv, Raw!Adding, Raw!TypeOK, Raw!Recoverable
      <4>2. CASE pc = "remove_span"
        BY <4>2, <1>2 DEF MInv, Raw!IInv, Raw!SlotsMarked, Raw!MustBeMarked, Raw!TypeOK,
                     Raw!Running, Raw!Recoverable
      <4>3. QED BY <2>1, <4>1, <4>2
    <3>3. \A i \in Slot : Raw!Recoverable(i)' <=> Raw!Recoverable(i)
      BY <1>2, <3>1 DEF Raw!Recoverable
    <3>4. \A i \in Slot : Raw!Recoverable(i) => mark'[i] = mark[i] /\ span'[i] = span[i]
      BY <3>1, <3>2
    <3>5. QED BY <1>1, <3>3, <3>4, QueueKept
  <2>2. CASE Raw!AddMark
    <3>1. \A i \in Slot : i < active_span_count => mark'[i] = mark[i] /\ span'[i] = span[i]
      BY <2>2, <1>2 DEF MInv, Raw!IInv, Raw!Adding, Raw!TypeOK, Slot, Raw!Slot
    <3>2. \A i \in Slot : Raw!Recoverable(i)' <=> Raw!Recoverable(i)
      BY <1>2, <3>1 DEF Raw!Recoverable
    <3>3. QED BY <1>1, <3>1, <3>2, QueueKept DEF Raw!Recoverable
  <2>3. CASE Raw!RemoveMark
    <3>1. PICK r \in Slot : r = raw_index
      BY <1>2 DEF Raw!TypeOK, Slot
    <3>2. PICK l \in Slot : l = Raw!last_index
      BY <2>3, <1>2 DEF MInv, Raw!IInv, Raw!Removing, Raw!TypeOK, Slot, Raw!Slot, Raw!last_index
    <3>3. r < l /\ l < active_span_count /\ last_mark = mark[l] /\ mark[r] = 0
      BY <2>3, <3>1, <3>2, <1>2 DEF MInv, Raw!IInv, Raw!Removing, Raw!TypeOK, Raw!SlotsMarked,
            Raw!MustBeMarked, Raw!Running, Slot, Raw!Slot, Raw!last_index
    <3>4. \A i \in Slot : mark'[i] = IF i = r THEN mark[l] ELSE mark[i]
      BY <2>3, <1>2, <3>1, <3>3 DEF Raw!TypeOK, Slot
    <3>5. span' = span
      BY <2>3
    <3>6. \A i \in Slot : Raw!Recoverable(i) =>
            Raw!Recoverable(i)' /\ mark'[i] = mark[i] /\ span'[i] = span[i]
      BY <1>2, <3>3, <3>4, <3>5 DEF Raw!Recoverable
    <3>7. \A j \in Slot : Raw!Recoverable(j)' =>
            \E i \in Slot : Raw!Recoverable(i) /\ mark[i] = mark'[j]
      BY <1>2, <3>3, <3>4 DEF Raw!Recoverable
    <3>8. QED BY <1>1, <3>6, <3>7, QueueKept
  <2>4. CASE Raw!RemoveLastMark
    <3>1. PICK r \in Slot : r = raw_index
      BY <1>2 DEF Raw!TypeOK, Slot
    <3>2. PICK l \in Slot : l = Raw!last_index
      BY <2>4, <1>2 DEF MInv, Raw!IInv, Raw!Removing, Raw!TypeOK, Slot, Raw!Slot, Raw!last_index
    <3>3. r < l /\ l < active_span_count /\ mark[r] = mark[l] /\ r # l
          /\ \A w \in Raw!Word : span[r][w] = span[l][w]
      BY <2>4, <3>1, <3>2, <1>2 DEF MInv, Raw!IInv, Raw!Removing, Raw!TypeOK, Slot, Raw!Slot,
            Raw!last_index
    <3>4. span[r] = span[l]
      <4>1. span[r] \in [Raw!Word -> Raw!Content] /\ span[l] \in [Raw!Word -> Raw!Content]
        BY <1>2 DEF Raw!TypeOK, Raw!RawSpan, Slot
      <4>2. QED BY <3>3, <4>1
    <3>5. \A i \in Slot : mark'[i] = IF i = l THEN 0 ELSE mark[i]
      BY <2>4, <1>2, <3>2 DEF Raw!TypeOK, Slot
    <3>6. span' = span
      BY <2>4
    <3>7. r < active_span_count
      BY <3>3, <1>2 DEF Raw!TypeOK, Slot, Raw!Slot
    <3>8. ASSUME NEW i \in Slot, Raw!Recoverable(i)
          PROVE  \E j \in Slot : Raw!Recoverable(j)' /\ mark'[j] = mark[i] /\ span'[j] = span[i]
      <4>1. CASE i = l
        BY <1>2, <3>3, <3>4, <3>5, <3>6, <3>7, <3>8, <4>1 DEF Raw!Recoverable
      <4>2. CASE i # l
        BY <1>2, <3>5, <3>6, <3>8, <4>2 DEF Raw!Recoverable
      <4>3. QED BY <4>1, <4>2
    <3>9. \A j \in Slot : Raw!Recoverable(j)' => Raw!Recoverable(j) /\ mark[j] = mark'[j]
      BY <1>2, <3>5 DEF Raw!Recoverable
    <3>10. QED BY <1>1, <3>8, <3>9, QueueKept
  <2>5. QED BY <2>1, <2>2, <2>3, <2>4
<1>4. BeingAdded' = BeingAdded /\ Up' = Up
  BY DEF BeingAdded, Up, Raw!Running
<1>5. QED BY <1>3, <1>4 DEF Buffer!vars

LEMMA CrashBuffer ==
  ASSUME MInv, Crash
  PROVE  Buffer!Next \/ UNCHANGED Buffer!vars
<1> USE DEF Crash, CallEnds, Raw!Crash, Raw!file
<1>1. ByMark' = ByMark
  BY QueueUntouched
<1>2. BeingAdded' = {} /\ Up' = FALSE
  BY DEF BeingAdded, Up, Raw!Running
<1>3. CASE Up
  <2>1. Buffer!Crash
    BY <1>1, <1>2, <1>3 DEF Buffer!Crash
  <2>2. QED BY <2>1 DEF Buffer!Next
<1>4. CASE ~Up
  <2>1. BeingAdded = {} /\ Up = FALSE
    BY <1>4 DEF BeingAdded, Up, Raw!Running, MInv, MethodMatchesStore, Freeing
  <2>2. QED BY <1>1, <1>2, <2>1 DEF Buffer!vars
<1>5. QED BY <1>3, <1>4

\* The store is emptied with the store of the count.
LEMMA RemoveAllBuffer ==
  ASSUME MInv, RemoveAll
  PROVE  Buffer!Next \/ UNCHANGED Buffer!vars
<1> USE DEF RemoveAll, calls
<1>1. BeingAdded' = BeingAdded
  BY DEF BeingAdded
<1>2. ~Up
  BY DEF Up, Raw!Running, Raw!RemoveAllCount, Raw!RemoveAllMark, Raw!RemoveAllSpan,
     Raw!RemoveAllDone
<1>3. (active_span_count = 0 => ByMark = << >>)'
  BY QueueEmpty, PTL
<1>4. CASE Raw!RemoveAllCount
  <2>1. ByMark' = << >> /\ ~Up'
    BY <1>3, <1>4 DEF Raw!RemoveAllCount, Up, Raw!Running
  <2>2. Up' = Up
    BY <1>2, <2>1 DEF Up, Raw!Running
  <2>3. Buffer!Clear
    BY <1>1, <1>2, <2>1, <2>2 DEF Buffer!Clear
  <2>4. QED BY <2>3 DEF Buffer!Next
<1>5. CASE \E i \in Slot : Raw!RemoveAllMark(i) \/ Raw!RemoveAllSpan(i)
  <2>1. active_span_count = 0 /\ active_span_count' = 0 /\ pc' = pc
    BY <1>5 DEF MInv, Raw!IInv, Raw!Clearing, Raw!RemoveAllMark, Raw!RemoveAllSpan
  <2>2. ByMark' = ByMark
    BY <1>3, <2>1, QueueEmpty
  <2>3. Up' = Up
    BY <2>1 DEF Up, Raw!Running
  <2>4. QED BY <1>1, <2>2, <2>3 DEF Buffer!vars
<1>6. CASE Raw!RemoveAllDone
  <2>1. active_span_count = 0 /\ Up' = TRUE /\ UNCHANGED <<active_span_count, mark, span>>
    BY <1>6 DEF MInv, Raw!IInv, Raw!Clearing, Raw!RemoveAllDone, Raw!file, Up, Raw!Running
  <2>2. ByMark' = ByMark /\ ByMark = << >>
    BY <2>1, QueueUntouched, QueueEmpty
  <2>3. Buffer!Restart
    BY <1>1, <1>2, <2>1, <2>2 DEF Buffer!Restart
  <2>4. QED BY <2>3 DEF Buffer!Next
<1>7. QED BY <1>4, <1>5, <1>6

LEMMA BufferInit == Init => Buffer!Init
<1> SUFFICES ASSUME Init PROVE Buffer!Init
  OBVIOUS
<1>1. ByMark = << >>
  BY QueueEmpty DEF Init, Raw!Init
<1>2. BeingAdded = {} /\ Up = TRUE
  BY DEF Init, Raw!Init, NoCall, BeingAdded, Up, Raw!Running
<1>3. QED BY <1>1, <1>2 DEF Buffer!Init

LEMMA BufferStep == MInv /\ MInv' /\ [Next]_vars => [Buffer!Next]_(Buffer!vars)
<1> SUFFICES ASSUME MInv, MInv', [Next]_vars PROVE Buffer!Next \/ UNCHANGED Buffer!vars
  OBVIOUS
<1>1. CASE \E s \in Span : AddWithRoom(s)
  BY <1>1, AddWithRoomBuffer
<1>2. CASE \E s \in Span : AddWhenFull(s)
  BY <1>2, AddWhenFullBuffer
<1>3. CASE EvictReturns \/ RemoveReturns
  BY <1>3, EvictReturnsBuffer
<1>4. CASE AddAfterEvict
  BY <1>4, AddAfterEvictBuffer
<1>5. CASE AddReturns
  BY <1>5, AddReturnsBuffer
<1>6. CASE \E x \in SpanId : RemoveSpan(x)
  BY <1>6, RemoveSpanBuffer
<1>7. CASE \E x \in SpanId, t \in Time : EndSpan(x, t)
  BY <1>7, EndSpanBuffer
<1>8. CASE \E x \in SpanId, a \in Attributes : SetAttributeOnSpan(x, a)
  BY <1>8, SetAttributeBuffer
<1>9. CASE RawStore
  BY <1>9, RawStoreBuffer
<1>10. CASE Crash
  BY <1>10, CrashBuffer
<1>11. CASE RemoveAll
  BY <1>11, RemoveAllBuffer
<1>12. CASE UNCHANGED vars
  <2>1. UNCHANGED <<active_span_count, mark, span, pc, method, add_argument>>
    BY <1>12 DEF vars, raw_vars, Raw!vars
  <2>2. ByMark' = ByMark
    BY <2>1, QueueUntouched
  <2>3. BeingAdded' = BeingAdded /\ Up' = Up
    BY <2>1 DEF BeingAdded, Up, Raw!Running
  <2>4. QED BY <2>2, <2>3 DEF Buffer!vars
<1>13. QED BY <1>1, <1>2, <1>3, <1>4, <1>5, <1>6, <1>7, <1>8, <1>9, <1>10, <1>11, <1>12 DEF Next

\* The spans the store holds, in the order of their marks, are a bounded
\* first-in first-out buffer (mutable_span_data.cpp:35): a full one loses the
\* span added first, remove, end and set_attribute_on_span touch the span they
\* name, and a crash loses at most the span being added.
THEOREM MutableSpanDataImplementsSpanBuffer == Spec => ImplementsSpanBuffer
<1>1. MInv /\ MInv' /\ [Next]_vars => [Buffer!Next]_(Buffer!vars)
  BY BufferStep
<1>2. Init => Buffer!Init
  BY BufferInit
<1>3. QED BY <1>1, <1>2, InvarianceM, PTL DEF Spec, ImplementsSpanBuffer, Buffer!Spec
=============================================================================
