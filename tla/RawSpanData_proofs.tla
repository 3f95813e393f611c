------------------------- MODULE RawSpanData_proofs -------------------------
(***************************************************************************)
(* Proofs about RawSpanData, for any number of slots, ids, times and adds. *)
(***************************************************************************)
EXTENDS RawSpanData, TLAPS

USE MaxSpansAssumption, MaxMarkAssumption, SpanIdAssumption

\* A copy of all the words of a span is that span.
LEMMA CopyOfAllWords ==
  ASSUME NEW s \in RawSpan, NEW c \in RawSpan, \A w \in Word : c[w] = s[w]
  PROVE  c = s
  BY DEF RawSpan

\* A span the process builds has all its words from one span.
LEMMA SpanIsWhole ==
  ASSUME NEW s \in Span
  PROVE  s \in RawSpan /\ Whole(s)
  BY DEF Span, to_raw_span, RawSpan, Content, Word, Whole

LEMMA InitIInv == Init => IInv
<1> SUFFICES ASSUME Init PROVE IInv
  OBVIOUS
<1> USE DEF Init, NoCall, Slot, Mark, RawSpan, Content, Word, NoSpan, last_index
<1>1. TypeOK
  BY DEF TypeOK, PC
<1>2. MarkedWhole /\ AtMostOneDuplicate
  BY DEF MarkedWhole, AtMostOneDuplicate, Recoverable
<1>3. SlotsMarked /\ MarksDistinct
  BY DEF SlotsMarked, MarksDistinct, MustBeMarked
<1>4. Adding /\ Removing /\ Clearing
  BY DEF Adding, Removing, Clearing
<1> QED
  BY <1>1, <1>2, <1>3, <1>4 DEF IInv

LEMMA AddBeginStep ==
  ASSUME IInv, NEW s \in Span, MayAdd(s), AddBegin(s)
  PROVE  IInv'
<1> USE DEF IInv, AddBegin, MayAdd, Slot, Mark, last_index
<1>1. TypeOK'
  BY SpanIsWhole DEF TypeOK, PC
<1>2. MarkedWhole'
  BY DEF MarkedWhole, Recoverable
<1>3. AtMostOneDuplicate'
  BY DEF AtMostOneDuplicate, Recoverable
<1>4. SlotsMarked'
  BY DEF SlotsMarked, MustBeMarked, Running
<1>5. MarksDistinct'
  BY DEF TypeOK, MarksDistinct, Running
<1>6. Adding' /\ Removing' /\ Clearing'
  BY DEF TypeOK, Adding, Removing, Clearing, MarksDistinct, Running
<1> QED
  BY <1>1, <1>2, <1>3, <1>4, <1>5, <1>6

LEMMA AddCopyStep ==
  ASSUME IInv, NEW w \in Word, AddCopy(w)
  PROVE  IInv'
<1> USE DEF IInv, TypeOK, AddCopy, locals, file, Slot, Mark, last_index
<1>1. TypeOK'
  BY DEF RawSpan
<1>2. MarkedWhole'
  BY DEF MarkedWhole, Recoverable, Adding
<1>3. AtMostOneDuplicate'
  BY DEF AtMostOneDuplicate, Recoverable, Adding
<1>4. SlotsMarked'
  BY DEF SlotsMarked, MustBeMarked, Running
<1>5. MarksDistinct'
  BY DEF MarksDistinct, Running
<1>6. Adding'
  BY DEF Adding, MayAdd, RawSpan
<1>7. Removing'
  BY DEF Removing
<1>8. Clearing'
  BY DEF Clearing
<1> QED
  BY <1>1, <1>2, <1>3, <1>4, <1>5, <1>6, <1>7, <1>8

LEMMA AddMarkStep ==
  ASSUME IInv, AddMark
  PROVE  IInv'
<1> USE DEF IInv, TypeOK, AddMark, locals, file, Slot, Mark, last_index
<1>1. TypeOK'
  BY DEF PC
<1>2. MarkedWhole'
  BY DEF MarkedWhole, Recoverable, Adding
<1>3. AtMostOneDuplicate'
  BY DEF AtMostOneDuplicate, Recoverable, SlotsMarked, MustBeMarked, Running
<1>4. SlotsMarked'
  BY DEF SlotsMarked, MustBeMarked, Running, Adding
<1>5. MarksDistinct'
  BY DEF MarksDistinct, SlotsMarked, MustBeMarked, Running, Adding
<1>6. Adding'
  BY DEF Adding, MayAdd
<1>7. Removing'
  BY DEF Removing
<1>8. Clearing'
  BY DEF Clearing
<1> QED
  BY <1>1, <1>2, <1>3, <1>4, <1>5, <1>6, <1>7, <1>8

LEMMA AddCountStep ==
  ASSUME IInv, AddCount
  PROVE  IInv'
<1> USE DEF IInv, TypeOK, AddCount, locals, file, Slot, Mark, last_index
<1>0. span[raw_index] = arg
  BY CopyOfAllWords DEF Adding
<1>1. TypeOK'
  BY DEF PC, Adding
<1>2. MarkedWhole'
  BY <1>0, SpanIsWhole DEF MarkedWhole, Recoverable, Adding
<1>3. AtMostOneDuplicate'
  BY <1>0 DEF AtMostOneDuplicate, Recoverable, Adding, MayAdd
<1>4. SlotsMarked'
  BY DEF SlotsMarked, MustBeMarked, Running
<1>5. MarksDistinct'
  BY DEF MarksDistinct, Running
<1>6. Adding'
  BY DEF Adding
<1>7. Removing'
  BY DEF Removing
<1>8. Clearing'
  BY DEF Clearing
<1> QED
  BY <1>1, <1>2, <1>3, <1>4, <1>5, <1>6, <1>7, <1>8

LEMMA RemoveLastStep ==
  ASSUME IInv, NEW i \in Slot, Active(i), RemoveLast(i)
  PROVE  IInv'
<1> USE DEF IInv, TypeOK, RemoveLast, Active, locals, file, Slot, Mark, last_index
<1>1. TypeOK'
  BY DEF PC, Content
<1>2. MarkedWhole'
  BY DEF MarkedWhole, Recoverable
<1>3. AtMostOneDuplicate'
  BY DEF AtMostOneDuplicate, Recoverable
<1>4. SlotsMarked'
  BY DEF SlotsMarked, MustBeMarked, Running
<1>5. MarksDistinct'
  BY DEF MarksDistinct, Running
<1>6. Adding'
  BY DEF Adding
<1>7. Removing'
  BY DEF Removing
<1>8. Clearing'
  BY DEF Clearing
<1> QED
  BY <1>1, <1>2, <1>3, <1>4, <1>5, <1>6, <1>7, <1>8

LEMMA RemoveBeginStep ==
  ASSUME IInv, NEW i \in Slot, Active(i), RemoveBegin(i)
  PROVE  IInv'
<1> USE DEF IInv, TypeOK, RemoveBegin, Active, locals, file, Slot, Mark, last_index
<1>1. TypeOK'
  BY DEF PC, Word, RawSpan
<1>2. MarkedWhole'
  BY DEF MarkedWhole, Recoverable
<1>3. AtMostOneDuplicate'
  BY DEF AtMostOneDuplicate, Recoverable
<1>4. SlotsMarked'
  BY DEF SlotsMarked, MustBeMarked, Running
<1>5. MarksDistinct'
  BY DEF MarksDistinct, Running
<1>6. Adding'
  BY DEF Adding
<1>7. Removing'
  BY DEF Removing
<1>8. Clearing'
  BY DEF Clearing
<1> QED
  BY <1>1, <1>2, <1>3, <1>4, <1>5, <1>6, <1>7, <1>8

LEMMA RemoveCopyStep ==
  ASSUME IInv, NEW w \in Word, RemoveCopy(w)
  PROVE  IInv'
<1> USE DEF IInv, TypeOK, RemoveCopy, locals, file, Slot, Mark, last_index
<1>1. TypeOK'
  BY DEF RawSpan, Removing
<1>2. MarkedWhole'
  BY DEF MarkedWhole, Recoverable, SlotsMarked, MustBeMarked, Running
<1>3. AtMostOneDuplicate'
  BY DEF AtMostOneDuplicate, Recoverable, SlotsMarked, MustBeMarked, Running
<1>4. SlotsMarked'
  BY DEF SlotsMarked, MustBeMarked, Running
<1>5. MarksDistinct'
  BY DEF MarksDistinct, Running
<1>6. Adding'
  BY DEF Adding
<1>7. Removing'
  BY DEF Removing, RawSpan
<1>8. Clearing'
  BY DEF Clearing
<1> QED
  BY <1>1, <1>2, <1>3, <1>4, <1>5, <1>6, <1>7, <1>8

LEMMA RemoveMarkStep ==
  ASSUME IInv, RemoveMark
  PROVE  IInv'
<1> USE DEF IInv, TypeOK, RemoveMark, locals, file, Slot, Mark, last_index
<1>0. span[raw_index] = span[last_index]
  BY CopyOfAllWords DEF Removing
<1>1. TypeOK'
  BY DEF PC
<1>2. MarkedWhole'
  BY DEF MarkedWhole, Recoverable, Whole, Word, Removing
<1>3. AtMostOneDuplicate'
  <2> SUFFICES ASSUME NEW i \in Slot, NEW j \in Slot, i < j,
                      Recoverable(i)', Recoverable(j)',
                      span[i]["span_id"] = span[j]["span_id"]
               PROVE  i = raw_index /\ j = last_index
    BY <1>0 DEF AtMostOneDuplicate, Removing
  <2>1. \A k \in Slot : k < last_index /\ k # raw_index =>
          span[k]["span_id"] # span[last_index]["span_id"]
    BY DEF AtMostOneDuplicate, Recoverable, Removing, SlotsMarked, MustBeMarked, Running
  <2> QED
    BY <1>0, <2>1 DEF AtMostOneDuplicate, Recoverable
<1>4. SlotsMarked'
  BY DEF SlotsMarked, MustBeMarked, Running, Removing
<1>5. MarksDistinct'
  BY DEF MarksDistinct, Running, Removing
<1>6. Adding'
  BY DEF Adding
<1>7. Removing'
  BY DEF Removing
<1>8. Clearing'
  BY DEF Clearing
<1> QED
  BY <1>1, <1>2, <1>3, <1>4, <1>5, <1>6, <1>7, <1>8

LEMMA RemoveLastMarkStep ==
  ASSUME IInv, RemoveLastMark
  PROVE  IInv'
<1> USE DEF IInv, TypeOK, RemoveLastMark, locals, file, Slot, Mark, last_index
<1>1. TypeOK'
  BY DEF PC, Removing
<1>2. MarkedWhole'
  BY DEF MarkedWhole, Recoverable
<1>3. AtMostOneDuplicate'
  BY DEF AtMostOneDuplicate, Recoverable
<1>4. SlotsMarked'
  BY DEF SlotsMarked, MustBeMarked, Running
<1>5. MarksDistinct'
  BY DEF MarksDistinct, Running
<1>6. Adding'
  BY DEF Adding
<1>7. Removing'
  <2>1. "span_id" \in copied
    BY DEF Removing, Word
  <2> QED
    BY <2>1 DEF Removing
<1>8. Clearing'
  BY DEF Clearing
<1> QED
  BY <1>1, <1>2, <1>3, <1>4, <1>5, <1>6, <1>7, <1>8

LEMMA RemoveCountStep ==
  ASSUME IInv, RemoveCount
  PROVE  IInv'
<1> USE DEF IInv, TypeOK, RemoveCount, locals, file, Slot, Mark, last_index
<1>1. TypeOK'
  BY DEF PC, Removing
<1>2. MarkedWhole'
  BY DEF MarkedWhole, Recoverable
<1>3. AtMostOneDuplicate'
  BY DEF AtMostOneDuplicate, Recoverable
<1>4. SlotsMarked'
  BY DEF SlotsMarked, MustBeMarked, Running
<1>5. MarksDistinct'
  BY DEF MarksDistinct, Running
<1>6. Adding'
  BY DEF Adding
<1>7. Removing'
  BY DEF Removing
<1>8. Clearing'
  BY DEF Clearing
<1> QED
  BY <1>1, <1>2, <1>3, <1>4, <1>5, <1>6, <1>7, <1>8

LEMMA SetEndTimeStep ==
  ASSUME IInv, NEW i \in Slot, NEW t \in Time, Active(i), SetEndTime(i, t)
  PROVE  IInv'
<1> USE DEF IInv, TypeOK, SetEndTime, Active, locals, file, Slot, Mark, last_index
<1>1. TypeOK'
  BY DEF RawSpan, Content
<1>2. MarkedWhole'
  BY DEF MarkedWhole, Recoverable, Whole
<1>3. AtMostOneDuplicate'
  BY DEF AtMostOneDuplicate, Recoverable
<1>4. SlotsMarked'
  BY DEF SlotsMarked, MustBeMarked, Running
<1>5. MarksDistinct'
  BY DEF MarksDistinct, Running
<1>6. Adding'
  BY DEF Adding
<1>7. Removing'
  BY DEF Removing
<1>8. Clearing'
  BY DEF Clearing
<1> QED
  BY <1>1, <1>2, <1>3, <1>4, <1>5, <1>6, <1>7, <1>8

LEMMA SetAttributeStep ==
  ASSUME IInv, NEW i \in Slot, NEW a \in Attributes, Active(i), SetAttributeOnSpan(i, a)
  PROVE  IInv'
<1> USE DEF IInv, TypeOK, SetAttributeOnSpan, Active, locals, file, Slot, Mark, last_index
<1>1. TypeOK'
  BY DEF RawSpan, Content
<1>2. MarkedWhole'
  BY DEF MarkedWhole, Recoverable, Whole
<1>3. AtMostOneDuplicate'
  BY DEF AtMostOneDuplicate, Recoverable
<1>4. SlotsMarked'
  BY DEF SlotsMarked, MustBeMarked, Running
<1>5. MarksDistinct'
  BY DEF MarksDistinct, Running
<1>6. Adding'
  BY DEF Adding
<1>7. Removing'
  BY DEF Removing
<1>8. Clearing'
  BY DEF Clearing
<1> QED
  BY <1>1, <1>2, <1>3, <1>4, <1>5, <1>6, <1>7, <1>8

LEMMA CrashStep ==
  ASSUME IInv, Crash
  PROVE  IInv'
<1> USE DEF IInv, TypeOK, Crash, locals, file, Slot, Mark, last_index
<1>1. TypeOK'
  BY DEF PC, RawSpan, Content, NoSpan
<1>2. MarkedWhole'
  BY DEF MarkedWhole, Recoverable
<1>3. AtMostOneDuplicate'
  BY DEF AtMostOneDuplicate, Recoverable
<1>4. SlotsMarked'
  BY DEF SlotsMarked, Running
<1>5. MarksDistinct'
  BY DEF MarksDistinct, Running
<1>6. Adding'
  BY DEF Adding
<1>7. Removing'
  BY DEF Removing
<1>8. Clearing'
  BY DEF Clearing
<1> QED
  BY <1>1, <1>2, <1>3, <1>4, <1>5, <1>6, <1>7, <1>8

LEMMA RemoveAllCountStep ==
  ASSUME IInv, RemoveAllCount
  PROVE  IInv'
<1> USE DEF IInv, TypeOK, RemoveAllCount, locals, file, Slot, Mark, last_index
<1>1. TypeOK'
  BY DEF PC
<1>2. MarkedWhole'
  BY DEF MarkedWhole, Recoverable
<1>3. AtMostOneDuplicate'
  BY DEF AtMostOneDuplicate, Recoverable
<1>4. SlotsMarked'
  BY DEF SlotsMarked, Running
<1>5. MarksDistinct'
  BY DEF MarksDistinct, Running
<1>6. Adding'
  BY DEF Adding
<1>7. Removing'
  BY DEF Removing
<1>8. Clearing'
  BY DEF Clearing
<1> QED
  BY <1>1, <1>2, <1>3, <1>4, <1>5, <1>6, <1>7, <1>8

LEMMA RemoveAllMarkStep ==
  ASSUME IInv, NEW i \in Slot, RemoveAllMark(i)
  PROVE  IInv'
<1> USE DEF IInv, TypeOK, RemoveAllMark, locals, file, Slot, Mark, last_index
<1>1. TypeOK'
  OBVIOUS
<1>2. MarkedWhole'
  BY DEF MarkedWhole, Recoverable
<1>3. AtMostOneDuplicate'
  BY DEF AtMostOneDuplicate, Recoverable
<1>4. SlotsMarked'
  BY DEF SlotsMarked, Running
<1>5. MarksDistinct'
  BY DEF MarksDistinct, Running
<1>6. Adding'
  BY DEF Adding
<1>7. Removing'
  BY DEF Removing
<1>8. Clearing'
  BY DEF Clearing
<1> QED
  BY <1>1, <1>2, <1>3, <1>4, <1>5, <1>6, <1>7, <1>8

LEMMA RemoveAllSpanStep ==
  ASSUME IInv, NEW i \in Slot, RemoveAllSpan(i)
  PROVE  IInv'
<1> USE DEF IInv, TypeOK, RemoveAllSpan, locals, file, Slot, Mark, last_index
<1>1. TypeOK'
  BY DEF RawSpan, Content, NoSpan
<1>2. MarkedWhole'
  BY DEF MarkedWhole, Recoverable, Clearing
<1>3. AtMostOneDuplicate'
  BY DEF AtMostOneDuplicate, Recoverable, Clearing
<1>4. SlotsMarked'
  BY DEF SlotsMarked, Running
<1>5. MarksDistinct'
  BY DEF MarksDistinct, Running
<1>6. Adding'
  BY DEF Adding
<1>7. Removing'
  BY DEF Removing
<1>8. Clearing'
  BY DEF Clearing
<1> QED
  BY <1>1, <1>2, <1>3, <1>4, <1>5, <1>6, <1>7, <1>8

LEMMA RemoveAllDoneStep ==
  ASSUME IInv, RemoveAllDone
  PROVE  IInv'
<1> USE DEF IInv, TypeOK, RemoveAllDone, locals, file, Slot, Mark, last_index
<1>1. TypeOK'
  BY DEF PC
<1>2. MarkedWhole'
  BY DEF MarkedWhole, Recoverable
<1>3. AtMostOneDuplicate'
  BY DEF AtMostOneDuplicate, Recoverable
<1>4. SlotsMarked'
  BY DEF SlotsMarked, MustBeMarked, Clearing
<1>5. MarksDistinct'
  BY DEF MarksDistinct
<1>6. Adding'
  BY DEF Adding
<1>7. Removing'
  BY DEF Removing
<1>8. Clearing'
  BY DEF Clearing
<1> QED
  BY <1>1, <1>2, <1>3, <1>4, <1>5, <1>6, <1>7, <1>8

-----------------------------------------------------------------------------
(* The invariant holds of every behaviour, and the properties follow.      *)

LEMMA NextStep == IInv /\ [Next]_vars => IInv'
<1> SUFFICES ASSUME IInv, [Next]_vars PROVE IInv'
  OBVIOUS
<1>1. CASE UNCHANGED vars
  BY <1>1 DEF IInv, vars, TypeOK, MarkedWhole, AtMostOneDuplicate, Recoverable,
     SlotsMarked, MustBeMarked, Running, MarksDistinct, Adding, MayAdd, Removing,
     Clearing, last_index
<1>2. CASE Next
  BY <1>2, AddBeginStep, AddCopyStep, AddMarkStep, AddCountStep, RemoveLastStep,
     RemoveBeginStep, RemoveCopyStep, RemoveMarkStep, RemoveLastMarkStep,
     RemoveCountStep, SetEndTimeStep, SetAttributeStep, CrashStep, RemoveAllCountStep,
     RemoveAllMarkStep, RemoveAllSpanStep, RemoveAllDoneStep DEF Next
<1> QED
  BY <1>1, <1>2

LEMMA Invariance == Spec => []IInv
  BY InitIInv, NextStep, PTL DEF Spec

\* The variables of the store and of the operation keep their types.
THEOREM TypeCorrect == Spec => []TypeOK
<1>1. IInv => TypeOK
  BY DEF IInv
<1> QED
  BY <1>1, Invariance, PTL

\* Whatever store a process died at, every span the next one recovers has all
\* its words from one span: none is half written, none a mix of two.
THEOREM RecoveredSpansAreWhole == Spec => []MarkedWhole
<1>1. IInv => MarkedWhole
  BY DEF IInv
<1> QED
  BY <1>1, Invariance, PTL

\* No recovery finds a span twice, but for the one a removal was moving when
\* the process died between the two stores that swap the marks.
THEOREM OneDuplicateAtMost == Spec => []AtMostOneDuplicate
<1>1. IInv => AtMostOneDuplicate
  BY DEF IInv
<1> QED
  BY <1>1, Invariance, PTL

\* The assertions of add and remove hold at every call: between operations the
\* marked slots are exactly those below the count, their marks distinct.
THEOREM QuiescentBetweenCalls == Spec => []Quiescent
<1>1. IInv => Quiescent
  BY DEF IInv, TypeOK, Quiescent, SlotsMarked, MustBeMarked, Running,
     MarksDistinct, Slot, Mark
<1> QED
  BY <1>1, Invariance, PTL

-----------------------------------------------------------------------------
(* What each step does to the set of recoverable spans.                    *)

LEMMA AddingStepsKeepLive ==
  ASSUME IInv,
         \/ \E s \in Span : AddBegin(s)
         \/ \E w \in Word : AddCopy(w)
         \/ AddMark
  PROVE  Live' = Live
<1>1. \A i \in Slot : i < active_span_count => span'[i] = span[i] /\ mark'[i] = mark[i]
  BY DEF IInv, TypeOK, Adding, AddBegin, AddCopy, AddMark
<1>2. active_span_count' = active_span_count
  BY DEF AddBegin, AddCopy, AddMark
<1> QED
  BY <1>1, <1>2 DEF Live, Recoverable

LEMMA AddCountLive ==
  ASSUME IInv, AddCount
  PROVE  Live' = Live \cup {arg}
<1>1. span[active_span_count] = arg /\ active_span_count \in Slot
  BY CopyOfAllWords DEF IInv, TypeOK, AddCount, Adding
<1>2. mark[active_span_count] # 0
  BY DEF IInv, AddCount, Adding
<1>3. \A i \in Slot : Recoverable(i)' <=> Recoverable(i) \/ i = active_span_count
  BY <1>1, <1>2 DEF AddCount, Recoverable, Slot
<1> QED
  BY <1>1, <1>3 DEF AddCount, Live

LEMMA IdsDistinctWhenIdle ==
  ASSUME IInv, pc = "idle", NEW i \in Slot, NEW j \in Slot, i # j,
         i < active_span_count, j < active_span_count
  PROVE  span[i]["span_id"] # span[j]["span_id"]
  BY DEF IInv, AtMostOneDuplicate, SlotsMarked, MustBeMarked, Running, Recoverable, Slot

LEMMA RemoveStartLive ==
  ASSUME IInv, NEW i \in Slot, Active(i), RemoveLast(i) \/ RemoveBegin(i)
  PROVE  Live' = Live \ {span[i]} /\ span[i] \in Live
<1>1. \A j \in Slot : Recoverable(j)' <=> Recoverable(j) /\ j # i
  BY DEF IInv, TypeOK, RemoveLast, RemoveBegin, Recoverable
<1>2. \A j \in Slot : Recoverable(j) /\ j # i => span[j] # span[i]
  BY IdsDistinctWhenIdle DEF RemoveLast, RemoveBegin, Recoverable, Active
<1>3. Recoverable(i)
  BY DEF IInv, SlotsMarked, MustBeMarked, Running, Recoverable, Active,
     RemoveLast, RemoveBegin
<1>4. span' = span
  BY DEF RemoveLast, RemoveBegin
<1> QED
  BY <1>1, <1>2, <1>3, <1>4 DEF Live

LEMMA MovingStepsKeepLive ==
  ASSUME IInv,
         \/ \E w \in Word : RemoveCopy(w)
         \/ RemoveMark
         \/ RemoveLastMark
         \/ RemoveCount
  PROVE  Live' = Live
<1> USE DEF IInv, TypeOK, Removing, SlotsMarked, MustBeMarked, Running, Recoverable,
            Slot, last_index, Live
<1>1. CASE \E w \in Word : RemoveCopy(w)
  BY <1>1 DEF RemoveCopy
<1>2. CASE RemoveMark
  <2>1. span[raw_index] = span[last_index]
    BY <1>2, CopyOfAllWords DEF RemoveMark
  <2>2. Recoverable(last_index) /\ last_index \in Slot
    BY <1>2 DEF RemoveMark
  <2>3. \A i \in Slot : Recoverable(i)' <=> Recoverable(i) \/ i = raw_index
    BY <1>2, <2>2 DEF RemoveMark
  <2> QED
    BY <1>2, <2>1, <2>2, <2>3 DEF RemoveMark
<1>3. CASE RemoveLastMark
  <2>1. span[raw_index] = span[last_index]
    BY <1>3, CopyOfAllWords DEF RemoveLastMark
  <2>2. Recoverable(raw_index) /\ raw_index # last_index
    BY <1>3 DEF RemoveLastMark
  <2>3. \A i \in Slot : Recoverable(i)' <=> Recoverable(i) /\ i # last_index
    BY <1>3 DEF RemoveLastMark
  <2> QED
    BY <1>3, <2>1, <2>2, <2>3 DEF RemoveLastMark
<1>4. CASE RemoveCount
  BY <1>4 DEF RemoveCount
<1> QED
  BY <1>1, <1>2, <1>3, <1>4

LEMMA SetEndTimeLive ==
  ASSUME IInv, NEW i \in Slot, NEW t \in Time, Active(i), SetEndTime(i, t)
  PROVE  /\ span[i] \in Live
         /\ Live' = (Live \ {span[i]}) \cup {[span[i] EXCEPT !["end_time"] = t]}
<1>1. \A j \in Slot : Recoverable(j)' <=> Recoverable(j)
  BY DEF SetEndTime, Recoverable
<1>2. \A j \in Slot : Recoverable(j) /\ j # i => span[j] # span[i] /\ span'[j] = span[j]
  BY IdsDistinctWhenIdle DEF SetEndTime, Recoverable, Active
<1>3. Recoverable(i)
  BY DEF IInv, SlotsMarked, MustBeMarked, Running, Recoverable, Active, SetEndTime
<1>4. span'[i] = [span[i] EXCEPT !["end_time"] = t]
  BY DEF IInv, TypeOK, SetEndTime
<1> QED
  BY <1>1, <1>2, <1>3, <1>4 DEF Live

LEMMA SetAttributeLive ==
  ASSUME IInv, NEW i \in Slot, NEW a \in Attributes, Active(i), SetAttributeOnSpan(i, a)
  PROVE  /\ span[i] \in Live
         /\ Live' = (Live \ {span[i]}) \cup {[span[i] EXCEPT !["attributes"] = a]}
<1>1. \A j \in Slot : Recoverable(j)' <=> Recoverable(j)
  BY DEF SetAttributeOnSpan, Recoverable
<1>2. \A j \in Slot : Recoverable(j) /\ j # i => span[j] # span[i] /\ span'[j] = span[j]
  BY IdsDistinctWhenIdle DEF SetAttributeOnSpan, Recoverable, Active
<1>3. Recoverable(i)
  BY DEF IInv, SlotsMarked, MustBeMarked, Running, Recoverable, Active, SetAttributeOnSpan
<1>4. span'[i] = [span[i] EXCEPT !["attributes"] = a]
  BY DEF IInv, TypeOK, SetAttributeOnSpan
<1> QED
  BY <1>1, <1>2, <1>3, <1>4 DEF Live

LEMMA RecoveryStepsLive ==
  ASSUME IInv
  PROVE  /\ Crash => Live' = Live
         /\ RemoveAllCount => Live' = {}
         /\ pc = "clear" => Live = {}
<1>1. Crash => Live' = Live
  BY DEF Crash, file, Live, Recoverable
<1>2. RemoveAllCount => Live' = {}
  BY DEF RemoveAllCount, Live, Recoverable, Slot
<1>3. pc = "clear" => Live = {}
  BY DEF IInv, Clearing, Live, Recoverable, Slot
<1> QED
  BY <1>1, <1>2, <1>3

-----------------------------------------------------------------------------
(* The file implements the set of spans it promises.                       *)

LEMMA InitImplements == Init => Promise!Init
  BY DEF Init, Promise!Init, Live, Recoverable

LEMMA StepImplements == IInv /\ [Next]_vars => [Promise!Next]_(Promise!vars)
<1> SUFFICES ASSUME IInv, [Next]_vars
             PROVE  Promise!Next \/ UNCHANGED Promise!vars
  OBVIOUS
<1> USE DEF Promise!vars
<1>1. CASE UNCHANGED vars
  BY <1>1 DEF vars, Live, Recoverable
<1>2. ASSUME NEW s \in Span, MayAdd(s), AddBegin(s)
      PROVE  Promise!BeginAdd(s)
  <2>1. Live' = Live
    BY <1>2, AddingStepsKeepLive
  <2>2. s["span_id"] \notin Promise!Ids
    BY <1>2 DEF MayAdd, Promise!Ids, Live, Recoverable
  <2> QED
    BY <1>2, <2>1, <2>2 DEF AddBegin, Promise!BeginAdd
<1>3. ASSUME AddMark \/ \E w \in Word : AddCopy(w)
      PROVE  UNCHANGED Promise!vars
  BY <1>3, AddingStepsKeepLive DEF AddMark, AddCopy, locals
<1>4. ASSUME AddCount
      PROVE  Promise!CompleteAdd
  BY <1>4, AddCountLive DEF AddCount, Promise!CompleteAdd
<1>5. ASSUME NEW i \in Slot, Active(i), RemoveLast(i) \/ RemoveBegin(i)
      PROVE  span[i] \in Live /\ Promise!Remove(span[i])
  BY <1>5, RemoveStartLive DEF RemoveLast, RemoveBegin, Promise!Remove
<1>6. ASSUME \/ \E w \in Word : RemoveCopy(w)
             \/ RemoveMark
             \/ RemoveLastMark
             \/ RemoveCount
      PROVE  UNCHANGED Promise!vars
  BY <1>6, MovingStepsKeepLive
     DEF RemoveCopy, RemoveMark, RemoveLastMark, RemoveCount
<1>7. ASSUME NEW i \in Slot, NEW t \in Time, Active(i), SetEndTime(i, t)
      PROVE  span[i] \in Live /\ Promise!SetEndTime(span[i], t)
  BY <1>7, SetEndTimeLive DEF SetEndTime, Promise!SetEndTime
<1>8. ASSUME NEW i \in Slot, NEW a \in Attributes, Active(i), SetAttributeOnSpan(i, a)
      PROVE  span[i] \in Live /\ Promise!SetAttribute(span[i], a)
  BY <1>8, SetAttributeLive DEF SetAttributeOnSpan, Promise!SetAttribute
<1>9. ASSUME Crash
      PROVE  Promise!Crash \/ UNCHANGED Promise!vars
  BY <1>9, RecoveryStepsLive DEF Crash, Promise!Crash
<1>10. ASSUME RemoveAllCount
      PROVE  Promise!Clear
  BY <1>10, RecoveryStepsLive DEF RemoveAllCount, Promise!Clear
<1>11. ASSUME NEW i \in Slot, RemoveAllMark(i) \/ RemoveAllSpan(i)
       PROVE  UNCHANGED Promise!vars
  <2>1. IInv'
    BY <1>11, NextStep
  <2>2. pc = "clear" /\ pc' = "clear"
    BY <1>11 DEF RemoveAllMark, RemoveAllSpan
  <2>3. Live = {} /\ Live' = {}
    BY <1>11, <2>1, <2>2 DEF IInv, Clearing, Live, Recoverable, Slot
  <2> QED
    BY <2>2, <2>3
<1>12. ASSUME RemoveAllDone
       PROVE  Promise!Restart
  <2>1. Live = {} /\ Live' = {}
    BY <1>12, RecoveryStepsLive DEF RemoveAllDone, file, Live, Recoverable
  <2> QED
    BY <1>12, <2>1 DEF RemoveAllDone, Promise!Restart
<1>13. CASE Next
  BY <1>2, <1>3, <1>4, <1>5, <1>6, <1>7, <1>9, <1>10, <1>11, <1>12, <1>13, <1>8
     DEF Next, Promise!Next
<1> QED
  BY <1>1, <1>13

\* Each store of each operation, and each crash, is a step of the set of spans
\* SpanSet describes, or none: add, remove and remove_all are indivisible.
THEOREM RawSpanDataImplementsSpanSet == Spec => ImplementsSpanSet
  BY InitImplements, StepImplements, Invariance, PTL
     DEF Spec, ImplementsSpanSet, Promise!Spec

-----------------------------------------------------------------------------
(* No span is lost by an operation on another.                             *)

LEMMA StepKeepsOtherSpans ==
  ASSUME IInv, [Next]_vars, NEW x \in LiveIds, x \notin LiveIds'
  PROVE  \/ pc = "crashed"
         \/ pc = "idle" /\ raw_index' \in Slot /\ span[raw_index']["span_id"] = x
<1> USE DEF LiveIds
<1>1. Live' # Live
  OBVIOUS
<1>2. ASSUME NEW i \in Slot, Active(i), RemoveLast(i) \/ RemoveBegin(i)
      PROVE  pc = "idle" /\ raw_index' \in Slot /\ span[raw_index']["span_id"] = x
  BY <1>2, RemoveStartLive DEF RemoveLast, RemoveBegin
<1>3. ASSUME NEW i \in Slot, NEW t \in Time, Active(i), SetEndTime(i, t)
      PROVE  FALSE
  <2>1. span[i] \in RawSpan
    BY DEF IInv, TypeOK
  <2>2. [span[i] EXCEPT !["end_time"] = t]["span_id"] = span[i]["span_id"]
    BY <2>1
  <2>3. Live' = (Live \ {span[i]}) \cup {[span[i] EXCEPT !["end_time"] = t]}
    BY <1>3, SetEndTimeLive
  <2>4. PICK s \in Live : s["span_id"] = x
    OBVIOUS
  <2>5. \E r \in Live' : r["span_id"] = x
    BY <2>2, <2>3, <2>4
  <2> QED
    BY <2>5
<1>4. ASSUME NEW i \in Slot, NEW a \in Attributes, Active(i), SetAttributeOnSpan(i, a)
      PROVE  FALSE
  <2>1. span[i] \in RawSpan
    BY DEF IInv, TypeOK
  <2>2. [span[i] EXCEPT !["attributes"] = a]["span_id"] = span[i]["span_id"]
    BY <2>1
  <2>3. Live' = (Live \ {span[i]}) \cup {[span[i] EXCEPT !["attributes"] = a]}
    BY <1>4, SetAttributeLive
  <2>4. PICK s \in Live : s["span_id"] = x
    OBVIOUS
  <2>5. \E r \in Live' : r["span_id"] = x
    BY <2>2, <2>3, <2>4
  <2> QED
    BY <2>5
<1>5. ASSUME AddCount
      PROVE  FALSE
  BY <1>5, AddCountLive
<1>6. ASSUME NEW i \in Slot, RemoveAllMark(i) \/ RemoveAllSpan(i) \/ RemoveAllDone
      PROVE  FALSE
  BY <1>6, RecoveryStepsLive DEF RemoveAllMark, RemoveAllSpan, RemoveAllDone
<1>7. CASE UNCHANGED vars
  BY <1>1, <1>7 DEF vars, Live, Recoverable
<1>8. CASE Next
  BY <1>1, <1>2, <1>3, <1>5, <1>6, <1>8, <1>4, AddingStepsKeepLive, MovingStepsKeepLive,
     RecoveryStepsLive DEF Next, RemoveAllCount, RemoveAllDone
<1> QED
  BY <1>7, <1>8

\* A recoverable span disappears only by the first store of its own removal, or
\* when the next process clears the store.
THEOREM NoSpanIsLost == Spec => OnlyRemovedSpansDisappear
<1>1. IInv /\ [Next]_vars =>
        [\A x \in LiveIds : x \notin LiveIds' =>
           \/ pc = "crashed"
           \/ pc = "idle" /\ raw_index' \in Slot /\ span[raw_index']["span_id"] = x]_vars
  BY StepKeepsOtherSpans
<1> QED
  BY <1>1, Invariance, PTL DEF Spec, OnlyRemovedSpansDisappear
=============================================================================
