---------------------------- MODULE InitializeFair ----------------------------
(***************************************************************************)
(* Initialize, where from some moment on nothing goes wrong any more, so   *)
(* that what must happen in the end can be stated: an application that     *)
(* opens its file, takes the recovered spans, and opens it again in its    *)
(* next process gets every span that was left on disk.  Before that moment *)
(* calls fail, processes die and contexts are released with their          *)
(* recovered spans still in them, as often as they like.                   *)
(*                                                                         *)
(* Fairness is what the code schedules: initialize_span_data runs in the   *)
(* thread of its caller until it returns.  That the application calls it,  *)
(* and then get_recovered_spans, is what initialize.h asks of it.          *)
(***************************************************************************)
EXTENDS Initialize

VARIABLE undisturbed      \* whether calls succeed and processes live from now on

fairVars == <<vars, undisturbed>>

FairInit == Init /\ undisturbed \in BOOLEAN

Interrupted ==
  /\ ~undisturbed
  /\ SystemCallFails \/ Crash \/ release_span_data
  /\ undisturbed' \in BOOLEAN

Uninterrupted ==
  /\ \/ Opens
     \/ Initializes
     \/ get_recovered_spans
     \/ \E s \in SpanId : Add(s)
     \/ is_recovered /\ release_span_data
  /\ UNCHANGED undisturbed

FairNext == Interrupted \/ Uninterrupted

FairSpec ==
  /\ FairInit
  /\ [][FairNext]_fairVars
  /\ WF_fairVars(Initializes /\ UNCHANGED undisturbed)
  /\ WF_fairVars(Opens /\ UNCHANGED undisturbed)
  /\ WF_fairVars(get_recovered_spans /\ UNCHANGED undisturbed)

\* Whatever the interrupted initializations and the crashes before have left
\* in the file, a span a process leaves on disk is handed over once nothing
\* interrupts any more, whichever sizes the next processes ask for
\* (initialize.h:38).  A span is in the file when the next initialization can
\* read it: in a file left without a valid header, or too short for the layout
\* in it, there is none.
HandedOverInTheEnd ==
  \A s \in SpanId :
    pc = "none" /\ undisturbed /\ s \in Ids(OnDisk)
      ~> s \in delivered
=============================================================================
