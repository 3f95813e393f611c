---------------------------- MODULE AndroidLibrary ----------------------------
(***************************************************************************)
(* The library on Android: the virtual machine loads it (SpanJClassCache), *)
(* and a Java thread calls recover_spans_native (AndroidRecovery) once the *)
(* class it belongs to is registered, also if loading fails after that.    *)
(* The method reads the cache that loading has filled.                     *)
(***************************************************************************)
EXTENDS SpanJClassCache, Sequences

CONSTANTS Span, Attribute, attributes_of, Recoverable, null

ASSUME SpansAssumption == /\ attributes_of \in [Span -> Seq(Attribute)]
                          /\ Recoverable \subseteq Seq(Span)

VARIABLES
  context, recovery_pc, spans, next, spans_array, i, attribute, attributes, index,
  jspan, held, live, exception, refused

recovery == <<context, recovery_pc, spans, next, spans_array, i, attribute, attributes,
              index, jspan, held, live, exception, refused>>
libraryVars == <<vars, recovery>>

Recovery == INSTANCE AndroidRecovery
              WITH pc <- recovery_pc, cached <- is_initialized("g_span_cache")

LibraryInit == Init /\ Recovery!Init

\* A library is unloaded when no thread is in one of its native methods; a
\* process may exit at any time.
VirtualMachine ==
  /\ Next
  /\ pc' = "unloaded" => recovery_pc = "java"
  /\ UNCHANGED recovery

JavaCalls ==
  /\ "PersistenceContext" \in registered
  /\ \E context_ptr \in {0, 1} : Recovery!Call(context_ptr)
  /\ UNCHANGED vars

NativeMethod ==
  /\ pc # "exited"
  /\ Recovery!Native
  /\ UNCHANGED vars

LibraryNext == VirtualMachine \/ JavaCalls \/ NativeMethod

\* A native method runs to its return; nothing else has to happen.
LibrarySpec == LibraryInit /\ [][LibraryNext]_libraryVars /\ WF_libraryVars(NativeMethod)

-----------------------------------------------------------------------------
(* Properties                                                              *)

\* Every local reference has a variable that will delete it, and between two
\* spans only the array's is left: however many spans are recovered, and
\* whichever calls failed, the table of local references does not fill up
\* (android_span_data.cpp:91-122, 163, managed_local_ref.h:30).
RefsAreScoped == Recovery!RefsAreScoped

\* The array createRecoveredSpan gets is one of keys followed by their own
\* values, however many strings could not be created (android_span_data.cpp:109).
FactorySeesPairs == Recovery!FactorySeesPairs

\* Whatever failed while the library was loaded, and whatever fails in the
\* call: an array that reaches Java has every recovered span but those
\* createRecoveredSpan refused, in order, each with all its attributes; the
\* method never takes the spans and finds itself without the classes to return
\* them (android_span_data.cpp:82, 151, 163).
ArrivesWhole == Recovery!ArrivesWhole

\* A call returns, whatever fails in it, or the process exits
\* (android_span_data.cpp:105, 162).
Returns == recovery_pc = "new_array" ~> recovery_pc = "java" \/ pc = "exited"
=============================================================================
