--------------------------- MODULE AndroidRecovery ---------------------------
(***************************************************************************)
(* recover_spans_native: the recovered spans of a context are taken from   *)
(* it and made into an array of Java objects, JNI call by JNI call.  Every *)
(* call that creates an object may fail, which leaves an exception         *)
(* pending: the code goes on to the next attribute or span, and the        *)
(* exception is thrown when the native method returns, in place of the     *)
(* array.  With an exception pending JNI does not say what a call that     *)
(* creates something does: it may succeed here as well as fail.            *)
(*                                                                         *)
(* Local references are held by ManagedLocalRef variables, which delete    *)
(* them when they go out of scope.  AndroidLibrary has the virtual machine *)
(* that calls the method, and g_span_cache, which this module only reads.  *)
(***************************************************************************)
EXTENDS Integers, Sequences, FiniteSets

CONSTANTS
  Span,           \* the spans that can be recovered
  attributes_of,  \* for each span, its sequence of attributes
  Recoverable,    \* the sequences of spans a context may have recovered
  null

VARIABLES
  cached,         \* whether g_span_cache is complete
  context,        \* Context::is_recovered_ and recovered_spans_
  pc,
  spans,          \* what recover_spans_native took from the context
  next,           \* the span the loop over them is at
  spans_array, i, \* the array and where the next object goes
  attribute,      \* the attribute the inner loop is at
  attributes, index,
  jspan,
  held,           \* the C++ variables that hold a local reference
  live,           \* local references in the frame of the native method
  exception,      \* whether an exception is pending
  refused         \* the spans, by place, for which createRecoveredSpan returned null

call == <<spans, next, spans_array, i, attribute, attributes, index, jspan>>
vars == <<context, pc, spans, next, spans_array, i, attribute, attributes, index, jspan,
          held, live, exception, refused>>

Variable == {"spans_array", "name", "attributes", "jkey", "jval", "jspan"}
Nulls(n) == [k \in 1 .. n |-> null]
this == spans[next]
count == Len(attributes_of[this])

\* The Java strings of the attribute k of s.
Key(s, k) == <<"key", attributes_of[s][k]>>
Value(s, k) == <<"value", attributes_of[s][k]>>

TypeOK ==
  /\ context.is_recovered \in BOOLEAN
  /\ context.recovered_spans \in Recoverable \cup {<< >>}
  /\ pc \in {"java", "new_array", "span", "attributes", "attribute", "value", "store"}
  /\ spans \in Recoverable \cup {<< >>}
  /\ next \in 1 .. (Len(spans) + 1)
  /\ i \in 1 .. next
  /\ pc \in {"attribute", "value"} => attribute \in 1 .. (count + 1) /\ index \in 0 .. 2 * count
  /\ held \subseteq Variable
  /\ live \in Nat
  /\ exception \in BOOLEAN
  /\ refused \subseteq 1 .. (next - 1)

Init ==
  /\ \E s \in Recoverable : context = [is_recovered |-> FALSE, recovered_spans |-> s]
  /\ pc = "java"
  /\ spans = << >> /\ next = 1
  /\ spans_array = null /\ i = 1
  /\ attribute = 1 /\ attributes = null /\ index = 0
  /\ jspan = null
  /\ held = {}
  /\ live = 0
  /\ exception = FALSE
  /\ refused = {}

-----------------------------------------------------------------------------
\* Mutant of LocalRefs: the destructor deletes nothing.
LocalRefsLeak(made, destroyed) ==
  /\ held' = (held \cup made) \ destroyed
  /\ live' = live + Cardinality(made)

\* The ManagedLocalRef variables that take a new reference, and those whose
\* scope ends: one that holds a reference deletes it.
LocalRefs(made, destroyed) ==
  /\ held' = (held \cup made) \ destroyed
  /\ live' = live + Cardinality(made) - Cardinality((held \cup made) \cap destroyed)

\* A JNI call creates its object, or throws; without its classes the code does
\* not call.
Created == UNCHANGED exception
Throws == exception' = TRUE
NothingMade == IF cached THEN Throws ELSE UNCHANGED exception

\* get_recovered_spans, with the context or with the 0 a failed initialization
\* gave.
Call(context_ptr) ==
  /\ pc = "java"
  /\ pc' = "new_array"
  /\ IF context_ptr = 0 \/ context.is_recovered
     THEN spans' = << >> /\ UNCHANGED context
     ELSE /\ spans' = context.recovered_spans
          /\ context' = [is_recovered |-> TRUE, recovered_spans |-> << >>]
  /\ next' = 1
  /\ i' = 1
  /\ UNCHANGED <<spans_array, attribute, attributes, index, jspan, held, live, exception, refused>>

\* create_jni_span_objects_array
NewArray ==
  /\ pc = "new_array"
  /\ \/ /\ cached
        /\ Created
        /\ LocalRefs({"spans_array"}, {})
        /\ spans_array' = Nulls(Len(spans))
        /\ UNCHANGED next
     \/ /\ NothingMade
        /\ next' = Len(spans) + 1
        /\ UNCHANGED <<held, live, spans_array>>
  /\ pc' = "span"
  /\ UNCHANGED <<context, spans, i, attribute, attributes, index, jspan, refused>>

\* The span is given up.
Skip(destroyed) ==
  /\ LocalRefs({}, destroyed)
  /\ next' = next + 1
  /\ pc' = "span"
  /\ UNCHANGED <<attribute, attributes, index, jspan>>

(* create_jni_span_object                                                  *)
NewName ==
  /\ pc = "span" /\ next <= Len(spans)
  /\ \/ /\ cached
        /\ Created
        /\ LocalRefs({"name"}, {})
        /\ pc' = "attributes"
        /\ UNCHANGED <<next, attribute, attributes, index, jspan>>
     \/ NothingMade /\ Skip({})
  /\ UNCHANGED <<context, spans, spans_array, i, refused>>

NewAttributes ==
  /\ pc = "attributes"
  /\ \/ /\ Created
        /\ LocalRefs({"attributes"}, {})
        /\ attributes' = Nulls(2 * count)
        /\ index' = 0
        /\ attribute' = 1
        /\ pc' = "attribute"
        /\ UNCHANGED <<next, jspan>>
     \/ Throws /\ Skip({"name"})
  /\ UNCHANGED <<context, spans, spans_array, i, refused>>

NewKey ==
  /\ pc = "attribute" /\ attribute <= count
  /\ \/ Created /\ LocalRefs({"jkey"}, {})
     \/ Throws /\ UNCHANGED <<held, live>>
  /\ pc' = "value"
  /\ UNCHANGED <<context, call, refused>>

\* Mutant of StorePair: the place of an attribute that was not created stays empty.
StorePairAnyway(made) ==
  /\ attributes' = [k \in 1 .. Len(attributes) |->
                      CASE k = index + 1 /\ "jkey" \in held -> Key(this, attribute)
                        [] k = index + 2 /\ made # {} -> Value(this, attribute)
                        [] OTHER -> attributes[k]]
  /\ index' = index + 2

\* if (jkey && jval)
StorePair(made) ==
  IF "jkey" \in held /\ made # {}
  THEN /\ attributes' = [attributes EXCEPT
                           ![index + 1] = Key(this, attribute),
                           ![index + 2] = Value(this, attribute)]
       /\ index' = index + 2
  ELSE UNCHANGED <<attributes, index>>

\* Mutant of NewValue: an attribute that was not created is tried again.
NewValueRetries ==
  /\ pc = "value"
  /\ \E made \in {{}, {"jval"}} :
       /\ IF made # {} THEN Created ELSE Throws
       /\ StorePair(made)
       /\ LocalRefs(made, {"jkey", "jval"})
       /\ attribute' = IF made # {} THEN attribute + 1 ELSE attribute
  /\ pc' = "attribute"
  /\ UNCHANGED <<context, spans, next, spans_array, i, jspan, refused>>

NewValue ==
  /\ pc = "value"
  /\ \E made \in {{}, {"jval"}} :
       /\ IF made # {} THEN Created ELSE Throws
       /\ StorePair(made)
       /\ LocalRefs(made, {"jkey", "jval"})
  /\ attribute' = attribute + 1
  /\ pc' = "attribute"
  /\ UNCHANGED <<context, spans, next, spans_array, i, jspan, refused>>

\* createRecoveredSpan, which is Java code, gives a span, gives null, or throws.
CreateSpan ==
  /\ pc = "attribute" /\ attribute > count
  /\ \/ /\ Created
        /\ LocalRefs({"jspan"}, {"name", "attributes"})
        /\ jspan' = [span |-> this, attributes |-> attributes]
        /\ pc' = "store"
        /\ UNCHANGED <<next, attribute, attributes, index, refused>>
     \/ /\ Created
        /\ refused' = refused \cup {next}
        /\ Skip({"name", "attributes"})
     \/ /\ Throws
        /\ Skip({"name", "attributes"})
        /\ UNCHANGED refused
  /\ UNCHANGED <<context, spans, spans_array, i>>

\* Mutant of Store: a span goes where it was among the recovered ones.
StoreAtNext ==
  /\ pc = "store"
  /\ spans_array' = [spans_array EXCEPT ![next] = jspan]
  /\ i' = i + 1
  /\ Skip({"jspan"})
  /\ UNCHANGED <<context, spans, exception, refused>>

Store ==
  /\ pc = "store"
  /\ spans_array' = [spans_array EXCEPT ![i] = jspan]
  /\ i' = i + 1
  /\ Skip({"jspan"})
  /\ UNCHANGED <<context, spans, exception, refused>>

\* The virtual machine takes the array, or throws what is pending, and frees
\* the frame.
Returning == pc = "span" /\ next > Len(spans)
Return ==
  /\ Returning
  /\ pc' = "java"
  /\ held' = {}
  /\ live' = 0
  /\ exception' = FALSE
  /\ spans_array' = null
  /\ attribute' = 1 /\ attributes' = null /\ index' = 0 /\ jspan' = null
  /\ refused' = {}
  /\ UNCHANGED <<context, spans, next, i>>

Native == \/ NewArray \/ NewName \/ NewAttributes \/ NewKey \/ NewValue \/ CreateSpan
          \/ Store \/ Return

-----------------------------------------------------------------------------
(* Properties                                                              *)

\* Every local reference has a variable that will delete it, and between two
\* spans only the array's is left: however many spans are recovered, and
\* whichever calls failed, the table of local references does not fill up
\* (android_span_data.cpp:91-122, 163, managed_local_ref.h:30).
RefsAreScoped ==
  /\ live = Cardinality(held)
  /\ pc = "span" => held \subseteq {"spans_array"}

\* What is left of n things when some are left out: their places, in order.
Places(n) == {place \in UNION {[1 .. m -> 1 .. n] : m \in 0 .. n} :
                \A j, k \in DOMAIN place : j < k => place[j] < place[k]}

\* The array a has the attributes of s at place, key before value, then null.
HoldsPairs(a, s, place) ==
  /\ \A k \in DOMAIN place : a[2 * k - 1] = Key(s, place[k]) /\ a[2 * k] = Value(s, place[k])
  /\ \A k \in DOMAIN a : k > 2 * Len(place) => a[k] = null

\* The object of a span with all its attributes.
Whole(s) ==
  [span |-> s,
   attributes |-> [k \in 1 .. 2 * Len(attributes_of[s]) |->
                     IF k % 2 = 1 THEN Key(s, (k + 1) \div 2) ELSE Value(s, k \div 2)]]

\* The array a has the objects of the spans at place, whole, then null.
HoldsSpans(a, place) ==
  /\ \A k \in DOMAIN place : a[k] = Whole(spans[place[k]])
  /\ \A k \in DOMAIN a : k > Len(place) => a[k] = null

\* The array createRecoveredSpan gets is one of keys followed by their own
\* values, in the order of the attributes, then null: a string that could not
\* be created takes its whole attribute with it and leaves no hole
\* (android_span_data.cpp:109).
FactorySeesPairs ==
  pc = "attribute" => \E place \in Places(attribute - 1) : HoldsPairs(attributes, this, place)

\* An array that reaches Java has every recovered span but those
\* createRecoveredSpan refused, in order and without a hole, each with all its
\* attributes: what fails on the way ends in an exception and not in an array
\* with something missing (android_span_data.cpp:92, 101, 109, 163).
ArrivesWhole ==
  Returning /\ ~exception =>
    /\ "spans_array" \in held
    /\ \E place \in Places(Len(spans)) :
         /\ {place[k] : k \in DOMAIN place} = DOMAIN spans \ refused
         /\ HoldsSpans(spans_array, place)
=============================================================================
