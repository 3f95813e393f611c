----------------------------- MODULE SpanBuffer -----------------------------
(***************************************************************************)
(* What MutableSpanData promises: a buffer of at most Capacity spans with  *)
(* distinct ids, in the order they were added.  Adding to a full buffer    *)
(* drops the oldest span; adding an id the buffer holds does nothing;      *)
(* removing, ending or changing a span touches that span only, and keeps   *)
(* the order.                                                              *)
(* A crash may lose the span being added and nothing else.                 *)
(***************************************************************************)
EXTENDS Naturals, Sequences

CONSTANTS Span, Time, Attributes, Capacity

VARIABLES queue,       \* the spans, the oldest first
          adding,      \* the span being added, if any: {} or {s}
          up           \* a process owns the buffer

vars == <<queue, adding, up>>

Init == queue = << >> /\ adding = {} /\ up = TRUE

Position == 1 .. Len(queue)
RemoveAt(q, i) == [k \in 1 .. (Len(q) - 1) |-> IF k < i THEN q[k] ELSE q[k + 1]]

\* The oldest span goes as soon as its successor is taken in.
BeginAdd(s) == /\ up
               /\ adding = {}
               /\ \A i \in Position : queue[i]["span_id"] # s["span_id"]
               /\ queue' = IF Len(queue) = Capacity THEN RemoveAt(queue, 1) ELSE queue
               /\ adding' = {s}
               /\ UNCHANGED up

CompleteAdd == /\ \E s \in adding : queue' = Append(queue, s)
               /\ adding' = {}
               /\ UNCHANGED up

Remove(i) == /\ up
             /\ adding = {}
             /\ queue' = RemoveAt(queue, i)
             /\ UNCHANGED <<adding, up>>

SetEndTime(i, t) == /\ up
                    /\ adding = {}
                    /\ queue' = [queue EXCEPT ![i] = [@ EXCEPT !["end_time"] = t]]
                    /\ UNCHANGED <<adding, up>>

SetAttribute(i, a) == /\ up
                      /\ adding = {}
                      /\ queue' = [queue EXCEPT ![i] = [@ EXCEPT !["attributes"] = a]]
                      /\ UNCHANGED <<adding, up>>

Crash == up /\ up' = FALSE /\ adding' = {} /\ UNCHANGED queue
Clear == ~up /\ queue' = << >> /\ UNCHANGED <<adding, up>>
Restart == ~up /\ queue = << >> /\ up' = TRUE /\ UNCHANGED <<queue, adding>>

Next == \/ \E s \in Span : BeginAdd(s)
        \/ CompleteAdd
        \/ \E i \in Position : Remove(i)
        \/ \E i \in Position, t \in Time : SetEndTime(i, t)
        \/ \E i \in Position, a \in Attributes : SetAttribute(i, a)
        \/ Crash
        \/ Clear
        \/ Restart

Spec == Init /\ [][Next]_vars
=============================================================================
