------------------------------ MODULE SpanSet ------------------------------
(***************************************************************************)
(* What the file promises to the process that recovers from it: a set of   *)
(* whole spans, `live', which changes in one indivisible step per          *)
(* operation, whatever the number of stores the operation is made of and   *)
(* wherever the process dies.                                              *)
(*                                                                         *)
(*  - A span under insertion either appears whole or not at all.           *)
(*  - A span leaves the set only when its own removal is requested, when   *)
(*    the next process clears the store, and never because another span is *)
(*    added, removed or moved.                                             *)
(*  - A crash by itself changes nothing.                                   *)
(***************************************************************************)
CONSTANT Span,       \* the whole spans
         Id(_),      \* the span id of a span
         End(_, _),  \* End(s, t): the span s with end time t
         Attach(_, _)  \* Attach(s, a): the span s with attributes a
CONSTANT Time,       \* the end times
         Attributes  \* the attributes a span may be given

VARIABLES live,      \* the spans a recovery would return
          adding,    \* the span being added, if any: {} or {s}
          up         \* a process owns the store

vars == <<live, adding, up>>

Init == /\ live = {}
        /\ adding = {}
        /\ up = TRUE

Ids == {Id(s) : s \in live}

BeginAdd(s) == /\ up
               /\ adding = {}
               /\ Id(s) \notin Ids
               /\ adding' = {s}
               /\ UNCHANGED <<live, up>>

CompleteAdd == /\ adding # {}
               /\ live' = live \cup adding
               /\ adding' = {}
               /\ UNCHANGED up

Remove(s) == /\ up
             /\ adding = {}
             /\ s \in live
             /\ live' = live \ {s}
             /\ UNCHANGED <<adding, up>>

SetEndTime(s, t) == /\ up
                    /\ adding = {}
                    /\ s \in live
                    /\ live' = (live \ {s}) \cup {End(s, t)}
                    /\ UNCHANGED <<adding, up>>

SetAttribute(s, a) == /\ up
                      /\ adding = {}
                      /\ s \in live
                      /\ live' = (live \ {s}) \cup {Attach(s, a)}
                      /\ UNCHANGED <<adding, up>>

Crash == /\ up
         /\ up' = FALSE
         /\ adding' = {}
         /\ UNCHANGED live

Clear == /\ ~up
         /\ live' = {}
         /\ UNCHANGED <<adding, up>>

Restart == /\ ~up
           /\ live = {}
           /\ up' = TRUE
           /\ UNCHANGED <<live, adding>>

Next == \/ \E s \in Span : BeginAdd(s)
        \/ CompleteAdd
        \/ \E s \in live : Remove(s)
        \/ \E s \in live, t \in Time : SetEndTime(s, t)
        \/ \E s \in live, a \in Attributes : SetAttribute(s, a)
        \/ Crash
        \/ Clear
        \/ Restart

Spec == Init /\ [][Next]_vars
=============================================================================
