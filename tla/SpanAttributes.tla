--------------------------- MODULE SpanAttributes ---------------------------
(***************************************************************************)
(* What a span promises of its attributes: a map from keys to values with  *)
(* room for Capacity keys.  Setting a key the span has replaces its value, *)
(* setting another one adds it if there is room, and no other attribute is *)
(* touched.  While a value is replaced a crash may show less of it, but a  *)
(* new attribute shows when it is complete.  A removed attribute has the   *)
(* value None and keeps its place.                                         *)
(***************************************************************************)
EXTENDS Naturals, FiniteSets

CONSTANTS Key, Value, Capacity,
          None,     \* the value of a removed attribute
          Cut       \* a part of a value

VARIABLES attributes,   \* the map
          setting,      \* the attribute being set: {} or {<<key, value>>}
          up            \* a process can set attributes

vars == <<attributes, setting, up>>

Keys == DOMAIN attributes
NoAttributes == [k \in {} |-> None]
With(k, v) == [q \in Keys \cup {k} |-> IF q = k THEN v ELSE attributes[q]]

Init == /\ attributes = NoAttributes
        /\ setting = {}
        /\ up = FALSE

\* A span starts with the attributes it was made with, without those that
\* found no room.
AddSpan(held) == /\ ~up
                 /\ attributes = NoAttributes
                 /\ Cardinality(DOMAIN held) <= Capacity
                 /\ attributes' = held
                 /\ up' = TRUE
                 /\ UNCHANGED setting

BeginSet(k, v) == /\ up
                  /\ setting = {}
                  /\ k \in Keys \/ Cardinality(Keys) < Capacity
                  /\ setting' = {<<k, v>>}
                  /\ UNCHANGED <<attributes, up>>

\* Only a key the span already has can show that its value is being replaced.
Disturb(k, v) == /\ <<k, v>> \in setting
                 /\ k \in Keys
                 /\ \E part \in {None, Cut} : attributes' = [attributes EXCEPT ![k] = part]
                 /\ UNCHANGED <<setting, up>>

CompleteSet(k, v) == /\ <<k, v>> \in setting
                     /\ attributes' = With(k, v)
                     /\ setting' = {}
                     /\ UNCHANGED up

Crash == up /\ up' = FALSE /\ setting' = {} /\ UNCHANGED attributes
Clear == ~up /\ attributes' = NoAttributes /\ UNCHANGED <<setting, up>>

Next == \/ \E K \in SUBSET Key : \E held \in [K -> Value \cup {None}] : AddSpan(held)
        \/ \E k \in Key, v \in Value \cup {None} :
             BeginSet(k, v) \/ Disturb(k, v) \/ CompleteSet(k, v)
        \/ Crash
        \/ Clear

Spec == Init /\ [][Next]_vars
=============================================================================
