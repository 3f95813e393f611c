--------------------------- MODULE AttributeStore ---------------------------
(***************************************************************************)
(* The attributes of one span in its mapped slot: made by to_raw_span, set *)
(* by set_attribute_on_span, a part of a string per step, and read by the  *)
(* next process after a crash between any two.                             *)
(*                                                                         *)
(* Of a string only this matters here: whether it is empty, complete, or   *)
(* cut by a crash within its copy; CopyString has the bytes.  A key is     *)
(* stored truncated, and found again by what it is truncated to            *)
(* (KeyIsFound in CopyString).                                             *)
(***************************************************************************)
EXTENDS Integers, Sequences

CONSTANTS
  Key,              \* the keys the application uses
  Value,            \* the values, other than the empty one
  Truncated,        \* what a key is stored as, for each key
  max_attributes,   \* mmap_config<Size>.max_attributes
  Empty,            \* the empty string: an attribute set to it is removed
  Cut,              \* what a crash within a copy leaves of a string
  MaxInitial        \* bound: the attributes a span is made with

ASSUME AttributesAssumption ==
  /\ Truncated \in [Key -> Key]
  /\ \A k \in Key : Truncated[Truncated[k]] = Truncated[k]
  /\ max_attributes \in Nat \ {0}
  /\ MaxInitial \in Nat
  /\ Empty \notin Value /\ Cut \notin Value \cup {Empty}

VARIABLES
  (* in the file *)
  attr_count,   \* RawSpan::attr_count
  key, value,   \* RawSpan::attributes[i].key, .value
  (* in the process *)
  pc,           \* the next thing set_attribute_on_span does
  index,        \* the attribute it does it to
  call          \* its arguments

file == <<attr_count, key, value>>
vars == <<attr_count, key, value, pc, index, call>>

-----------------------------------------------------------------------------
Attr == 0 .. (max_attributes - 1)
Used == 0 .. (attr_count - 1)
Stored == {Truncated[k] : k \in Key}
AnyValue == Value \cup {Empty}
NoCall == <<Empty, Empty>>

\* Within a call of set_attribute_on_span.
Setting == {"zero_key", "zero_value", "copy_key", "copy_value", "count"}
PC == {"no_span", "idle", "crashed"} \cup Setting

TypeOK ==
  /\ attr_count \in 0 .. max_attributes
  /\ key \in [Attr -> Stored \cup {Empty}]
  /\ value \in [Attr -> AnyValue \cup {Cut}]
  /\ pc \in PC
  /\ index \in Attr
  /\ call \in (Key \X AnyValue) \cup {NoCall}

Blank == [i \in Attr |-> Empty]

Init == /\ attr_count = 0
        /\ key = Blank
        /\ value = Blank
        /\ pc = "no_span"
        /\ index = 0
        /\ call = NoCall

-----------------------------------------------------------------------------
\* The attributes a span is made with: no two of their keys are stored alike.
InitialList ==
  UNION {{list \in [1 .. n -> Key \X AnyValue] :
            \A i, j \in 1 .. n :
              Truncated[list[i][1]] = Truncated[list[j][1]] => i = j} :
           n \in 0 .. MaxInitial}

\* The span is built apart (to_raw_span) and its slot marked when it is
\* complete (add): here, in one step.  What finds no room is left out.
AddSpan(list) ==
  LET n == IF Len(list) <= max_attributes THEN Len(list) ELSE max_attributes
  IN  /\ pc = "no_span"
      /\ attr_count' = n
      /\ key' = [i \in Attr |-> IF i < n THEN Truncated[list[i + 1][1]] ELSE Empty]
      /\ value' = [i \in Attr |-> IF i < n THEN list[i + 1][2] ELSE Empty]
      /\ pc' = "idle"
      /\ UNCHANGED <<index, call>>

-----------------------------------------------------------------------------
(* set_attribute_on_span.  With no room for another key it does nothing.   *)

\* Mutant of key_equals_at: the key is compared untruncated.
key_equals_untruncated(k, i) == key[i] = k

\* key_equals on the key of attribute i.
key_equals_at(k, i) == key[i] = Truncated[k]
Finds(k, i) == key_equals_at(k, i) /\ \A j \in 0 .. (i - 1) : ~key_equals_at(k, j)

SetExisting(k, v, i) ==
  /\ pc = "idle"
  /\ i \in Used
  /\ Finds(k, i)
  /\ index' = i
  /\ call' = <<k, v>>
  /\ pc' = "zero_value"
  /\ UNCHANGED file

\* Mutant of SetNew: the attribute is counted before it is written.
SetNewCountedFirst(k, v) ==
  /\ pc = "idle"
  /\ \A i \in Used : ~key_equals_at(k, i)
  /\ attr_count < max_attributes
  /\ index' = attr_count
  /\ attr_count' = attr_count + 1
  /\ call' = <<k, v>>
  /\ pc' = "zero_key"
  /\ UNCHANGED <<key, value>>

SetNew(k, v) ==
  /\ pc = "idle"
  /\ \A i \in Used : ~key_equals_at(k, i)
  /\ attr_count < max_attributes
  /\ index' = attr_count
  /\ call' = <<k, v>>
  /\ pc' = "zero_key"
  /\ UNCHANGED file

(* copy_string of the value, or copy_string2: both strings are zeroed, then *)
(* both are copied.  The key is copied where no reader looks yet, so its   *)
(* parts are left out.                                                     *)
IsNew == index = attr_count

ZeroKey ==
  /\ pc = "zero_key"
  /\ key' = [key EXCEPT ![index] = Empty]
  /\ pc' = "zero_value"
  /\ UNCHANGED <<attr_count, value, index, call>>

ZeroValuePart ==
  /\ pc = "zero_value"
  /\ value[index] # Empty
  /\ value' = [value EXCEPT ![index] = Cut]
  /\ UNCHANGED <<attr_count, key, pc, index, call>>

ZeroValue ==
  /\ pc = "zero_value"
  /\ value' = [value EXCEPT ![index] = Empty]
  /\ pc' = IF IsNew THEN "copy_key" ELSE "copy_value"
  /\ UNCHANGED <<attr_count, key, index, call>>

CopyKey ==
  /\ pc = "copy_key"
  /\ key' = [key EXCEPT ![index] = Truncated[call[1]]]
  /\ pc' = "copy_value"
  /\ UNCHANGED <<attr_count, value, index, call>>

CopyValuePart ==
  /\ pc = "copy_value"
  /\ call[2] # Empty
  /\ value' = [value EXCEPT ![index] = Cut]
  /\ UNCHANGED <<attr_count, key, pc, index, call>>

Returns == index' = 0 /\ call' = NoCall

CopyValue ==
  /\ pc = "copy_value"
  /\ value' = [value EXCEPT ![index] = call[2]]
  /\ IF IsNew THEN pc' = "count" /\ UNCHANGED <<index, call>>
              ELSE pc' = "idle" /\ Returns
  /\ UNCHANGED <<attr_count, key>>

Count ==
  /\ pc = "count"
  /\ attr_count' = attr_count + 1
  /\ pc' = "idle"
  /\ Returns
  /\ UNCHANGED <<key, value>>

-----------------------------------------------------------------------------
Crash ==
  /\ pc \notin {"no_span", "crashed"}
  /\ pc' = "crashed"
  /\ Returns
  /\ UNCHANGED file

\* The next process has read the span and clears its slot.
RemoveAll ==
  /\ pc = "crashed"
  /\ attr_count' = 0
  /\ key' = Blank
  /\ value' = Blank
  /\ pc' = "no_span"
  /\ UNCHANGED <<index, call>>

Next ==
  \/ \E list \in InitialList : AddSpan(list)
  \/ \E k \in Key, v \in AnyValue, i \in Attr : SetExisting(k, v, i)
  \/ \E k \in Key, v \in AnyValue : SetNew(k, v)
  \/ ZeroKey
  \/ ZeroValuePart
  \/ ZeroValue
  \/ CopyKey
  \/ CopyValuePart
  \/ CopyValue
  \/ Count
  \/ Crash
  \/ RemoveAll

Spec == Init /\ [][Next]_vars

-----------------------------------------------------------------------------
(* Properties                                                              *)

\* At every point a crash can show, no two attributes of a span have the same
\* key, removed ones included, and each has one: setting a truncated, removed
\* or replaced key again never makes a second attribute of it
\* (raw_span_data.h:134, :145).
OneAttributePerKey ==
  \A i, j \in Used : key[i] \in Stored /\ (key[i] = key[j] => i = j)

\* What the slot shows of the span: a value for each of the keys it counts.
Shown == [k \in {key[i] : i \in Used} |-> value[CHOOSE i \in Used : key[i] = k]]

\* The attribute being set, under the key it is stored with.
BeingSet == IF pc \in Setting THEN {<<Truncated[call[1]], call[2]>>} ELSE {}

CanSet == pc \in Setting \cup {"idle"}

Map == INSTANCE SpanAttributes WITH
         attributes <- Shown,
         setting    <- BeingSet,
         up         <- CanSet,
         Capacity   <- max_attributes,
         None       <- Empty

\* The attributes are a bounded map from truncated keys to values: setting one
\* disturbs no other, a new one shows at once and complete, a full span still
\* replaces the values it has, and what a crash interrupts is the old value,
\* the new one, or less of either (set_attribute_on_span, to_raw_span).
ImplementsMap == Map!Spec
=============================================================================
