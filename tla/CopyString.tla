----------------------------- MODULE CopyString -----------------------------
(***************************************************************************)
(* copy_string.h: an UTF-8 string copied into a mapped array of N bytes,   *)
(* one byte per step, and keys looked up in such arrays.  A crash may come *)
(* after any byte; what the next process reads is `held', the bytes up to  *)
(* the first NUL.  memset and memcpy store in an order the code does not   *)
(* choose.                                                                 *)
(*                                                                         *)
(* On Android a string comes through jstring_to_string, which cuts it at a *)
(* byte before copy_string cuts it at a character.                         *)
(*                                                                         *)
(* copy_string2 runs the two halves of this on two arrays, both cleared    *)
(* before either is filled: on each of them it is a copy_string.           *)
(***************************************************************************)
EXTENDS Integers, Sequences

CONSTANTS
  N,          \* the bytes of the array
  Character,  \* the characters strings are made of: UTF-8 byte sequences
  Strings     \* the strings copied, as sequences of characters

\* The top two bits are 10.
is_utf8_continuation_byte(c) == c \div 64 = 2

ASSUME ArrayAssumption == N \in Nat \ {0}

\* UTF-8: all bytes of a character but the first are continuation bytes.  None
\* is NUL, where a string is over for whoever reads the array.
ASSUME CharacterAssumption ==
  \A c \in Character :
    /\ c \in Seq(1 .. 255) /\ c # << >>
    /\ \A i \in 1 .. Len(c) : is_utf8_continuation_byte(c[i]) <=> i # 1

ASSUME StringsAssumption == Strings \subseteq Seq(Character)

VARIABLES
  dest,       \* the array
  src,        \* the string the application gave, in characters
  given,      \* the bytes of it that reached copy_string
  before,     \* what the array held when that call began
  phase,      \* what the call is doing
  left        \* the bytes of dest the memset or memcpy has yet to store

copyVars == <<dest, src, given, before, phase, left>>

-----------------------------------------------------------------------------
(* Byte strings                                                            *)

Byte == 0 .. 255
Offset == 0 .. (N - 1)

\* The bytes of the first k characters of s, for each k.
Encoded(s) ==
  LET bytes[k \in 0 .. Len(s)] == IF k = 0 THEN << >> ELSE bytes[k - 1] \o s[k]
  IN  bytes
Bytes(s) == Encoded(s)[Len(s)]

\* The bytes before the first NUL.
CString(buffer) ==
  LET length == CHOOSE n \in 0 .. N : /\ n < N => buffer[n] = 0
                                      /\ \A i \in 0 .. (n - 1) : buffer[i] # 0
  IN  [i \in 1 .. length |-> buffer[i - 1]]
held == CString(dest)

IsPrefixOf(s, t) == Len(s) <= Len(t) /\ s = SubSeq(t, 1, Len(s))

-----------------------------------------------------------------------------
(* copy_string.h                                                           *)

\* Mutant of get_utf8_length: the last byte is not kept for the NUL.
LengthWithoutNul(s) ==
  IF Len(s) <= N
  THEN Len(s)
  ELSE CHOOSE n \in 0 .. N :
         /\ n = 0 \/ ~is_utf8_continuation_byte(s[n + 1])
         /\ \A m \in (n + 1) .. N : is_utf8_continuation_byte(s[m + 1])

\* Mutant of get_utf8_length: a character may be cut.
LengthInBytes(s) == IF Len(s) <= N - 1 THEN Len(s) ELSE N - 1

\* All of it, or the most bytes that leave room for the NUL and are followed
\* by the first byte of a character.
get_utf8_length(s) ==
  IF Len(s) <= N - 1
  THEN Len(s)
  ELSE CHOOSE n \in 0 .. (N - 1) :
         /\ n = 0 \/ ~is_utf8_continuation_byte(s[n + 1])
         /\ \A m \in (n + 1) .. (N - 1) : is_utf8_continuation_byte(s[m + 1])

\* Mutant of key_equals: a key the array's string merely begins with will do.
KeyBegins(untruncated, buffer) ==
  \A i \in 1 .. get_utf8_length(untruncated) : buffer[i - 1] = untruncated[i]

key_equals(untruncated, buffer) ==
  LET length == get_utf8_length(untruncated)
  IN  /\ \A i \in 1 .. length : buffer[i - 1] = untruncated[i]
      /\ buffer[length] = 0

(* managed_jstring.h: max_len is N, see android_span_data.cpp:71.          *)

\* Mutant of jstring_to_string: room is left for a NUL here already.
JStringWithNul(s) == IF Len(s) <= N - 1 THEN s ELSE SubSeq(s, 1, N - 1)

jstring_to_string(s) == IF Len(s) <= N THEN s ELSE SubSeq(s, 1, N)

\* What copy_string or key_equals may be called with for the string s.
Given(s) == {Bytes(s), jstring_to_string(Bytes(s))}

-----------------------------------------------------------------------------
CopyTypeOK ==
  /\ dest \in [Offset -> Byte]
  /\ src \in Seq(Character)
  /\ given \in Given(src)
  /\ phase \in {"done", "memset", "memcpy"}
  /\ left \subseteq Offset

CopyInit ==
  /\ dest = [i \in Offset |-> 0]
  /\ src = << >>
  /\ given = << >>
  /\ before = << >>
  /\ phase = "done"
  /\ left = {}

\* Mutant of copy_string: the old bytes are not zeroed.
CopyOver(s) ==
  /\ phase = "done"
  /\ src' = s
  /\ given' \in Given(s)
  /\ before' = held
  /\ phase' = "memcpy"
  /\ left' = 0 .. (get_utf8_length(given') - 1)
  /\ UNCHANGED dest

\* Mutant of copy_string: only the first byte is zeroed.
CopyTerminating(s) ==
  /\ phase = "done"
  /\ src' = s
  /\ given' \in Given(s)
  /\ before' = held
  /\ phase' = "memset"
  /\ left' = {0}
  /\ UNCHANGED dest

copy_string(s) ==
  /\ phase = "done"
  /\ src' = s
  /\ given' \in Given(s)
  /\ before' = held
  /\ phase' = "memset"
  /\ left' = Offset
  /\ UNCHANGED dest

ZeroByte(i) ==
  /\ phase = "memset"
  /\ i \in left
  /\ dest' = [dest EXCEPT ![i] = 0]
  /\ left' = left \ {i}
  /\ UNCHANGED <<src, given, before, phase>>

ZeroDone ==
  /\ phase = "memset"
  /\ left = {}
  /\ phase' = "memcpy"
  /\ left' = 0 .. (get_utf8_length(given) - 1)
  /\ UNCHANGED <<dest, src, given, before>>

CopyByte(i) ==
  /\ phase = "memcpy"
  /\ i \in left
  /\ dest' = [dest EXCEPT ![i] = given[i + 1]]
  /\ left' = left \ {i}
  /\ UNCHANGED <<src, given, before, phase>>

CopyDone ==
  /\ phase = "memcpy"
  /\ left = {}
  /\ phase' = "done"
  /\ UNCHANGED <<dest, src, given, before, left>>

CopyNext ==
  \/ \E s \in Strings : copy_string(s)
  \/ \E i \in Offset : ZeroByte(i)
  \/ ZeroDone
  \/ \E i \in Offset : CopyByte(i)
  \/ CopyDone

CopySpec == CopyInit /\ [][CopyNext]_copyVars

-----------------------------------------------------------------------------
(* Properties                                                              *)

\* The array is terminated after every single byte, whatever it held before
\* (copy_string.h:54): the reader of the next process stops inside it.
AlwaysTerminated == \E i \in Offset : dest[i] = 0

\* What can be read never mixes the old string with the new one: it is a
\* beginning of the one or of the other (raw_span_data.h:132: the string is
\* zeroed before copying).
NeverMixed ==
  \/ phase = "memset" /\ IsPrefixOf(held, before)
  \/ phase # "memset" /\ IsPrefixOf(held, given)

\* As many characters as fit: what the loop over bytes in get_utf8_length is
\* to compute (copy_string.h:35).
Fitting(s) == {k \in 0 .. Len(s) : Len(Encoded(s)[k]) <= N - 1}
Most(s) == CHOOSE k \in Fitting(s) : \A j \in Fitting(s) : j <= k
Kept(s) == Encoded(s)[Most(s)]

\* A finished copy holds the whole characters that fit, no more and no less,
\* even of a string jstring_to_string cut in the middle of a character.
KeepsWholeCharacters == phase = "done" => held = Kept(src)

\* A key is found again in the array it was copied to, however long it is, and
\* of the other keys only those that are the same once truncated are: neither
\* a longer nor a shorter one is taken for it (raw_span_data.h:135).
KeyIsFound ==
  phase = "done" =>
    \A k \in Strings : \A b \in Given(k) :
      key_equals(b, dest) <=> Kept(k) = Kept(src)

\* A crash while the new value is copied loses it in the worst case
\* (raw_span_data.h:131): nothing or all of it is read, not a part.
LostInTheWorstCase == phase = "memcpy" => held \in {<< >>, Kept(src)}
-----------------------------------------------------------------------------
(* A copy_string is the setting of an attribute in AttributeStore: dest is *)
(* the value of the one attribute of a span.                               *)

KeptValues == {Kept(s) : s \in Strings} \ {<< >>}

\* Two that no string is: the key, and what AttributeStore calls Cut.
TheKey == <<0>>
Part == <<256>>

\* The last byte is stored, or there is none to store.
IsSet == phase = "done" \/ (phase = "memcpy" /\ left = {})

\* A string is read: the old one, the new one, or a part of either.
Reads ==
  IF IsSet \/ held = << >> \/ (phase = "memset" /\ held = before) THEN held ELSE Part

\* The old value is gone as soon as its first byte is.
AttributePc ==
  IF IsSet THEN "idle"
  ELSE IF phase = "memset" /\ 0 \in left THEN "zero_value" ELSE "copy_value"
AttributeCall == IF IsSet THEN << << >>, << >> >> ELSE <<TheKey, Kept(src)>>

Attribute == INSTANCE AttributeStore WITH
  Key            <- {TheKey},
  Value          <- KeptValues,
  Truncated      <- [k \in {TheKey} |-> k],
  max_attributes <- 1,
  Empty          <- << >>,
  Cut            <- Part,
  MaxInitial     <- 1,
  attr_count     <- 1,
  key            <- [i \in 0 .. 0 |-> TheKey],
  value          <- [i \in 0 .. 0 |-> Reads],
  pc             <- AttributePc,
  index          <- 0,
  call           <- AttributeCall

\* Whichever bytes memset and memcpy have stored, what a crash leaves is what
\* AttributeStore has after a step of it: the old value, a part of it, nothing,
\* a part of the new value, the new value, in this order (copy_string.h:47,
\* raw_span_data.h:130).
SetsAnAttribute == [][Attribute!Next]_(Attribute!vars)
=============================================================================
