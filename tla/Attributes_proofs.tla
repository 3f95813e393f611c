------------------------- MODULE Attributes_proofs -------------------------
(***************************************************************************)
(* The attributes of a span, first their strings and then their slots.     *)
(*                                                                         *)
(* For any array and any strings of any characters: the bytes get_utf8_-   *)
(* length keeps are the characters that fit, and the array at any byte of  *)
(* a copy is a beginning of one string and zeros.                          *)
(*                                                                         *)
(* For any keys, values and numbers of attributes, and any truncation of   *)
(* keys: the invariant says which attribute a call has chosen and how far  *)
(* it has got with it; the refinement maps the steps that a reader of the  *)
(* slot can see to those of SpanAttributes, and the others to a stutter.   *)
(*                                                                         *)
(* Between the two: copying a string byte by byte is setting an attribute  *)
(* in AttributeStore, and bytes meet what it assumes of keys.              *)
(***************************************************************************)
EXTENDS AttributeStore, CopyString, FiniteSetTheorems, WellFoundedInduction, TLAPS

USE ArrayAssumption

-----------------------------------------------------------------------------
(* Numbers, and the characters of a string                                 *)

LEMMA LeastElement ==
  ASSUME NEW S \in SUBSET Nat, S # {}
  PROVE  \E x \in S : \A y \in S : x <= y
<1> DEFINE Less == OpToRel(<, Nat)
<1>1. IsWellFoundedOn(Less, Nat)
  BY NatLessThanWellFounded
<1>2. PICK x \in S : \A y \in S : <<y, x>> \notin Less
  <2> HIDE DEF Less
  <2> QED
    BY <1>1, WFMin
<1>3. \A y \in S : y < x => <<y, x>> \in Less
  BY DEF OpToRel
<1> HIDE DEF Less
<1>4. \A y \in S : ~(y < x)
  BY <1>2, <1>3
<1> QED
  BY <1>4

LEMMA UpTo ==
  ASSUME NEW n \in Nat, NEW S, 0 \in S, \A k \in 0 .. (n - 1) : k \in S => k + 1 \in S
  PROVE  \A k \in 0 .. n : k \in S
<1> SUFFICES ASSUME NEW m \in 0 .. n, m \notin S PROVE FALSE
  OBVIOUS
<1> DEFINE Missing == {k \in 0 .. n : k \notin S}
<1>1. PICK x \in Missing : \A y \in Missing : x <= y
  <2>1. Missing \in SUBSET Nat /\ Missing # {}
    OBVIOUS
  <2> HIDE DEF Missing
  <2>2. QED BY <2>1, LeastElement
<1>2. x # 0 /\ x - 1 \in 0 .. (n - 1)
  OBVIOUS
<1>3. x - 1 \in S
  BY <1>1, <1>2
<1>4. x - 1 + 1 = x
  OBVIOUS
<1>5. QED BY <1>2, <1>3, <1>4

LEMMA EncodedIs ==
  ASSUME NEW s, Len(s) \in Nat
  PROVE  Encoded(s) = [k \in 0 .. Len(s) |-> IF k = 0 THEN << >> ELSE Encoded(s)[k - 1] \o s[k]]
<1> DEFINE Rec(f, n) == f = [k \in 0 .. n |-> IF k = 0 THEN << >> ELSE f[k - 1] \o s[k]]
           Has == {n \in 0 .. Len(s) : \E f : Rec(f, n)}
<1>1. 0 \in Has
  <2>1. Rec([k \in 0 .. 0 |-> << >>], 0)
    OBVIOUS
  <2> HIDE DEF Rec
  <2>2. \E f : Rec(f, 0)
    BY <2>1
  <2>3. QED BY <2>2
<1>2. ASSUME NEW n \in 0 .. (Len(s) - 1), n \in Has PROVE n + 1 \in Has
  <2>1. PICK f : Rec(f, n)
    BY <1>2
  <2> DEFINE g == [k \in 0 .. (n + 1) |-> IF k = 0 THEN << >> ELSE f[k - 1] \o s[k]]
  <2>2. \A k \in 0 .. n : g[k] = f[k]
    BY <2>1
  <2>3. \A k \in 0 .. (n + 1) : k # 0 => k - 1 \in 0 .. n
    OBVIOUS
  <2>4. Rec(g, n + 1)
    BY <2>2, <2>3
  <2> HIDE DEF Rec, g
  <2>5. \E h : Rec(h, n + 1)
    BY <2>4
  <2>6. n + 1 \in 0 .. Len(s)
    OBVIOUS
  <2>7. QED BY <2>5, <2>6
<1>3. Len(s) \in Has
  <2> HIDE DEF Has
  <2>1. \A k \in 0 .. Len(s) : k \in Has
    BY <1>1, <1>2, UpTo
  <2>2. QED BY <2>1
<1>4. PICK f : Rec(f, Len(s))
  BY <1>3
<1>5. Encoded(s) = CHOOSE f_ : Rec(f_, Len(s))
  BY DEF Encoded
<1>6. Rec(Encoded(s), Len(s))
  <2> HIDE DEF Rec
  <2>1. QED BY <1>4, <1>5
<1>7. QED BY <1>6

LEMMA GreatestElement ==
  ASSUME NEW n \in Nat, NEW S \in SUBSET (0 .. n), S # {}
  PROVE  \E x \in S : \A y \in S : y <= x
<1> DEFINE R == {m \in 0 .. n : n - m \in S}
<1>1. R \in SUBSET Nat /\ R # {}
  <2>1. PICK y \in S : TRUE
    OBVIOUS
  <2>2. y \in Int /\ n - y \in 0 .. n /\ n - (n - y) = y
    OBVIOUS
  <2>3. n - y \in R
    BY <2>2
  <2>4. QED BY <2>3
<1>2. PICK m \in R : \A k \in R : m <= k
  <2> HIDE DEF R
  <2>1. QED BY <1>1, LeastElement
<1>3. ASSUME NEW y \in S PROVE y <= n - m
  <2>1. y \in Int /\ n - y \in 0 .. n /\ n - (n - y) = y
    OBVIOUS
  <2>2. n - y \in R
    BY <2>1
  <2>3. m <= n - y /\ m \in Int
    BY <1>2, <2>2
  <2>4. QED BY <2>1, <2>3
<1>4. QED BY <1>2, <1>3

LEMMA EncodedSteps ==
  ASSUME NEW s \in Seq(Character)
  PROVE  /\ Len(s) \in Nat /\ Encoded(s)[0] = << >>
         /\ \A k \in 1 .. Len(s) : Encoded(s)[k] = Encoded(s)[k - 1] \o s[k]
<1>1. Len(s) \in Nat
  OBVIOUS
<1>2. Encoded(s) = [k \in 0 .. Len(s) |-> IF k = 0 THEN << >> ELSE Encoded(s)[k - 1] \o s[k]]
  BY <1>1, EncodedIs
<1>3. 0 \in 0 .. Len(s) /\ \A k \in 1 .. Len(s) : k \in 0 .. Len(s) /\ k # 0
  BY <1>1
<1>4. Encoded(s)[0] = << >>
  BY <1>2, <1>3
<1>5. ASSUME NEW k \in 1 .. Len(s) PROVE Encoded(s)[k] = Encoded(s)[k - 1] \o s[k]
  BY <1>2, <1>3
<1>6. QED BY <1>1, <1>4, <1>5

LEMMA EncodedType ==
  ASSUME NEW s \in Seq(Character)
  PROVE  \A k \in 0 .. Len(s) : Encoded(s)[k] \in Seq(1 .. 255)
<1> DEFINE S == {k \in 0 .. Len(s) : Encoded(s)[k] \in Seq(1 .. 255)}
<1>1. 0 \in S
  <2>1. << >> \in Seq(1 .. 255) /\ 0 \in 0 .. Len(s)
    OBVIOUS
  <2>2. QED BY <2>1, EncodedSteps
<1>2. ASSUME NEW k \in 0 .. (Len(s) - 1), k \in S PROVE k + 1 \in S
  <2>1. k + 1 \in 1 .. Len(s) /\ (k + 1) - 1 = k
    OBVIOUS
  <2>2. Encoded(s)[k + 1] = Encoded(s)[k] \o s[k + 1]
    BY <2>1, EncodedSteps
  <2>3. s[k + 1] \in Seq(1 .. 255)
    BY <2>1, CharacterAssumption
  <2>4. \A old, c \in Seq(1 .. 255) : old \o c \in Seq(1 .. 255)
    OBVIOUS
  <2>5. Encoded(s)[k + 1] \in Seq(1 .. 255)
    BY <1>2, <2>2, <2>3, <2>4
  <2>6. QED BY <2>1, <2>5
<1>3. \A k \in 0 .. Len(s) : k \in S
  <2> HIDE DEF S
  <2>1. QED BY <1>1, <1>2, UpTo, EncodedSteps
<1>4. QED BY <1>3

\* One more character: it is put behind the others, and only its first byte is
\* not a continuation byte.
LEMMA OneMore ==
  ASSUME NEW s \in Seq(Character), NEW k \in 0 .. (Len(s) - 1)
  PROVE  LET old == Encoded(s)[k]
             new == Encoded(s)[k + 1]
         IN  /\ Len(old) \in Nat /\ Len(new) \in Nat /\ Len(old) < Len(new)
             /\ \A p \in 1 .. Len(old) : new[p] = old[p]
             /\ \A p \in (Len(old) + 1) .. Len(new) :
                  is_utf8_continuation_byte(new[p]) <=> p # Len(old) + 1
<1>1. k + 1 \in 1 .. Len(s) /\ (k + 1) - 1 = k /\ k \in 0 .. Len(s)
  OBVIOUS
<1>2. PICK old \in Seq(1 .. 255) : old = Encoded(s)[k]
  BY <1>1, EncodedType
<1>3. PICK c \in Character : c = s[k + 1]
  BY <1>1
<1>4. c \in Seq(1 .. 255) /\ c # << >>
      /\ \A i \in 1 .. Len(c) : is_utf8_continuation_byte(c[i]) <=> i # 1
  BY CharacterAssumption
<1>5. Encoded(s)[k + 1] = old \o c
  BY <1>1, <1>2, <1>3, EncodedSteps
<1>6. Len(c) \in Nat /\ Len(c) # 0 /\ Len(old) \in Nat
  BY <1>4
<1>7. Len(old \o c) = Len(old) + Len(c)
      /\ \A p \in 1 .. (Len(old) + Len(c)) :
           (old \o c)[p] = IF p <= Len(old) THEN old[p] ELSE c[p - Len(old)]
  BY <1>4
<1>8. ASSUME NEW p \in (Len(old) + 1) .. (Len(old) + Len(c))
      PROVE  is_utf8_continuation_byte((old \o c)[p]) <=> p # Len(old) + 1
  <2>1. p - Len(old) \in 1 .. Len(c) /\ p \in 1 .. (Len(old) + Len(c)) /\ ~(p <= Len(old))
    BY <1>6
  <2>2. (old \o c)[p] = c[p - Len(old)]
    BY <1>7, <2>1
  <2>3. is_utf8_continuation_byte(c[p - Len(old)]) <=> p - Len(old) # 1
    BY <1>4, <2>1
  <2>4. p - Len(old) # 1 <=> p # Len(old) + 1
    BY <1>6
  <2>5. QED BY <2>2, <2>3, <2>4
<1>9. \A p \in 1 .. Len(old) : (old \o c)[p] = old[p]
  BY <1>6, <1>7
<1>10. QED BY <1>2, <1>5, <1>6, <1>7, <1>8, <1>9

\* Fewer characters are a beginning of more.
LEMMA Beginning ==
  ASSUME NEW s \in Seq(Character)
  PROVE  \A k \in 0 .. Len(s) : \A j \in 0 .. k :
           /\ Len(Encoded(s)[j]) \in Nat /\ Len(Encoded(s)[j]) <= Len(Encoded(s)[k])
           /\ j < k => Len(Encoded(s)[j]) < Len(Encoded(s)[k])
           /\ \A p \in 1 .. Len(Encoded(s)[j]) : Encoded(s)[k][p] = Encoded(s)[j][p]
<1> DEFINE B(k, j) ==
             /\ Len(Encoded(s)[j]) \in Nat /\ Len(Encoded(s)[j]) <= Len(Encoded(s)[k])
             /\ j < k => Len(Encoded(s)[j]) < Len(Encoded(s)[k])
             /\ \A p \in 1 .. Len(Encoded(s)[j]) : Encoded(s)[k][p] = Encoded(s)[j][p]
           S == {k \in 0 .. Len(s) : \A j \in 0 .. k : B(k, j)}
<1>0. \A k \in 0 .. Len(s) : Len(Encoded(s)[k]) \in Nat
  BY EncodedType
<1>1. ASSUME NEW k \in 0 .. Len(s) PROVE B(k, k)
  BY <1>0
<1>2. 0 \in S
  BY <1>1, EncodedSteps
<1>3. ASSUME NEW k \in 0 .. (Len(s) - 1), k \in S PROVE k + 1 \in S
  <2>1. k + 1 \in 0 .. Len(s) /\ k \in 0 .. Len(s)
    OBVIOUS
  <2>2. ASSUME NEW j \in 0 .. k PROVE B(k + 1, j)
    <3>1. B(k, j)
      BY <1>3
    <3>2. Len(Encoded(s)[k]) < Len(Encoded(s)[k + 1])
          /\ \A p \in 1 .. Len(Encoded(s)[k]) : Encoded(s)[k + 1][p] = Encoded(s)[k][p]
      BY OneMore
    <3>3. \A p \in 1 .. Len(Encoded(s)[j]) : p \in 1 .. Len(Encoded(s)[k])
      BY <1>0, <2>1, <3>1
    <3>4. QED BY <1>0, <2>1, <3>1, <3>2, <3>3
  <2>3. \A j \in 0 .. (k + 1) : j \in 0 .. k \/ j = k + 1
    OBVIOUS
  <2> HIDE DEF B
  <2>4. QED BY <1>1, <2>1, <2>2, <2>3
<1>4. \A k \in 0 .. Len(s) : k \in S
  <2> HIDE DEF S
  <2>1. QED BY <1>2, <1>3, UpTo, EncodedSteps
<1>5. QED BY <1>4

\* The bytes that do not continue a character are the first ones after the
\* characters before.
LEMMA Starts ==
  ASSUME NEW s \in Seq(Character)
  PROVE  \A k \in 0 .. Len(s) : \A p \in 0 .. (Len(Encoded(s)[k]) - 1) :
           is_utf8_continuation_byte(Encoded(s)[k][p + 1])
             <=> \A j \in 0 .. (k - 1) : p # Len(Encoded(s)[j])
<1> DEFINE P(k, p) == is_utf8_continuation_byte(Encoded(s)[k][p + 1])
                        <=> \A j \in 0 .. (k - 1) : p # Len(Encoded(s)[j])
           S == {k \in 0 .. Len(s) : \A p \in 0 .. (Len(Encoded(s)[k]) - 1) : P(k, p)}
<1>0. \A k \in 0 .. Len(s) : Len(Encoded(s)[k]) \in Nat
  BY EncodedType
<1>1. 0 \in S
  <2>1. Len(Encoded(s)[0]) = 0 /\ 0 \in 0 .. Len(s)
    <3>1. Encoded(s)[0] = << >> /\ Len(s) \in Nat
      BY EncodedSteps
    <3>2. Len(<< >>) = 0
      OBVIOUS
    <3>3. QED BY <3>1, <3>2
  <2>2. \A p \in 0 .. (Len(Encoded(s)[0]) - 1) : FALSE
    BY <2>1
  <2> HIDE DEF P
  <2>3. QED BY <2>1, <2>2
<1>2. ASSUME NEW k \in 0 .. (Len(s) - 1), k \in S PROVE k + 1 \in S
  <2>1. k + 1 \in 0 .. Len(s) /\ k \in 0 .. Len(s)
    OBVIOUS
  <2>2. PICK l \in Nat : l = Len(Encoded(s)[k])
    BY <1>0, <2>1
  <2>3. PICK m \in Nat : m = Len(Encoded(s)[k + 1])
    BY <1>0, <2>1
  <2>4. /\ \A p \in 1 .. l : Encoded(s)[k + 1][p] = Encoded(s)[k][p]
        /\ \A p \in (l + 1) .. m :
             is_utf8_continuation_byte(Encoded(s)[k + 1][p]) <=> p # l + 1
    <3> DEFINE old == Encoded(s)[k]
               new == Encoded(s)[k + 1]
    <3>1. /\ \A p \in 1 .. Len(old) : new[p] = old[p]
          /\ \A p \in (Len(old) + 1) .. Len(new) :
               is_utf8_continuation_byte(new[p]) <=> p # Len(old) + 1
      BY OneMore
    <3> HIDE DEF old, new
    <3>2. Len(old) = l /\ Len(new) = m
      BY <2>2, <2>3 DEF old, new
    <3>3. /\ \A p \in 1 .. l : new[p] = old[p]
          /\ \A p \in (l + 1) .. m : is_utf8_continuation_byte(new[p]) <=> p # l + 1
      BY <3>1, <3>2
    <3>4. QED BY <3>3 DEF old, new
  <2>5. \A j \in 0 .. k : Len(Encoded(s)[j]) \in Nat /\ Len(Encoded(s)[j]) <= l
    BY <2>1, <2>2, Beginning
  <2>6. \A j \in 0 .. ((k + 1) - 1) : j \in 0 .. (k - 1) \/ j = k
    OBVIOUS
  <2>7. \A j \in 0 .. (k - 1) : j \in 0 .. ((k + 1) - 1)
    OBVIOUS
  <2>8. k \in 0 .. ((k + 1) - 1)
    OBVIOUS
  <2>9. ASSUME NEW p \in 0 .. (m - 1) PROVE P(k + 1, p)
    <3>1. CASE p < l
      <4>1. p + 1 \in 1 .. l /\ p \in 0 .. (l - 1) /\ p # l
        BY <3>1
      <4>2. P(k, p)
        BY <1>2, <2>2, <4>1
      <4>3. Encoded(s)[k + 1][p + 1] = Encoded(s)[k][p + 1]
        BY <2>4, <4>1
      <4>4. QED BY <2>2, <2>6, <2>7, <4>1, <4>2, <4>3
    <3>2. CASE p = l
      <4>1. p + 1 \in (l + 1) .. m
        BY <3>2
      <4>2. ~is_utf8_continuation_byte(Encoded(s)[k + 1][p + 1])
        BY <2>4, <3>2, <4>1
      <4>3. QED BY <2>2, <2>8, <3>2, <4>2
    <3>3. CASE p > l
      <4>1. p + 1 \in (l + 1) .. m /\ p + 1 # l + 1
        BY <3>3
      <4>2. is_utf8_continuation_byte(Encoded(s)[k + 1][p + 1])
        BY <2>4, <4>1
      <4>3. \A j \in 0 .. k : p # Len(Encoded(s)[j])
        BY <2>5, <3>3
      <4>4. (k + 1) - 1 = k
        OBVIOUS
      <4>5. QED BY <4>2, <4>3, <4>4
    <3>4. QED BY <3>1, <3>2, <3>3
  <2> HIDE DEF P
  <2>10. QED BY <2>1, <2>3, <2>9
<1>3. \A k \in 0 .. Len(s) : k \in S
  <2> HIDE DEF S
  <2>1. QED BY <1>1, <1>2, UpTo, EncodedSteps
<1>4. QED BY <1>3

-----------------------------------------------------------------------------
(* What get_utf8_length keeps                                              *)

LEMMA MostIs ==
  ASSUME NEW s \in Seq(Character)
  PROVE  /\ Most(s) \in 0 .. Len(s) /\ Len(Encoded(s)[Most(s)]) <= N - 1
         /\ \A j \in 0 .. Len(s) : Len(Encoded(s)[j]) <= N - 1 => j <= Most(s)
<1>1. 0 \in Fitting(s)
  <2>1. Encoded(s)[0] = << >> /\ Len(s) \in Nat
    BY EncodedSteps
  <2>2. Len(<< >>) = 0
    OBVIOUS
  <2>3. QED BY <2>1, <2>2 DEF Fitting
<1>2. Fitting(s) \in SUBSET (0 .. Len(s)) /\ Len(s) \in Nat
  BY DEF Fitting
<1>3. \E k \in Fitting(s) : \A j \in Fitting(s) : j <= k
  BY <1>1, <1>2, GreatestElement
<1>4. Most(s) \in Fitting(s) /\ \A j \in Fitting(s) : j <= Most(s)
  BY <1>3 DEF Most
<1>5. QED BY <1>4 DEF Fitting

LEMMA KeptIs ==
  ASSUME NEW s \in Seq(Character)
  PROVE  Kept(s) \in Seq(1 .. 255) /\ Len(Kept(s)) \in 0 .. (N - 1)
<1>1. Kept(s) \in Seq(1 .. 255) /\ Len(Kept(s)) <= N - 1
  BY MostIs, EncodedType DEF Kept
<1>2. Len(Kept(s)) \in Nat
  BY <1>1
<1>3. QED BY <1>1, <1>2

LEMMA CutIs ==
  ASSUME NEW S, NEW b \in Seq(S), NEW n \in Nat, n <= Len(b)
  PROVE  /\ SubSeq(b, 1, n) \in Seq(S) /\ Len(SubSeq(b, 1, n)) = n
         /\ \A p \in 1 .. n : SubSeq(b, 1, n)[p] = b[p]
<1>1. SubSeq(b, 1, n) = [p \in 1 .. n |-> b[p]]
  OBVIOUS
<1>2. \A p \in 1 .. n : p \in 1 .. Len(b)
  OBVIOUS
<1>3. \A p \in 1 .. n : b[p] \in S
  BY <1>2
<1>4. [p \in 1 .. n |-> b[p]] \in Seq(S) /\ Len([p \in 1 .. n |-> b[p]]) = n
  BY <1>3
<1>5. QED BY <1>1, <1>4

\* Whether or not jstring_to_string has cut the string before, what is kept of
\* it are the whole characters that fit.
LEMMA Truncates ==
  ASSUME NEW s \in Seq(Character), NEW g \in Given(s)
  PROVE  /\ g \in Seq(1 .. 255)
         /\ get_utf8_length(g) = Len(Kept(s)) /\ Len(Kept(s)) <= Len(g)
         /\ \A p \in 1 .. Len(Kept(s)) : g[p] = Kept(s)[p]
<1>1. PICK n \in Nat : n = Len(s)
  BY EncodedSteps
<1>2. PICK b \in Seq(1 .. 255) : b = Bytes(s) /\ b = Encoded(s)[n]
  BY <1>1, EncodedType DEF Bytes
<1>3. PICK l \in 0 .. (N - 1) : l = Len(Kept(s))
  BY KeptIs
<1>4. PICK k \in 0 .. n : k = Most(s)
  BY <1>1, MostIs
<1>5. l = Len(Encoded(s)[k]) /\ Kept(s) = Encoded(s)[k]
  BY <1>3, <1>4 DEF Kept
<1>6. Len(b) \in Nat
  BY <1>2
<1>7. CASE Len(b) <= N - 1
  <2>1. n <= k
    <3>1. n \in 0 .. Len(s) /\ Len(Encoded(s)[n]) <= N - 1
      BY <1>1, <1>2, <1>7
    <3>2. QED BY <1>4, <3>1, MostIs
  <2>2. k = n
    BY <2>1
  <2>3. Kept(s) = b
    BY <1>2, <1>5, <2>2
  <2>4. g = b
    BY <1>2, <1>6, <1>7 DEF Given, jstring_to_string
  <2>5. get_utf8_length(g) = Len(b)
    BY <1>7, <2>4 DEF get_utf8_length
  <2>6. QED BY <1>6, <2>3, <2>4, <2>5
<1>8. CASE Len(b) > N - 1
  <2>1. /\ g \in Seq(1 .. 255) /\ Len(g) \in Nat /\ Len(g) > N - 1
        /\ \A p \in 1 .. N : g[p] = b[p]
    <3>1. CASE g = b
      BY <1>6, <1>8, <3>1
    <3>2. CASE g # b
      <4>1. g = SubSeq(b, 1, N) /\ N <= Len(b)
        BY <1>2, <1>6, <1>8, <3>2 DEF Given, jstring_to_string
      <4>2. QED BY <1>6, <4>1, CutIs
    <3>3. QED BY <3>1, <3>2
  <2>2. k # n
    BY <1>2, <1>3, <1>5, <1>8
  <2>3. \A p \in 0 .. (N - 1) :
          is_utf8_continuation_byte(g[p + 1]) <=> \A j \in 0 .. (n - 1) : p # Len(Encoded(s)[j])
    <3> SUFFICES ASSUME NEW p \in 0 .. (N - 1)
                 PROVE  is_utf8_continuation_byte(g[p + 1])
                          <=> \A j \in 0 .. (n - 1) : p # Len(Encoded(s)[j])
      OBVIOUS
    <3>1. p + 1 \in 1 .. N /\ p \in 0 .. (Len(b) - 1)
      BY <1>6, <1>8
    <3>2. g[p + 1] = b[p + 1]
      BY <2>1, <3>1
    <3>3. n \in 0 .. Len(s)
      BY <1>1
    <3>4. QED BY <1>2, <3>1, <3>2, <3>3, Starts
  <2> DEFINE Ends(m) == /\ m = 0 \/ ~is_utf8_continuation_byte(g[m + 1])
                        /\ \A o \in (m + 1) .. (N - 1) : is_utf8_continuation_byte(g[o + 1])
  <2>4. ~is_utf8_continuation_byte(g[l + 1])
    BY <1>5, <2>2, <2>3
  <2>5. ASSUME NEW o \in (l + 1) .. (N - 1) PROVE is_utf8_continuation_byte(g[o + 1])
    <3> SUFFICES ASSUME NEW j \in 0 .. (n - 1), o = Len(Encoded(s)[j]) PROVE FALSE
      <4>1. o \in 0 .. (N - 1)
        OBVIOUS
      <4>2. QED BY <2>3, <4>1
    <3>1. j \in 0 .. Len(s) /\ Len(Encoded(s)[j]) <= N - 1
      BY <1>1
    <3>2. j <= k
      BY <1>4, <3>1, MostIs
    <3>3. k \in 0 .. Len(s) /\ j \in 0 .. k
      BY <1>1, <3>2
    <3>4. o <= l
      BY <1>5, <3>3, Beginning
    <3>5. QED BY <3>4
  <2>6. Ends(l)
    BY <2>4, <2>5
  <2>7. ASSUME NEW m \in 0 .. (N - 1), Ends(m) PROVE m = l
    <3>1. CASE m < l
      <4>1. l \in (m + 1) .. (N - 1)
        BY <3>1
      <4>2. QED BY <2>4, <2>7, <4>1
    <3>2. CASE m > l
      <4>1. m \in (l + 1) .. (N - 1) /\ m # 0
        BY <3>2
      <4>2. QED BY <2>5, <2>7, <4>1
    <3>3. QED BY <3>1, <3>2
  <2>8. get_utf8_length(g) = CHOOSE m \in 0 .. (N - 1) : Ends(m)
    <3>1. ~(Len(g) <= N - 1)
      BY <2>1
    <3>2. QED BY <3>1, Zenon DEF get_utf8_length
  <2>9. get_utf8_length(g) = l
    <3> HIDE DEF Ends
    <3>1. QED BY <2>6, <2>7, <2>8
  <2>10. k \in 0 .. n /\ n \in 0 .. Len(s)
    BY <1>1
  <2>11. \A p \in 1 .. l : b[p] = Kept(s)[p]
    <3>1. \A p \in 1 .. Len(Encoded(s)[k]) : Encoded(s)[n][p] = Encoded(s)[k][p]
      BY <2>10, Beginning
    <3>2. QED BY <1>2, <1>5, <3>1
  <2>12. \A p \in 1 .. l : p \in 1 .. N
    OBVIOUS
  <2>13. \A p \in 1 .. l : g[p] = Kept(s)[p]
    BY <2>1, <2>11, <2>12
  <2>14. QED BY <1>3, <2>1, <2>9, <2>13
<1>9. QED BY <1>6, <1>7, <1>8

-----------------------------------------------------------------------------
(* What a reader finds in the array                                        *)

LEMMA CStringIs ==
  ASSUME NEW d \in [Offset -> Byte], NEW n \in Offset, d[n] = 0, \A i \in 0 .. (n - 1) : d[i] # 0
  PROVE  CString(d) = [i \in 1 .. n |-> d[i - 1]]
<1> DEFINE Ends(m) == /\ m < N => d[m] = 0
                      /\ \A i \in 0 .. (m - 1) : d[i] # 0
<1>1. n \in 0 .. N /\ Ends(n)
  BY DEF Offset
<1>2. ASSUME NEW m \in 0 .. N, Ends(m) PROVE m = n
  <2>1. CASE m < n
    <3>1. m \in 0 .. (n - 1) /\ m < N
      BY <2>1 DEF Offset
    <3>2. QED BY <1>2, <3>1
  <2>2. CASE m > n
    <3>1. n \in 0 .. (m - 1)
      BY <2>2 DEF Offset
    <3>2. QED BY <1>2, <3>1
  <2>3. QED BY <2>1, <2>2 DEF Offset
<1>3. (CHOOSE m \in 0 .. N : Ends(m)) = n
  <2> HIDE DEF Ends
  <2>1. QED BY <1>1, <1>2
<1>4. QED BY <1>3 DEF CString

LEMMA FirstNul ==
  ASSUME NEW d \in [Offset -> Byte], \E i \in Offset : d[i] = 0
  PROVE  \E n \in Offset : d[n] = 0 /\ \A i \in 0 .. (n - 1) : d[i] # 0
<1> DEFINE Nuls == {i \in Offset : d[i] = 0}
<1>1. Nuls \in SUBSET Nat /\ Nuls # {}
  BY DEF Offset
<1>2. PICK n \in Nuls : \A i \in Nuls : n <= i
  <2> HIDE DEF Nuls
  <2>1. QED BY <1>1, LeastElement
<1>3. ASSUME NEW i \in 0 .. (n - 1) PROVE d[i] # 0
  <2>1. i \in Offset /\ ~(n <= i)
    BY DEF Offset
  <2>2. QED BY <1>2, <2>1
<1>4. QED BY <1>2, <1>3

\* An array that holds a beginning of t and zeros.
LEMMA ReadsBeginning ==
  ASSUME NEW d \in [Offset -> Byte], NEW t \in Seq(1 .. 255), \E i \in Offset : d[i] = 0,
         \A i \in Offset : d[i] # 0 => i < Len(t) /\ d[i] = t[i + 1]
  PROVE  IsPrefixOf(CString(d), t)
<1>1. PICK n \in Offset : d[n] = 0 /\ \A i \in 0 .. (n - 1) : d[i] # 0
  BY FirstNul
<1>2. CString(d) = [i \in 1 .. n |-> d[i - 1]]
  BY <1>1, CStringIs
<1>3. n \in Nat /\ Len(t) \in Nat
  BY DEF Offset
<1>4. \A i \in 1 .. n : i - 1 \in Offset /\ i - 1 \in 0 .. (n - 1) /\ (i - 1) + 1 = i
  BY DEF Offset
<1>5. \A i \in 1 .. n : d[i - 1] = t[i] /\ i - 1 < Len(t)
  BY <1>1, <1>4
<1>6. n <= Len(t)
  <2>1. CASE n = 0
    BY <1>3, <2>1
  <2>2. CASE n # 0
    <3>1. n \in 1 .. n
      BY <1>3, <2>2
    <3>2. QED BY <1>3, <1>5, <3>1
  <2>3. QED BY <2>1, <2>2
<1>7. CString(d) = [i \in 1 .. n |-> t[i]]
  BY <1>2, <1>5
<1>8. SubSeq(t, 1, n) = [i \in 1 .. n |-> t[i]]
  BY <1>3, <1>6
<1>9. Len(CString(d)) = n
  BY <1>3, <1>7
<1>10. QED BY <1>6, <1>7, <1>8, <1>9 DEF IsPrefixOf

\* An array that holds t and zeros.
LEMMA ReadsAll ==
  ASSUME NEW d \in [Offset -> Byte], NEW t \in Seq(1 .. 255), Len(t) < N,
         \A i \in Offset : d[i] = IF i < Len(t) THEN t[i + 1] ELSE 0
  PROVE  CString(d) = t
<1>1. PICK n \in Nat : n = Len(t)
  OBVIOUS
<1>2. n \in Offset /\ d[n] = 0
  BY <1>1 DEF Offset
<1>3. \A i \in 1 .. n : i - 1 \in Offset /\ i - 1 < n /\ (i - 1) + 1 = i
  BY <1>1 DEF Offset
<1>4. \A i \in 1 .. n : d[i - 1] = t[i] /\ t[i] \in 1 .. 255
  BY <1>1, <1>3
<1>5. ASSUME NEW i \in 0 .. (n - 1) PROVE d[i] # 0
  <2>1. i + 1 \in 1 .. n /\ (i + 1) - 1 = i
    OBVIOUS
  <2>2. d[i] \in 1 .. 255
    BY <1>4, <2>1
  <2>3. 0 \notin 1 .. 255
    OBVIOUS
  <2>4. QED BY <2>2, <2>3
<1>6. CString(d) = [i \in 1 .. n |-> d[i - 1]]
  BY <1>2, <1>5, CStringIs
<1>7. t = [i \in 1 .. n |-> t[i]]
  BY <1>1
<1>8. QED BY <1>4, <1>6, <1>7

-----------------------------------------------------------------------------
(* The inductive invariant of copy_string                                  *)

LEMMA NoNul ==
  ASSUME NEW t \in Seq(1 .. 255), NEW i \in 1 .. Len(t)
  PROVE  t[i] \in 1 .. 255 /\ t[i] \in Byte /\ t[i] # 0
<1>1. ASSUME NEW S, NEW u \in Seq(S), NEW j \in 1 .. Len(u) PROVE u[j] \in S
  BY <1>1
<1>2. t[i] \in 1 .. 255
  BY <1>1
<1>3. \A x \in 1 .. 255 : x \in 0 .. 255 /\ x # 0
  OBVIOUS
<1>4. QED BY <1>2, <1>3 DEF Byte

\* The old string goes byte by byte, in any order.
Zeroing ==
  phase = "memset" =>
    \A i \in Offset : dest[i] = IF i \in left /\ i < Len(before) THEN before[i + 1] ELSE 0

\* The new one comes byte by byte over zeros.
Copying ==
  phase # "memset" =>
    /\ left \subseteq 0 .. (Len(Kept(src)) - 1)
    /\ \A i \in Offset : dest[i] = IF i < Len(Kept(src)) /\ i \notin left
                                   THEN Kept(src)[i + 1] ELSE 0

CopyInv ==
  /\ CopyTypeOK
  /\ before \in Seq(1 .. 255) /\ Len(before) < N
  /\ Zeroing
  /\ Copying
  /\ phase = "done" => left = {}

\* Between calls the array holds what was kept of the last string.
LEMMA HeldWhenDone == CopyInv /\ phase = "done" => held = Kept(src)
<1> SUFFICES ASSUME CopyInv, phase = "done" PROVE held = Kept(src)
  OBVIOUS
<1>1. Kept(src) \in Seq(1 .. 255) /\ Len(Kept(src)) < N
  BY KeptIs DEF CopyInv, CopyTypeOK
<1>2. dest \in [Offset -> Byte]
      /\ \A i \in Offset : dest[i] = IF i < Len(Kept(src)) THEN Kept(src)[i + 1] ELSE 0
  BY DEF CopyInv, CopyTypeOK, Copying
<1>3. QED BY <1>1, <1>2, ReadsAll DEF held

\* The last byte is always NUL.
LEMMA LastByte == CopyInv => dest[N - 1] = 0
<1> SUFFICES ASSUME CopyInv PROVE dest[N - 1] = 0
  OBVIOUS
<1>1. N - 1 \in Offset
  BY DEF Offset
<1>2. Len(Kept(src)) \in 0 .. (N - 1)
  BY KeptIs DEF CopyInv, CopyTypeOK
<1>3. CASE phase = "memset"
  <2>1. Len(before) \in Nat /\ Len(before) < N
    BY DEF CopyInv
  <2>2. ~(N - 1 < Len(before))
    BY <2>1
  <2>3. QED BY <1>1, <1>3, <2>2 DEF CopyInv, Zeroing
<1>4. CASE phase # "memset"
  BY <1>1, <1>2, <1>4 DEF CopyInv, Copying
<1>5. QED BY <1>3, <1>4

LEMMA CopyInitInv == CopyInit => CopyInv
<1> SUFFICES ASSUME CopyInit PROVE CopyInv
  BY DEF CopyInit
<1> USE DEF CopyInit
<1>1. << >> \in Seq(Character) /\ << >> \in Seq(1 .. 255) /\ Len(<< >>) = 0
  OBVIOUS
<1>2. Bytes(<< >>) = << >>
  BY <1>1, EncodedSteps DEF Bytes
<1>3. given \in Given(src)
  BY <1>2 DEF Given
<1>4. CopyTypeOK
  BY <1>1, <1>3 DEF CopyTypeOK, Byte
<1>5. Kept(src) = << >>
  <2>1. Most(src) = 0
    <3>1. Most(<< >>) \in 0 .. 0
      BY <1>1, MostIs
    <3>2. QED BY <3>1
  <2>2. QED BY <1>1, <2>1, EncodedSteps DEF Kept
<1>6. Copying
  BY <1>1, <1>5 DEF Copying, Offset
<1>7. QED BY <1>1, <1>4, <1>6 DEF CopyInv, Zeroing

LEMMA CopyStringStep ==
  ASSUME CopyInv, NEW s \in Strings, copy_string(s)
  PROVE  CopyInv'
<1> USE DEF copy_string
<1>1. CopyTypeOK'
  BY StringsAssumption DEF CopyInv, CopyTypeOK
<1>2. before' = Kept(src)
  BY HeldWhenDone
<1>3. before' \in Seq(1 .. 255) /\ Len(before') \in 0 .. (N - 1)
  BY <1>2, KeptIs DEF CopyInv, CopyTypeOK
<1>4. \A i \in Offset : dest[i] = IF i < Len(before') THEN before'[i + 1] ELSE 0
  BY <1>2 DEF CopyInv, Copying
<1>5. Zeroing'
  BY <1>4 DEF Zeroing, Offset
<1>6. phase' = "memset"
  OBVIOUS
<1>7. QED BY <1>1, <1>3, <1>5, <1>6 DEF CopyInv, Copying

LEMMA ZeroByteStep ==
  ASSUME CopyInv, NEW i \in Offset, ZeroByte(i)
  PROVE  CopyInv'
<1> USE DEF ZeroByte
<1>1. CopyTypeOK'
  BY DEF CopyInv, CopyTypeOK, Byte
<1>2. \A j \in Offset : dest'[j] = IF j = i THEN 0 ELSE dest[j]
  BY DEF CopyInv, CopyTypeOK
<1>3. Zeroing'
  BY <1>2 DEF CopyInv, Zeroing, Offset
<1>4. QED BY <1>1, <1>3 DEF CopyInv, Copying

LEMMA ZeroDoneStep ==
  ASSUME CopyInv, ZeroDone
  PROVE  CopyInv'
<1>1. src \in Seq(Character) /\ given \in Given(src)
  BY DEF CopyInv, CopyTypeOK
<1>2. PICK l \in 0 .. (N - 1) : l = Len(Kept(src)) /\ left' = 0 .. (l - 1)
  BY <1>1, Truncates, KeptIs DEF ZeroDone
<1>3. phase = "memset" /\ phase' = "memcpy" /\ left = {}
  BY DEF ZeroDone
<1>4. dest' = dest /\ src' = src /\ given' = given /\ before' = before
  BY DEF ZeroDone
<1>5. CopyTypeOK'
  <2>1. 0 .. (l - 1) \subseteq Offset
    BY ArrayAssumption DEF Offset
  <2>2. left' \subseteq Offset
    BY <1>2, <2>1
  <2>3. QED BY <1>3, <1>4, <2>2 DEF CopyInv, CopyTypeOK
<1>6. \A i \in Offset : dest[i] = 0
  BY <1>3 DEF CopyInv, Zeroing
<1>7. ASSUME NEW i \in Offset, i < l
      PROVE  i \in left'
  <2>1. i \in 0 .. (l - 1)
    BY <1>7, ArrayAssumption DEF Offset
  <2>2. QED BY <1>2, <2>1
<1>8. left' \subseteq 0 .. (Len(Kept(src')) - 1)
  BY <1>2, <1>4
<1>9. \A i \in Offset : dest'[i] = IF i < Len(Kept(src')) /\ i \notin left'
                                   THEN Kept(src')[i + 1] ELSE 0
  BY <1>2, <1>4, <1>6, <1>7
<1>10. Copying'
  BY <1>8, <1>9 DEF Copying
<1>11. QED BY <1>3, <1>4, <1>5, <1>10 DEF CopyInv, Zeroing

LEMMA CopyByteStep ==
  ASSUME CopyInv, NEW i \in Offset, CopyByte(i)
  PROVE  CopyInv'
<1> USE DEF CopyByte
<1>1. src \in Seq(Character) /\ given \in Given(src)
  BY DEF CopyInv, CopyTypeOK
<1>2. i \in 0 .. (Len(Kept(src)) - 1) /\ Len(Kept(src)) \in Nat
  BY <1>1, KeptIs DEF CopyInv, Copying
<1>3. i + 1 \in 1 .. Len(Kept(src))
  BY <1>2
<1>4. given[i + 1] = Kept(src)[i + 1]
  BY <1>1, <1>3, Truncates
<1>5. given[i + 1] \in Byte
  BY <1>1, <1>3, <1>4, KeptIs, NoNul
<1>6. CopyTypeOK'
  BY <1>5 DEF CopyInv, CopyTypeOK
<1>7. \A j \in Offset : dest'[j] = IF j = i THEN Kept(src)[i + 1] ELSE dest[j]
  BY <1>4 DEF CopyInv, CopyTypeOK
<1>8. \A j \in Offset : dest[j] = IF j < Len(Kept(src)) /\ j \notin left
                                  THEN Kept(src)[j + 1] ELSE 0
  BY DEF CopyInv, Copying
<1>9. ASSUME NEW j \in Offset
      PROVE  dest'[j] = IF j < Len(Kept(src)) /\ j \notin left' THEN Kept(src)[j + 1] ELSE 0
  <2>1. CASE j = i
    BY <1>2, <1>7, <2>1 DEF Offset
  <2>2. CASE j # i
    BY <1>7, <1>8, <2>2
  <2>3. QED BY <2>1, <2>2
<1>10. left' \subseteq 0 .. (Len(Kept(src)) - 1)
  BY DEF CopyInv, Copying
<1>11. Copying'
  BY <1>9, <1>10 DEF Copying, Offset
<1>12. QED BY <1>6, <1>11 DEF CopyInv, Zeroing

LEMMA CopyDoneStep ==
  ASSUME CopyInv, CopyDone
  PROVE  CopyInv'
BY DEF CopyDone, CopyInv, CopyTypeOK, Zeroing, Copying, Offset, Byte

LEMMA CopyInvariant == CopySpec => []CopyInv
<1>1. ASSUME CopyInv, [CopyNext]_copyVars PROVE CopyInv'
  <2>1. CASE \E s \in Strings : copy_string(s)
    BY <1>1, <2>1, CopyStringStep
  <2>2. CASE \E i \in Offset : ZeroByte(i)
    BY <1>1, <2>2, ZeroByteStep
  <2>3. CASE ZeroDone
    BY <1>1, <2>3, ZeroDoneStep
  <2>4. CASE \E i \in Offset : CopyByte(i)
    BY <1>1, <2>4, CopyByteStep
  <2>5. CASE CopyDone
    BY <1>1, <2>5, CopyDoneStep
  <2>6. CASE UNCHANGED copyVars
    BY <1>1, <2>6 DEF copyVars, CopyInv, CopyTypeOK, Zeroing, Copying
  <2>7. QED BY <1>1, <2>1, <2>2, <2>3, <2>4, <2>5, <2>6 DEF CopyNext
<1>2. QED BY <1>1, CopyInitInv, PTL DEF CopySpec

-----------------------------------------------------------------------------
(* What is read is what the attribute of AttributeStore has                *)

\* The constants AttributeStore gets are as it assumes.
LEMMA AttributeConstants == Attribute!AttributesAssumption
<1>1. \A s \in Strings : Kept(s) \in Seq(1 .. 255)
  BY KeptIs, StringsAssumption
<1>2. Part \notin Seq(1 .. 255) /\ Part # << >>
  BY DEF Part
<1>3. << >> \notin KeptValues /\ Part \notin KeptValues \cup {<< >>}
  BY <1>1, <1>2 DEF KeptValues
<1> QED
  BY <1>3 DEF Attribute!AttributesAssumption

\* The first byte tells whether anything is read.
LEMMA ReadsNothing ==
  ASSUME NEW d \in [Offset -> Byte], \E i \in Offset : d[i] = 0
  PROVE  CString(d) = << >> <=> d[0] = 0
<1>1. PICK n \in Offset : d[n] = 0 /\ \A i \in 0 .. (n - 1) : d[i] # 0
  BY FirstNul
<1>2. CString(d) = [i \in 1 .. n |-> d[i - 1]] /\ n \in Nat
  BY <1>1, CStringIs DEF Offset
<1>3. Len(CString(d)) = n
  BY <1>2
<1>4. CASE n = 0
  <2>1. Len(CString(d)) = 0 /\ CString(d) \in Seq(Byte)
    BY <1>2, <1>3, <1>4
  <2> QED
    BY <1>1, <1>4, <2>1
<1>5. CASE n # 0
  <2>1. 0 \in 0 .. (n - 1) /\ Len(<< >>) = 0
    BY <1>2, <1>5
  <2> QED
    BY <1>1, <1>3, <1>5, <2>1
<1> QED
  BY <1>4, <1>5

\* The whole old string is read as long as none of its bytes is zeroed.
Untouched == \A i \in Offset : i < Len(before) => dest[i] # 0

LEMMA ReadsOld == CopyInv /\ phase = "memset" => (held = before <=> Untouched)
<1> SUFFICES ASSUME CopyInv, phase = "memset" PROVE held = before <=> Untouched
  OBVIOUS
<1>1. /\ dest \in [Offset -> Byte] /\ before \in Seq(1 .. 255) /\ Len(before) < N
      /\ \A i \in Offset : dest[i] = IF i \in left /\ i < Len(before) THEN before[i + 1] ELSE 0
  BY DEF CopyInv, CopyTypeOK, Zeroing
<1>2. ASSUME Untouched
      PROVE  held = before
  <2>1. \A i \in Offset : dest[i] = IF i < Len(before) THEN before[i + 1] ELSE 0
    BY <1>1, <1>2 DEF Untouched
  <2> QED
    BY <1>1, <2>1, ReadsAll DEF held
<1>3. ASSUME held = before, NEW i \in Offset, i < Len(before)
      PROVE  dest[i] # 0
  <2>1. N - 1 \in Offset /\ dest[N - 1] = 0
    BY LastByte DEF Offset
  <2>2. PICK n \in Offset : dest[n] = 0 /\ \A j \in 0 .. (n - 1) : dest[j] # 0
    BY <1>1, <2>1, FirstNul
  <2>3. held = [j \in 1 .. n |-> dest[j - 1]]
    BY <1>1, <2>2, CStringIs DEF held
  <2>4. n \in Nat /\ Len(held) = n
    BY <2>3 DEF Offset
  <2>5. i \in 0 .. (n - 1)
    BY <1>3, <2>4 DEF Offset
  <2> QED
    BY <2>2, <2>5
<1> QED
  BY <1>2, <1>3 DEF Untouched

\* After the last byte, and not only after the return, the new string is read.
LEMMA ReadsNew ==
  ASSUME CopyInv, IsSet
  PROVE  held = Kept(src)
<1>1. Kept(src) \in Seq(1 .. 255) /\ Len(Kept(src)) < N
  BY KeptIs DEF CopyInv, CopyTypeOK
<1>2. phase # "memset" /\ left = {}
  BY DEF IsSet, CopyInv
<1>3. /\ dest \in [Offset -> Byte]
      /\ \A i \in Offset : dest[i] = IF i < Len(Kept(src)) THEN Kept(src)[i + 1] ELSE 0
  BY <1>2 DEF CopyInv, CopyTypeOK, Copying
<1> QED
  BY <1>1, <1>3, ReadsAll DEF held

\* What is read in each phase, and what AttributeStore is doing then.
LEMMA HeldIsEmpty ==
  ASSUME CopyInv
  PROVE  held = << >> <=> dest[0] = 0
<1>1. N - 1 \in Offset /\ dest[N - 1] = 0 /\ dest \in [Offset -> Byte]
  BY LastByte DEF Offset, CopyInv, CopyTypeOK
<1> QED
  BY <1>1, ReadsNothing DEF held

-----------------------------------------------------------------------------
(* The steps of AttributeStore with its one attribute                      *)

LEMMA Begins ==
  ASSUME NEW v \in KeptValues \cup {<< >>}, AttributePc = "idle", AttributePc' = "zero_value",
         AttributeCall' = <<TheKey, v>>, Reads' = Reads
  PROVE  Attribute!Next
<1>1. Attribute!SetExisting(TheKey, v, 0)
  BY DEF Attribute!SetExisting, Attribute!Used, Attribute!Finds, Attribute!key_equals_at,
         Attribute!file
<1> QED
  BY <1>1 DEF Attribute!Next, Attribute!AnyValue, Attribute!Attr

LEMMA ZeroesPart ==
  ASSUME AttributePc = "zero_value", AttributePc' = "zero_value", Reads # << >>, Reads' = Part,
         AttributeCall' = AttributeCall
  PROVE  Attribute!Next
<1>1. Attribute!ZeroValuePart
  BY DEF Attribute!ZeroValuePart
<1> QED
  BY <1>1 DEF Attribute!Next

LEMMA Zeroes ==
  ASSUME AttributePc = "zero_value", AttributePc' = "copy_value", Reads' = << >>,
         AttributeCall' = AttributeCall
  PROVE  Attribute!Next
<1>1. Attribute!ZeroValue
  BY DEF Attribute!ZeroValue, Attribute!IsNew
<1> QED
  BY <1>1 DEF Attribute!Next

LEMMA CopiesPart ==
  ASSUME AttributePc = "copy_value", AttributePc' = "copy_value", Reads' = Part,
         AttributeCall' = AttributeCall, AttributeCall[2] # << >>
  PROVE  Attribute!Next
<1>1. Attribute!CopyValuePart
  BY DEF Attribute!CopyValuePart
<1> QED
  BY <1>1 DEF Attribute!Next

LEMMA Copies ==
  ASSUME AttributePc = "copy_value", AttributePc' = "idle", Reads' = AttributeCall[2],
         AttributeCall' = << << >>, << >> >>
  PROVE  Attribute!Next
<1>1. Attribute!CopyValue
  BY DEF Attribute!CopyValue, Attribute!IsNew, Attribute!Returns, Attribute!NoCall
<1> QED
  BY <1>1 DEF Attribute!Next

LEMMA Stutters ==
  ASSUME AttributePc' = AttributePc, Reads' = Reads, AttributeCall' = AttributeCall
  PROVE  UNCHANGED Attribute!vars
BY DEF Attribute!vars

-----------------------------------------------------------------------------
(* Each step of copy_string is one of them                                 *)

LEMMA CopyStringSets ==
  ASSUME CopyInv, NEW s \in Strings, copy_string(s)
  PROVE  Attribute!Next
<1>1. phase = "done" /\ phase' = "memset" /\ left' = Offset /\ src' = s
      /\ before' = held /\ dest' = dest
  BY DEF copy_string
<1>2. 0 \in Offset /\ held' = held
  BY <1>1 DEF Offset, held
<1>3. AttributePc = "idle" /\ AttributePc' = "zero_value"
  BY <1>1, <1>2 DEF AttributePc, IsSet
<1>4. AttributeCall' = <<TheKey, Kept(s)>>
  BY <1>1 DEF AttributeCall, IsSet
<1>5. Reads' = Reads
  BY <1>1, <1>2 DEF Reads, IsSet
<1>6. Kept(s) \in KeptValues \cup {<< >>}
  BY DEF KeptValues
<1> QED
  BY <1>3, <1>4, <1>5, <1>6, Begins

LEMMA ZeroByteSets ==
  ASSUME CopyInv, CopyInv', NEW i \in Offset, ZeroByte(i)
  PROVE  [Attribute!Next]_(Attribute!vars)
<1>1. /\ phase = "memset" /\ phase' = "memset" /\ i \in left /\ left' = left \ {i}
      /\ src' = src /\ before' = before
  BY DEF ZeroByte
<1>2. \A j \in Offset : dest'[j] = IF j = i THEN 0 ELSE dest[j]
  BY DEF ZeroByte, CopyInv, CopyTypeOK
<1>3. 0 \in Offset /\ ~IsSet /\ ~IsSet'
  BY <1>1 DEF Offset, IsSet
<1>4. /\ held = << >> <=> dest[0] = 0
      /\ held' = << >> <=> dest'[0] = 0
      /\ 0 \notin left => held = << >>
      /\ 0 \notin left' => held' = << >>
  <2>1. held = << >> <=> dest[0] = 0
    BY HeldIsEmpty
  <2>2. (held = << >> <=> dest[0] = 0)'
    BY HeldIsEmpty, PTL
  <2>3. 0 \notin left => dest[0] = 0
    BY <1>1, <1>3 DEF CopyInv, Zeroing
  <2>4. 0 \notin left' => dest'[0] = 0
    BY <1>1, <1>2, <1>3, <2>3
  <2> QED
    BY <2>1, <2>2, <2>3, <2>4
<1>5. held' = before' => held = before
  <2>1. held = before <=> Untouched
    BY <1>1, ReadsOld
  <2>2. (CopyInv /\ phase = "memset" => (held = before <=> Untouched))'
    BY ReadsOld, PTL
  <2>3. Untouched' => Untouched
    BY <1>1, <1>2 DEF Untouched
  <2> QED
    BY <1>1, <2>1, <2>2, <2>3
<1>6. AttributeCall' = AttributeCall
  BY <1>1, <1>3 DEF AttributeCall
<1>7. CASE 0 \notin left
  <2>1. 0 \notin left'
    BY <1>1, <1>7
  <2>2. AttributePc = "copy_value" /\ AttributePc' = "copy_value"
    BY <1>1, <1>3, <1>7, <2>1 DEF AttributePc
  <2>3. Reads = << >> /\ Reads' = << >>
    BY <1>4, <1>7, <2>1 DEF Reads
  <2> QED
    BY <1>6, <2>2, <2>3, Stutters
<1>8. CASE 0 \in left /\ 0 \notin left'
  <2>1. AttributePc = "zero_value" /\ AttributePc' = "copy_value"
    BY <1>1, <1>3, <1>8 DEF AttributePc
  <2>2. Reads' = << >>
    BY <1>4, <1>8 DEF Reads
  <2> QED
    BY <1>6, <2>1, <2>2, Zeroes
<1>9. CASE 0 \in left /\ 0 \in left'
  <2>1. AttributePc = "zero_value" /\ AttributePc' = "zero_value"
    BY <1>1, <1>3, <1>9 DEF AttributePc
  <2>2. i # 0
    BY <1>1, <1>9
  <2>3. held = << >> <=> held' = << >>
    BY <1>2, <1>3, <1>4, <2>2
  <2>4. CASE held = << >> \/ held' = before'
    <3>1. Reads' = Reads
      BY <1>1, <1>5, <2>3, <2>4 DEF Reads
    <3> QED
      BY <1>6, <2>1, <3>1, Stutters
  <2>5. CASE held # << >> /\ held' # before'
    <3>1. Reads' = Part /\ Reads # << >>
      BY <1>1, <1>3, <2>3, <2>5 DEF Reads, Part
    <3> QED
      BY <1>6, <2>1, <3>1, ZeroesPart
  <2> QED
    BY <2>4, <2>5
<1> QED
  BY <1>7, <1>8, <1>9

LEMMA ZeroDoneSets ==
  ASSUME CopyInv, CopyInv', ZeroDone
  PROVE  [Attribute!Next]_(Attribute!vars)
<1>1. /\ phase = "memset" /\ phase' = "memcpy" /\ left = {} /\ dest' = dest /\ src' = src
      /\ 0 \in Offset
  BY DEF ZeroDone, Offset
<1>2. held = << >> /\ held' = << >>
  <2>1. dest[0] = 0
    BY <1>1 DEF CopyInv, Zeroing
  <2>2. held = << >>
    BY <2>1, HeldIsEmpty
  <2> QED
    BY <1>1, <2>2 DEF held
<1>3. AttributePc = "copy_value" /\ ~IsSet
  BY <1>1 DEF AttributePc, IsSet
<1>4. Reads = << >> /\ Reads' = << >>
  BY <1>2 DEF Reads
<1>5. AttributeCall = <<TheKey, Kept(src)>>
  BY <1>3 DEF AttributeCall
<1>6. CASE IsSet'
  <2>1. held' = Kept(src')
    <3>1. (CopyInv /\ IsSet => held = Kept(src))'
      BY ReadsNew, PTL
    <3> QED
      BY <1>6, <3>1
  <2>2. AttributePc' = "idle" /\ AttributeCall' = << << >>, << >> >>
    BY <1>6 DEF AttributePc, AttributeCall
  <2> QED
    BY <1>1, <1>2, <1>3, <1>4, <1>5, <2>1, <2>2, Copies
<1>7. CASE ~IsSet'
  <2>1. AttributePc' = "copy_value" /\ AttributeCall' = AttributeCall
    BY <1>1, <1>5, <1>7 DEF AttributePc, AttributeCall
  <2> QED
    BY <1>3, <1>4, <2>1, Stutters
<1> QED
  BY <1>6, <1>7

LEMMA CopyByteSets ==
  ASSUME CopyInv, CopyInv', NEW i \in Offset, CopyByte(i)
  PROVE  [Attribute!Next]_(Attribute!vars)
<1>1. /\ phase = "memcpy" /\ phase' = "memcpy" /\ i \in left /\ left' = left \ {i}
      /\ src' = src /\ ~IsSet
  BY DEF CopyByte, IsSet
<1>2. AttributePc = "copy_value" /\ AttributeCall = <<TheKey, Kept(src)>>
  BY <1>1 DEF AttributePc, AttributeCall
<1>3. Kept(src) # << >>
  <2>1. i \in 0 .. (Len(Kept(src)) - 1) /\ Len(Kept(src)) \in Nat
    BY <1>1, KeptIs DEF CopyInv, CopyTypeOK, Copying
  <2>2. Len(Kept(src)) # 0
    BY <2>1
  <2> QED
    BY <2>2
<1>4. CASE IsSet'
  <2>1. held' = Kept(src')
    <3>1. (CopyInv /\ IsSet => held = Kept(src))'
      BY ReadsNew, PTL
    <3> QED
      BY <1>4, <3>1
  <2>2. Reads' = Kept(src)
    BY <1>1, <1>4, <2>1 DEF Reads
  <2>3. AttributePc' = "idle" /\ AttributeCall' = << << >>, << >> >>
    BY <1>4 DEF AttributePc, AttributeCall
  <2> QED
    BY <1>2, <2>2, <2>3, Copies
<1>5. CASE ~IsSet'
  <2>1. AttributePc' = "copy_value" /\ AttributeCall' = AttributeCall
    BY <1>1, <1>2, <1>5 DEF AttributePc, AttributeCall
  <2>2. CASE held' = << >>
    <3>1. held = << >>
      <4>1. held = << >> <=> dest[0] = 0
        BY HeldIsEmpty
      <4>2. (held = << >> <=> dest[0] = 0)'
        BY HeldIsEmpty, PTL
      <4>3. 0 \in Offset /\ dest'[0] = 0
        BY <2>2, <4>2 DEF Offset
      <4>4. i # 0 => dest[0] = dest'[0]
        BY <4>3 DEF CopyByte, CopyInv, CopyTypeOK
      <4>5. i = 0 => dest[0] = 0
        BY <1>1, <4>3 DEF CopyInv, Copying
      <4> QED
        BY <4>1, <4>3, <4>4, <4>5
    <3>2. Reads = << >> /\ Reads' = << >>
      BY <2>2, <3>1 DEF Reads
    <3> QED
      BY <1>2, <2>1, <3>2, Stutters
  <2>3. CASE held' # << >>
    <3>1. Reads' = Part
      BY <1>1, <1>5, <2>3 DEF Reads
    <3> QED
      BY <1>2, <1>3, <2>1, <3>1, CopiesPart
  <2> QED
    BY <2>2, <2>3
<1> QED
  BY <1>4, <1>5

LEMMA CopyDoneSets ==
  ASSUME CopyInv, CopyDone \/ UNCHANGED copyVars
  PROVE  UNCHANGED Attribute!vars
<1>1. CASE CopyDone
  <2>1. IsSet /\ IsSet' /\ held' = held
    BY <1>1 DEF CopyDone, IsSet, held
  <2> QED
    BY <2>1, Stutters DEF AttributePc, AttributeCall, Reads
<1>2. CASE UNCHANGED copyVars
  <2>1. phase' = phase /\ left' = left /\ src' = src /\ before' = before /\ held' = held
    BY <1>2 DEF copyVars, held
  <2> QED
    BY <2>1, Stutters DEF AttributePc, AttributeCall, Reads, IsSet
<1> QED
  BY <1>1, <1>2

-----------------------------------------------------------------------------
(* The theorems about strings                                              *)

\* The next process always finds an array of bytes, whatever byte the copy was
\* at (copy_string.h:54).
THEOREM StringTypeCorrect == CopySpec => []CopyTypeOK
<1>1. CopyInv => CopyTypeOK
  BY DEF CopyInv
<1>2. QED BY <1>1, CopyInvariant, PTL

\* The array is terminated at every byte of the copy (copy_string.h:54).
THEOREM ArraysAreTerminated == CopySpec => []AlwaysTerminated
<1>1. CopyInv => AlwaysTerminated
  <2>1. N - 1 \in Offset
    BY DEF Offset
  <2>2. QED BY <2>1, LastByte DEF AlwaysTerminated
<1>2. QED BY <1>1, CopyInvariant, PTL

\* What is read is a beginning of the old string or of the new one, never of
\* both (raw_span_data.h:132).
THEOREM StringsNeverMix == CopySpec => []NeverMixed
<1>1. CopyInv => NeverMixed
  <2> SUFFICES ASSUME CopyInv PROVE NeverMixed
    OBVIOUS
  <2>1. dest \in [Offset -> Byte] /\ \E i \in Offset : dest[i] = 0
    <3>1. N - 1 \in Offset
      BY DEF Offset
    <3>2. QED BY <3>1, LastByte DEF CopyInv, CopyTypeOK
  <2>2. CASE phase = "memset"
    <3>1. before \in Seq(1 .. 255)
          /\ \A i \in Offset : dest[i] # 0 => i < Len(before) /\ dest[i] = before[i + 1]
      BY <2>2 DEF CopyInv, Zeroing
    <3>2. IsPrefixOf(held, before)
      BY <2>1, <3>1, ReadsBeginning DEF held
    <3>3. QED BY <2>2, <3>2 DEF NeverMixed
  <2>3. CASE phase # "memset"
    <3>1. src \in Seq(Character) /\ given \in Given(src)
      BY DEF CopyInv, CopyTypeOK
    <3>2. /\ given \in Seq(1 .. 255) /\ Len(Kept(src)) \in Nat /\ Len(Kept(src)) <= Len(given)
          /\ \A p \in 1 .. Len(Kept(src)) : given[p] = Kept(src)[p]
      BY <3>1, Truncates, KeptIs
    <3>3. ASSUME NEW i \in Offset, dest[i] # 0 PROVE i < Len(given) /\ dest[i] = given[i + 1]
      <4>1. i < Len(Kept(src)) /\ dest[i] = Kept(src)[i + 1]
        BY <2>3, <3>3 DEF CopyInv, Copying
      <4>2. i + 1 \in 1 .. Len(Kept(src)) /\ Len(given) \in Nat
        BY <3>2, <4>1 DEF Offset
      <4>3. given[i + 1] = Kept(src)[i + 1]
        BY <3>2, <4>2
      <4>4. i < Len(given)
        BY <3>2, <4>1, <4>2 DEF Offset
      <4>5. QED BY <4>1, <4>3, <4>4
    <3>4. IsPrefixOf(held, given)
      BY <2>1, <3>2, <3>3, ReadsBeginning DEF held
    <3>5. QED BY <2>3, <3>4 DEF NeverMixed
  <2>4. QED BY <2>2, <2>3
<1>2. QED BY <1>1, CopyInvariant, PTL

\* A finished copy holds the characters that fit, whether or not the string
\* was cut at a byte before (copy_string.h:35, managed_jstring.h:59).
THEOREM CharactersStayWhole == CopySpec => []KeepsWholeCharacters
<1>1. CopyInv => KeepsWholeCharacters
  BY HeldWhenDone DEF KeepsWholeCharacters
<1>2. QED BY <1>1, CopyInvariant, PTL

\* key_equals finds a key in the array it was copied to, and takes no other
\* for it but those of which the same is kept (raw_span_data.h:135).
THEOREM KeysAreFound == CopySpec => []KeyIsFound
<1>1. CopyInv => KeyIsFound
  <2> SUFFICES ASSUME CopyInv, phase = "done", NEW k \in Strings, NEW b \in Given(k)
               PROVE  key_equals(b, dest) <=> Kept(k) = Kept(src)
    BY DEF KeyIsFound
  <2>1. k \in Seq(Character) /\ src \in Seq(Character)
    BY StringsAssumption DEF CopyInv, CopyTypeOK
  <2>2. PICK kept \in Seq(1 .. 255) : kept = Kept(k)
    BY <2>1, KeptIs
  <2>3. PICK old \in Seq(1 .. 255) : old = Kept(src)
    BY <2>1, KeptIs
  <2>4. Len(kept) \in 0 .. (N - 1) /\ Len(old) \in 0 .. (N - 1)
    BY <2>1, <2>2, <2>3, KeptIs
  <2>5. get_utf8_length(b) = Len(kept) /\ \A p \in 1 .. Len(kept) : b[p] = kept[p]
    BY <2>1, <2>2, Truncates
  <2>6. key_equals(b, dest) <=> /\ \A i \in 1 .. Len(kept) : dest[i - 1] = kept[i]
                                /\ dest[Len(kept)] = 0
    BY <2>5 DEF key_equals
  <2>7. \A i \in Offset : dest[i] = IF i < Len(old) THEN old[i + 1] ELSE 0
    BY <2>3 DEF CopyInv, Copying
  <2>8. \A i \in 1 .. Len(old) : i - 1 \in Offset /\ dest[i - 1] = old[i] /\ dest[i - 1] # 0
    <3> SUFFICES ASSUME NEW i \in 1 .. Len(old)
                 PROVE  i - 1 \in Offset /\ dest[i - 1] = old[i] /\ dest[i - 1] # 0
      OBVIOUS
    <3>1. i - 1 \in Offset /\ i - 1 < Len(old) /\ (i - 1) + 1 = i
      BY <2>4 DEF Offset
    <3>2. dest[i - 1] = old[i]
      BY <2>7, <3>1
    <3>3. old[i] # 0
      BY NoNul
    <3>4. QED BY <3>1, <3>2, <3>3
  <2>9. Len(old) \in Offset /\ dest[Len(old)] = 0
    BY <2>4, <2>7 DEF Offset
  <2>10. ASSUME kept = old PROVE key_equals(b, dest)
    BY <2>6, <2>8, <2>9, <2>10
  <2>11. ASSUME key_equals(b, dest) PROVE kept = old
    <3>1. /\ \A i \in 1 .. Len(kept) : dest[i - 1] = kept[i]
          /\ dest[Len(kept)] = 0
      BY <2>6, <2>11
    <3>2. ~(Len(kept) < Len(old))
      <4> SUFFICES ASSUME Len(kept) < Len(old) PROVE FALSE
        OBVIOUS
      <4>1. Len(kept) + 1 \in 1 .. Len(old) /\ (Len(kept) + 1) - 1 = Len(kept)
        BY <2>4
      <4>2. QED BY <2>8, <3>1, <4>1
    <3>3. ~(Len(old) < Len(kept))
      <4> SUFFICES ASSUME Len(old) < Len(kept) PROVE FALSE
        OBVIOUS
      <4>1. Len(old) + 1 \in 1 .. Len(kept) /\ (Len(old) + 1) - 1 = Len(old)
        BY <2>4
      <4>2. kept[Len(old) + 1] # 0
        BY <4>1, NoNul
      <4>3. QED BY <2>9, <3>1, <4>1, <4>2
    <3>4. Len(kept) = Len(old)
      BY <2>4, <3>2, <3>3
    <3>5. \A i \in 1 .. Len(old) : kept[i] = old[i]
      BY <2>8, <3>1, <3>4
    <3>6. QED BY <3>4, <3>5
  <2>12. QED BY <2>2, <2>3, <2>10, <2>11
<1>2. QED BY <1>1, CopyInvariant, PTL

\* Every byte that memset and memcpy store, in any order, is a step of
\* AttributeStore or no step at all: the reduction of a string to empty, cut or
\* complete, on which the theorems about attributes rest, leaves out no value
\* that a crash can show (copy_string.h:47, raw_span_data.h:130).
THEOREM CopyImplementsAttributeStore == CopySpec => SetsAnAttribute
<1>1. ASSUME CopyInv, CopyInv', [CopyNext]_copyVars
      PROVE  [Attribute!Next]_(Attribute!vars)
  BY <1>1, CopyStringSets, ZeroByteSets, ZeroDoneSets, CopyByteSets, CopyDoneSets DEF CopyNext
<1> QED
  BY <1>1, CopyInvariant, PTL DEF CopySpec, SetsAnAttribute

\* What is kept of a string is again a string of characters, and kept whole
\* when it is copied once more: a key is found as well by what it was cut to
\* (AttributesAssumption: Truncated[Truncated[k]] = Truncated[k]).
THEOREM KeptIsStable ==
  ASSUME NEW s \in Seq(Character)
  PROVE  \E t \in Seq(Character) : Bytes(t) = Kept(s) /\ Kept(t) = Kept(s)
<1>1. PICK m \in 0 .. Len(s) : m = Most(s) /\ Len(Encoded(s)[m]) <= N - 1
  BY MostIs
<1>2. m \in Nat /\ m <= Len(s) /\ Len(s) \in Nat
  BY EncodedSteps
<1>3. PICK t \in Seq(Character) : Len(t) = m /\ \A p \in 1 .. m : t[p] = s[p]
  <2>1. /\ SubSeq(s, 1, m) \in Seq(Character) /\ Len(SubSeq(s, 1, m)) = m
        /\ \A p \in 1 .. m : SubSeq(s, 1, m)[p] = s[p]
    BY <1>2, CutIs
  <2>2. QED BY <2>1
<1>4. \A k \in 0 .. m : Encoded(t)[k] = Encoded(s)[k]
  <2> DEFINE S == {k \in 0 .. m : Encoded(t)[k] = Encoded(s)[k]}
  <2>1. 0 \in S
    <3>1. Encoded(s)[0] = << >> /\ Encoded(t)[0] = << >>
      BY EncodedSteps
    <3>2. 0 \in 0 .. m
      BY <1>2
    <3>3. QED BY <3>1, <3>2
  <2>2. ASSUME NEW k \in 0 .. (m - 1), k \in S PROVE k + 1 \in S
    <3>1. k + 1 \in 1 .. Len(t) /\ k + 1 \in 1 .. Len(s) /\ (k + 1) - 1 = k /\ k + 1 \in 0 .. m
      BY <1>2, <1>3
    <3>2. Encoded(t)[k + 1] = Encoded(t)[k] \o t[k + 1]
      BY <3>1, EncodedSteps
    <3>3. Encoded(s)[k + 1] = Encoded(s)[k] \o s[k + 1]
      BY <3>1, EncodedSteps
    <3>4. t[k + 1] = s[k + 1] /\ Encoded(t)[k] = Encoded(s)[k]
      BY <1>3, <2>2, <3>1
    <3>5. QED BY <3>1, <3>2, <3>3, <3>4
  <2>3. \A k \in 0 .. m : k \in S
    <3> HIDE DEF S
    <3>1. QED BY <1>2, <2>1, <2>2, UpTo
  <2>4. QED BY <2>3
<1>5. Encoded(t)[m] = Encoded(s)[m]
  BY <1>2, <1>4
<1>6. Most(t) = m
  <2>1. Most(t) \in 0 .. m /\ \A j \in 0 .. m : Len(Encoded(t)[j]) <= N - 1 => j <= Most(t)
    BY <1>3, MostIs
  <2>2. m <= Most(t)
    BY <1>1, <1>2, <1>5, <2>1
  <2>3. QED BY <1>2, <2>1, <2>2
<1>7. Bytes(t) = Kept(s) /\ Kept(t) = Kept(s)
  BY <1>1, <1>3, <1>5, <1>6 DEF Bytes, Kept
<1>8. QED BY <1>7

\* Keys as byte strings, any at all, and what copy_string makes of one.
Utf8 == {Bytes(s) : s \in Seq(Character)}
TruncatedBytes == [b \in Utf8 |-> SubSeq(b, 1, get_utf8_length(b))]

\* The slot, with keys and values that are bytes.
InBytes == INSTANCE AttributeStore WITH
             Key <- Utf8, Value <- KeptValues, Truncated <- TruncatedBytes,
             Empty <- << >>, Cut <- Part

LEMMA TruncatedIs ==
  ASSUME NEW s \in Seq(Character)
  PROVE  Bytes(s) \in Utf8 /\ TruncatedBytes[Bytes(s)] = Kept(s)
<1>1. Bytes(s) \in Utf8 /\ Bytes(s) \in Given(s)
  BY DEF Utf8, Given
<1>2. PICK n \in Nat : n = Len(Kept(s))
  BY KeptIs
<1>3. /\ Bytes(s) \in Seq(1 .. 255) /\ n <= Len(Bytes(s)) /\ get_utf8_length(Bytes(s)) = n
      /\ \A p \in 1 .. n : Bytes(s)[p] = Kept(s)[p]
  BY <1>1, <1>2, Truncates
<1>4. SubSeq(Bytes(s), 1, n) = [p \in 1 .. n |-> Bytes(s)[p]]
  BY <1>3
<1>5. Kept(s) = [p \in 1 .. n |-> Kept(s)[p]]
  BY <1>2, KeptIs
<1>6. SubSeq(Bytes(s), 1, n) = Kept(s)
  BY <1>3, <1>4, <1>5
<1> QED
  BY <1>1, <1>3, <1>6 DEF TruncatedBytes

\* What AttributeStore assumes of keys and values holds of bytes: for any array
\* and any characters, the truncation of copy_string gives a key again, and one
\* that it leaves alone (copy_string.h:31).  The bounds on the number of
\* attributes are those assumed of this module's own slot.
THEOREM BytesAreAsAssumed == InBytes!AttributesAssumption
<1>1. ASSUME NEW b \in Utf8
      PROVE  /\ TruncatedBytes[b] \in Utf8
             /\ TruncatedBytes[TruncatedBytes[b]] = TruncatedBytes[b]
  <2>1. PICK s \in Seq(Character) : b = Bytes(s)
    BY DEF Utf8
  <2>2. PICK t \in Seq(Character) : Bytes(t) = Kept(s) /\ Kept(t) = Kept(s)
    BY KeptIsStable
  <2> QED
    BY <2>1, <2>2, TruncatedIs
<1>2. TruncatedBytes \in [Utf8 -> Utf8]
  <2>1. TruncatedBytes = [b \in Utf8 |-> TruncatedBytes[b]]
    BY DEF TruncatedBytes
  <2> QED
    BY <1>1, <2>1
<1>3. << >> \notin KeptValues /\ Part \notin KeptValues \cup {<< >>}
  BY AttributeConstants DEF Attribute!AttributesAssumption
<1> QED
  BY <1>1, <1>2, <1>3, AttributesAssumption DEF InBytes!AttributesAssumption

\* key_equals, on the bytes of the array and of a key that may have been cut
\* before, is key_equals_at, on what the key is truncated to.
ComparesTruncated ==
  phase = "done" =>
    /\ held = TruncatedBytes[Bytes(src)]
    /\ \A k \in Strings : \A b \in Given(k) :
         key_equals(b, dest) <=> held = TruncatedBytes[Bytes(k)]

\* The two models of key_equals agree in every array a key was copied to, so
\* the search of set_attribute_on_span finds in AttributeStore what it finds in
\* the bytes (raw_span_data.h:134).
THEOREM KeysCompareAsAssumed == CopySpec => []ComparesTruncated
<1>1. CopyTypeOK /\ KeepsWholeCharacters /\ KeyIsFound => ComparesTruncated
  <2> SUFFICES ASSUME CopyTypeOK, KeepsWholeCharacters, KeyIsFound, phase = "done"
               PROVE  /\ held = TruncatedBytes[Bytes(src)]
                      /\ \A k \in Strings : \A b \in Given(k) :
                           key_equals(b, dest) <=> held = TruncatedBytes[Bytes(k)]
    BY DEF ComparesTruncated
  <2>1. held = Kept(src) /\ Kept(src) = TruncatedBytes[Bytes(src)]
    BY TruncatedIs DEF KeepsWholeCharacters, CopyTypeOK
  <2>2. \A k \in Strings : TruncatedBytes[Bytes(k)] = Kept(k)
    BY TruncatedIs, StringsAssumption
  <2> QED
    BY <2>1, <2>2 DEF KeyIsFound
<1> QED
  BY <1>1, StringTypeCorrect, CharactersStayWhole, KeysAreFound, PTL

-----------------------------------------------------------------------------
HIDE ArrayAssumption
USE AttributesAssumption

-----------------------------------------------------------------------------
(* The inductive invariant                                                 *)

\* The key being set, as it is stored.
NewKey == Truncated[call[1]]

\* Which attribute a call sets: one that has the key already, or the next free
\* one, in a span that does not have the key.
Target ==
  pc \in Setting =>
    /\ call \in Key \X AnyValue
    /\ \/ index \in Used /\ key[index] = NewKey
       \/ IsNew /\ \A i \in Used : key[i] # NewKey

\* Where each step finds the attribute.
Progress ==
  /\ pc \in {"zero_key", "copy_key", "count"} => IsNew
  /\ pc \in {"copy_value", "count"} => key[index] = NewKey
  /\ pc = "count" => value[index] = call[2]

Outside ==
  /\ pc \notin Setting => index = 0 /\ call = NoCall
  /\ pc = "no_span" => attr_count = 0

IInv == TypeOK /\ OneAttributePerKey /\ Target /\ Progress /\ Outside

LEMMA InitIInv == Init => IInv
BY DEF Init, IInv, TypeOK, OneAttributePerKey, Target, Progress, Outside, Blank, Attr, Used, PC,
       Setting, AnyValue

LEMMA AddSpanKeeps ==
  ASSUME IInv, NEW list \in InitialList, AddSpan(list)
  PROVE  IInv'
<1> DEFINE n == IF Len(list) <= max_attributes THEN Len(list) ELSE max_attributes
<1>1. PICK m \in 0 .. MaxInitial :
        /\ list \in [1 .. m -> Key \X AnyValue]
        /\ \A i, j \in 1 .. m : Truncated[list[i][1]] = Truncated[list[j][1]] => i = j
  BY DEF InitialList
<1>2. Len(list) = m /\ n \in 0 .. max_attributes /\ n <= m
  BY <1>1
<1>3. /\ attr_count' = n
      /\ key' = [i \in Attr |-> IF i < n THEN Truncated[list[i + 1][1]] ELSE Empty]
      /\ value' = [i \in Attr |-> IF i < n THEN list[i + 1][2] ELSE Empty]
      /\ pc = "no_span" /\ pc' = "idle" /\ index' = index /\ call' = call
  BY DEF AddSpan
<1> HIDE DEF n
<1>4. \A i \in 0 .. (n - 1) : /\ i \in Attr
                              /\ i + 1 \in 1 .. m
                              /\ list[i + 1][1] \in Key /\ list[i + 1][2] \in AnyValue
                              /\ Truncated[list[i + 1][1]] \in Stored
  BY <1>1, <1>2 DEF Attr, Stored
<1>5. TypeOK'
  <2>1. key' \in [Attr -> Stored \cup {Empty}]
    BY <1>2, <1>3, <1>4 DEF Attr
  <2>2. value' \in [Attr -> AnyValue \cup {Cut}]
    BY <1>2, <1>3, <1>4 DEF Attr, AnyValue
  <2>3. QED BY <1>2, <1>3, <2>1, <2>2 DEF IInv, TypeOK, PC
<1>6. OneAttributePerKey'
  <2> SUFFICES ASSUME NEW i \in 0 .. (n - 1), NEW j \in 0 .. (n - 1)
               PROVE  key'[i] \in Stored /\ (key'[i] = key'[j] => i = j)
    BY <1>3 DEF OneAttributePerKey, Used
  <2>1. key'[i] = Truncated[list[i + 1][1]] /\ key'[j] = Truncated[list[j + 1][1]]
    BY <1>2, <1>3, <1>4
  <2>2. i + 1 \in 1 .. m /\ j + 1 \in 1 .. m /\ Truncated[list[i + 1][1]] \in Stored
    BY <1>4
  <2>3. Truncated[list[i + 1][1]] = Truncated[list[j + 1][1]] => i + 1 = j + 1
    BY <1>1, <2>2
  <2>4. QED BY <2>1, <2>2, <2>3
<1>7. Target' /\ Progress' /\ Outside'
  BY <1>3 DEF IInv, Target, Progress, Outside, Setting
<1>8. QED BY <1>5, <1>6, <1>7 DEF IInv

LEMMA SetExistingKeeps ==
  ASSUME IInv, NEW k \in Key, NEW v \in AnyValue, NEW i \in Attr, SetExisting(k, v, i)
  PROVE  IInv'
<1> USE DEF IInv, SetExisting, Finds, key_equals_at, file, Attr, Used, Setting, PC, AnyValue,
            Stored, IsNew, NewKey
<1>1. TypeOK'
  BY DEF TypeOK, Target
<1>2. OneAttributePerKey'
  BY DEF TypeOK, OneAttributePerKey, Target, Progress
<1>3. Target' /\ Progress' /\ Outside'
  BY DEF TypeOK, Target, Progress, Outside
<1>4. QED BY <1>1, <1>2, <1>3

LEMMA SetNewKeeps ==
  ASSUME IInv, NEW k \in Key, NEW v \in AnyValue, SetNew(k, v)
  PROVE  IInv'
<1> USE DEF IInv, SetNew, key_equals_at, file, Attr, Used, Setting, PC, AnyValue, Stored, IsNew, NewKey
<1>1. TypeOK'
  BY DEF TypeOK, Target
<1>2. OneAttributePerKey'
  BY DEF TypeOK, OneAttributePerKey, Target, Progress
<1>3. Target' /\ Progress' /\ Outside'
  BY DEF TypeOK, Target, Progress, Outside
<1>4. QED BY <1>1, <1>2, <1>3

LEMMA ZeroKeyKeeps ==
  ASSUME IInv, ZeroKey
  PROVE  IInv'
<1> USE DEF IInv, ZeroKey, file, Attr, Used, Setting, PC, AnyValue, Stored, IsNew, NewKey
<1>1. TypeOK'
  BY DEF TypeOK, Target
<1>2. OneAttributePerKey'
  BY DEF TypeOK, OneAttributePerKey, Target, Progress
<1>3. Target' /\ Progress' /\ Outside'
  BY DEF TypeOK, Target, Progress, Outside
<1>4. QED BY <1>1, <1>2, <1>3

LEMMA ZeroValuePartKeeps ==
  ASSUME IInv, ZeroValuePart
  PROVE  IInv'
<1> USE DEF IInv, ZeroValuePart, file, Attr, Used, Setting, PC, AnyValue, Stored, IsNew, NewKey
<1>1. TypeOK'
  BY DEF TypeOK, Target
<1>2. OneAttributePerKey'
  BY DEF TypeOK, OneAttributePerKey, Target, Progress
<1>3. Target' /\ Progress' /\ Outside'
  BY DEF TypeOK, Target, Progress, Outside
<1>4. QED BY <1>1, <1>2, <1>3

LEMMA ZeroValueKeeps ==
  ASSUME IInv, ZeroValue
  PROVE  IInv'
<1> USE DEF IInv, ZeroValue, file, Attr, Used, Setting, PC, AnyValue, Stored, IsNew, NewKey
<1>1. TypeOK'
  BY DEF TypeOK, Target
<1>2. OneAttributePerKey'
  BY DEF TypeOK, OneAttributePerKey, Target, Progress
<1>3. Target' /\ Progress' /\ Outside'
  BY DEF TypeOK, Target, Progress, Outside
<1>4. QED BY <1>1, <1>2, <1>3

LEMMA CopyKeyKeeps ==
  ASSUME IInv, CopyKey
  PROVE  IInv'
<1> USE DEF IInv, CopyKey, file, Attr, Used, Setting, PC, AnyValue, Stored, IsNew, NewKey
<1>1. TypeOK'
  <2>1. Truncated[call[1]] \in Stored
    BY DEF Target
  <2>2. key' \in [Attr -> Stored \cup {Empty}]
    BY <2>1 DEF TypeOK
  <2>3. QED BY <2>2 DEF TypeOK
<1>2. OneAttributePerKey'
  BY DEF TypeOK, OneAttributePerKey, Target, Progress
<1>3. Target' /\ Progress' /\ Outside'
  BY DEF TypeOK, Target, Progress, Outside
<1>4. QED BY <1>1, <1>2, <1>3

LEMMA CopyValuePartKeeps ==
  ASSUME IInv, CopyValuePart
  PROVE  IInv'
<1> USE DEF IInv, CopyValuePart, file, Attr, Used, Setting, PC, AnyValue, Stored, IsNew, NewKey
<1>1. TypeOK'
  BY DEF TypeOK, Target
<1>2. OneAttributePerKey'
  BY DEF TypeOK, OneAttributePerKey, Target, Progress
<1>3. Target' /\ Progress' /\ Outside'
  BY DEF TypeOK, Target, Progress, Outside
<1>4. QED BY <1>1, <1>2, <1>3

LEMMA CopyValueKeeps ==
  ASSUME IInv, CopyValue
  PROVE  IInv'
<1> USE DEF IInv, CopyValue, Returns, file, Attr, Used, Setting, PC, AnyValue, Stored, IsNew, NewKey
<1>1. TypeOK'
  BY DEF TypeOK, Target
<1>2. OneAttributePerKey'
  BY DEF TypeOK, OneAttributePerKey, Target, Progress
<1>3. Target' /\ Progress' /\ Outside'
  BY DEF TypeOK, Target, Progress, Outside
<1>4. QED BY <1>1, <1>2, <1>3

LEMMA CountKeeps ==
  ASSUME IInv, Count
  PROVE  IInv'
<1> USE DEF IInv, Count, Returns, file, Attr, Used, Setting, PC, AnyValue, Stored, IsNew, NewKey
<1>1. TypeOK'
  BY DEF TypeOK, Target, Progress
<1>2. OneAttributePerKey'
  BY DEF TypeOK, OneAttributePerKey, Target, Progress
<1>3. Target' /\ Progress' /\ Outside'
  BY DEF TypeOK, Target, Progress, Outside
<1>4. QED BY <1>1, <1>2, <1>3

LEMMA CrashKeeps ==
  ASSUME IInv, Crash
  PROVE  IInv'
<1> USE DEF IInv, Crash, Returns, file, Attr, Used, Setting, PC, AnyValue, Stored, IsNew, NewKey
<1>1. TypeOK'
  BY DEF TypeOK, Target
<1>2. OneAttributePerKey'
  BY DEF TypeOK, OneAttributePerKey, Target, Progress
<1>3. Target' /\ Progress' /\ Outside'
  BY DEF TypeOK, Target, Progress, Outside
<1>4. QED BY <1>1, <1>2, <1>3

LEMMA RemoveAllKeeps ==
  ASSUME IInv, RemoveAll
  PROVE  IInv'
<1> USE DEF IInv, RemoveAll, Blank, file, Attr, Used, Setting, PC, AnyValue, Stored, IsNew, NewKey
<1>1. TypeOK'
  BY DEF TypeOK, Target
<1>2. OneAttributePerKey'
  BY DEF TypeOK, OneAttributePerKey, Target, Progress
<1>3. Target' /\ Progress' /\ Outside'
  BY DEF TypeOK, Target, Progress, Outside
<1>4. QED BY <1>1, <1>2, <1>3

LEMMA NextKeeps == ASSUME IInv, [Next]_vars PROVE IInv'
<1>1. CASE UNCHANGED vars
  BY <1>1 DEF vars, IInv, TypeOK, OneAttributePerKey, Target, Progress, Outside, Used, IsNew, NewKey
<1>2. QED
  BY <1>1, AddSpanKeeps, SetExistingKeeps, SetNewKeeps, ZeroKeyKeeps, ZeroValuePartKeeps,
     ZeroValueKeeps, CopyKeyKeeps, CopyValuePartKeeps, CopyValueKeeps, CountKeeps, CrashKeeps,
     RemoveAllKeeps
     DEF Next

LEMMA Invariant == Spec => []IInv
<1>1. QED BY InitIInv, NextKeeps, PTL DEF Spec

-----------------------------------------------------------------------------
(* What the slot shows                                                     *)

LEMMA ShownIs ==
  ASSUME OneAttributePerKey
  PROVE  /\ Shown = [k \in {key[i] : i \in Used} |-> Shown[k]]
         /\ \A i \in Used : Shown[key[i]] = value[i]
<1>1. ASSUME NEW i \in Used PROVE Shown[key[i]] = value[i]
  <2> DEFINE c == CHOOSE j \in Used : key[j] = key[i]
  <2>1. c \in Used /\ key[c] = key[i]
    OBVIOUS
  <2>2. c = i
    BY <2>1 DEF OneAttributePerKey
  <2>3. QED BY <2>2 DEF Shown
<1>2. Shown = [k \in {key[i] : i \in Used} |-> Shown[k]]
  BY DEF Shown
<1>3. QED BY <1>1, <1>2

LEMMA ShownTwice ==
  ASSUME OneAttributePerKey, OneAttributePerKey'
  PROVE  /\ Shown = [k \in {key[i] : i \in Used} |-> Shown[k]]
         /\ Shown' = [k \in {key'[i] : i \in Used'} |-> Shown'[k]]
         /\ \A i \in Used : Shown[key[i]] = value[i]
         /\ \A i \in Used' : Shown'[key'[i]] = value'[i]
<1>1. OneAttributePerKey => /\ Shown = [k \in {key[i] : i \in Used} |-> Shown[k]]
                            /\ \A i \in Used : Shown[key[i]] = value[i]
  BY ShownIs
<1>2. (OneAttributePerKey => /\ Shown = [k \in {key[i] : i \in Used} |-> Shown[k]]
                             /\ \A i \in Used : Shown[key[i]] = value[i])'
  BY ShownIs, PTL
<1>3. QED BY <1>1, <1>2

\* A store to an attribute that is not counted does not show.
LEMMA ShowsNothing ==
  ASSUME OneAttributePerKey, OneAttributePerKey', UNCHANGED attr_count,
         \A i \in Used : key'[i] = key[i] /\ value'[i] = value[i]
  PROVE  Shown' = Shown
<1>1. Used' = Used
  BY DEF Used
<1>2. {key'[i] : i \in Used'} = {key[i] : i \in Used}
  BY <1>1
<1>3. ASSUME NEW k \in {key[i] : i \in Used} PROVE Shown'[k] = Shown[k]
  <2>1. PICK i \in Used : k = key[i]
    OBVIOUS
  <2>2. QED BY <1>1, <2>1, ShownTwice
<1>4. QED BY <1>2, <1>3, ShownTwice

\* A store to the value of a counted attribute replaces the value of its key.
LEMMA ShowsReplaced ==
  ASSUME OneAttributePerKey, OneAttributePerKey', UNCHANGED <<attr_count, key>>, TypeOK,
         index \in Used, NEW x, value' = [value EXCEPT ![index] = x], attr_count \in Nat
  PROVE  /\ Shown' = [Shown EXCEPT ![key[index]] = x]
         /\ key[index] \in DOMAIN Shown
<1>1. Used' = Used /\ \A i \in Used : i \in Attr
  BY DEF Used, TypeOK, Attr
<1>2. {key'[i] : i \in Used'} = {key[i] : i \in Used}
  BY <1>1
<1>3. key[index] \in DOMAIN Shown
  BY DEF Shown
<1>4. ASSUME NEW k \in {key[i] : i \in Used}
      PROVE  Shown'[k] = IF k = key[index] THEN x ELSE Shown[k]
  <2>1. PICK i \in Used : k = key[i]
    OBVIOUS
  <2>2. Shown'[k] = value'[i] /\ Shown[k] = value[i]
    BY <1>1, <2>1, ShownTwice
  <2>3. value'[i] = IF i = index THEN x ELSE value[i]
    BY <1>1 DEF TypeOK
  <2>4. k = key[index] <=> i = index
    BY <2>1 DEF OneAttributePerKey
  <2>5. QED BY <2>2, <2>3, <2>4
<1>5. QED BY <1>2, <1>3, <1>4, ShownTwice

\* Counting an attribute adds its key and value.
LEMMA ShowsAdded ==
  ASSUME OneAttributePerKey, OneAttributePerKey', UNCHANGED <<key, value>>,
         attr_count \in Nat, attr_count' = attr_count + 1
  PROVE  Shown' = [q \in DOMAIN Shown \cup {key[attr_count]} |->
                     IF q = key[attr_count] THEN value[attr_count] ELSE Shown[q]]
<1>1. Used' = Used \cup {attr_count} /\ attr_count \notin Used
  BY DEF Used
<1>2. DOMAIN Shown = {key[i] : i \in Used}
  BY DEF Shown
<1>3. {key'[i] : i \in Used'} = {key[i] : i \in Used} \cup {key[attr_count]}
  BY <1>1
<1>4. ASSUME NEW k \in {key'[i] : i \in Used'}
      PROVE  Shown'[k] = IF k = key[attr_count] THEN value[attr_count] ELSE Shown[k]
  <2>1. PICK i \in Used' : k = key'[i]
    OBVIOUS
  <2>2. Shown'[k] = value'[i]
    BY <2>1, ShownTwice
  <2>3. CASE i = attr_count
    BY <2>1, <2>2, <2>3
  <2>4. CASE i \in Used
    <3>1. k # key[attr_count]
      BY <1>1, <2>1, <2>4 DEF OneAttributePerKey
    <3>2. Shown[k] = value[i]
      BY <2>1, <2>4, ShownTwice
    <3>3. QED BY <2>2, <3>1, <3>2
  <2>5. QED BY <1>1, <2>3, <2>4
<1>5. QED BY <1>2, <1>3, <1>4, ShownTwice

LEMMA SameCardinality == \A S : Map!Cardinality(S) = Cardinality(S)
BY DEF Map!Cardinality, Cardinality

\* A span has at most as many keys as it counts.
LEMMA KeysCounted ==
  ASSUME TypeOK
  PROVE  /\ Cardinality(DOMAIN Shown) <= attr_count
         /\ Cardinality(DOMAIN Shown) \in Nat
<1> DEFINE f == [j \in 1 .. attr_count |-> key[j - 1]]
           S == {key[i] : i \in Used}
<1>1. attr_count \in Nat
  BY DEF TypeOK
<1>2. f \in [1 .. attr_count -> S]
  <2>1. \A j \in 1 .. attr_count : j - 1 \in Used
    BY <1>1 DEF Used
  <2>2. QED BY <2>1
<1>3. ASSUME NEW x \in S PROVE \E j \in 1 .. attr_count : f[j] = x
  <2>1. PICK i \in Used : x = key[i]
    OBVIOUS
  <2>2. i + 1 \in 1 .. attr_count /\ (i + 1) - 1 = i
    BY <1>1 DEF Used
  <2>3. QED BY <2>1, <2>2
<1>4. f \in Surjection(1 .. attr_count, S)
  <2> HIDE DEF f, S
  <2>1. QED BY <1>2, <1>3 DEF Surjection
<1>5. IsFiniteSet(S) /\ Cardinality(S) <= attr_count
  <2> HIDE DEF f, S
  <2>1. ExistsSurjection(1 .. attr_count, S)
    BY <1>4 DEF ExistsSurjection
  <2>2. IsFiniteSet(1 .. attr_count) /\ Cardinality(1 .. attr_count) = attr_count
    BY <1>1, FS_Interval
  <2>3. IsFiniteSet(S)
    BY <1>4, <2>2, FS_Surjection
  <2>4. QED BY <1>1, <2>1, <2>3, FS_SurjCardinalityBound
<1>6. Cardinality(S) \in Nat
  <2> HIDE DEF S
  <2>1. QED BY <1>5, FS_CardinalityType
<1>7. DOMAIN Shown = S
  BY DEF Shown
<1>8. QED BY <1>5, <1>6, <1>7

-----------------------------------------------------------------------------
(* The refinement                                                          *)

LEMMA InitRefines == Init => Map!Init
<1> SUFFICES ASSUME Init PROVE Map!Init
  OBVIOUS
<1>1. {key[i] : i \in Used} = {}
  BY DEF Init, Used
<1>2. Shown = [k \in {} |-> Empty]
  BY <1>1 DEF Shown
<1>3. QED BY <1>2 DEF Init, BeingSet, CanSet, Map!Init, Map!NoAttributes, Setting

LEMMA AddSpanRefines ==
  ASSUME IInv, IInv', NEW list \in InitialList, AddSpan(list)
  PROVE  Map!Next
<1>1. Shown = [k \in {} |-> Empty]
  <2>1. attr_count = 0
    BY DEF AddSpan, IInv, Outside
  <2>2. {key[i] : i \in Used} = {}
    BY <2>1 DEF Used
  <2>3. QED BY <2>2 DEF Shown
<1>2. Shown' \in [DOMAIN Shown' -> Value \cup {Empty}] /\ DOMAIN Shown' \in SUBSET Key
  <2>1. (OneAttributePerKey => /\ Shown = [k \in {key[i] : i \in Used} |-> Shown[k]]
                               /\ \A i \in Used : Shown[key[i]] = value[i])'
    BY ShownIs, PTL
  <2>2. ASSUME NEW i \in Used' PROVE key'[i] \in Key /\ value'[i] \in Value \cup {Empty}
    <3>1. key'[i] \in Key
      BY DEF IInv, OneAttributePerKey, Stored
    <3>2. PICK m \in 0 .. MaxInitial : list \in [1 .. m -> Key \X AnyValue]
      BY DEF InitialList
    <3>3. Len(list) = m
      BY <3>2
    <3>4. attr_count' <= m /\ attr_count' \in 0 .. max_attributes
      BY <3>3 DEF AddSpan
    <3>5. i \in Attr /\ i + 1 \in 1 .. m /\ i < attr_count'
      <4>1. attr_count' \in Nat /\ attr_count' <= m /\ attr_count' <= max_attributes
        BY <3>4
      <4>2. m \in Nat /\ max_attributes \in Nat
        OBVIOUS
      <4>3. i \in 0 .. (attr_count' - 1)
        BY DEF Used
      <4>4. i \in Nat /\ i < attr_count'
        <5>1. PICK c \in Nat : c = attr_count'
          BY <4>1
        <5>2. i \in 0 .. (c - 1)
          BY <4>3, <5>1
        <5> HIDE AttributesAssumption
        <5>3. i \in Nat /\ i < c
          BY <5>2
        <5>4. QED BY <5>1, <5>3
      <4>5. QED BY <4>1, <4>2, <4>4 DEF Attr
    <3>6. value'[i] = list[i + 1][2]
      BY <3>5 DEF AddSpan
    <3>7. list[i + 1] \in Key \X AnyValue
      BY <3>2, <3>5
    <3>8. QED BY <3>1, <3>6, <3>7 DEF AnyValue
  <2>3. DOMAIN Shown' = {key'[i] : i \in Used'}
    BY DEF Shown
  <2>4. ASSUME NEW k \in DOMAIN Shown' PROVE Shown'[k] \in Value \cup {Empty} /\ k \in Key
    <3>1. PICK i \in Used' : k = key'[i]
      BY <2>3
    <3>2. QED BY <2>1, <2>2, <3>1 DEF IInv
  <2>5. Shown' = [k \in DOMAIN Shown' |-> Shown'[k]]
    BY <2>1, <2>3 DEF IInv
  <2>6. QED BY <2>4, <2>5
<1>3. Map!Cardinality(DOMAIN Shown') <= max_attributes
  <2>1. (TypeOK => /\ Cardinality(DOMAIN Shown) <= attr_count
                   /\ Cardinality(DOMAIN Shown) \in Nat)'
    BY KeysCounted, PTL
  <2>2. attr_count' \in 0 .. max_attributes
    BY DEF IInv, TypeOK
  <2>3. QED BY <2>1, <2>2, SameCardinality DEF IInv
<1>4. pc = "no_span" /\ pc' = "idle"
  BY DEF AddSpan
<1>5. Map!AddSpan(Shown')
  BY <1>1, <1>3, <1>4 DEF Map!AddSpan, Map!NoAttributes, BeingSet, CanSet, Setting
<1>6. QED BY <1>2, <1>5 DEF Map!Next

LEMMA BeginRefines ==
  ASSUME IInv, NEW k \in Key, NEW v \in AnyValue,
         \/ \E i \in Attr : SetExisting(k, v, i)
         \/ SetNew(k, v)
  PROVE  Map!Next
<1>1. /\ pc = "idle" /\ pc' \in Setting /\ call' = <<k, v>>
      /\ UNCHANGED <<attr_count, key, value>>
  BY DEF SetExisting, SetNew, file, Setting
<1>2. Shown' = Shown
  BY <1>1 DEF Shown, Used
<1>3. Truncated[k] \in DOMAIN Shown \/ Map!Cardinality(DOMAIN Shown) < max_attributes
  <2>1. CASE \E i \in Attr : SetExisting(k, v, i)
    BY <2>1 DEF SetExisting, Finds, key_equals_at, Shown
  <2>2. CASE SetNew(k, v)
    <3>1. attr_count \in Nat /\ attr_count < max_attributes
      BY <2>2 DEF SetNew, IInv, TypeOK
    <3>2. Cardinality(DOMAIN Shown) <= attr_count /\ Cardinality(DOMAIN Shown) \in Nat
      BY KeysCounted DEF IInv
    <3>3. QED BY <3>1, <3>2, SameCardinality
  <2>3. QED BY <2>1, <2>2
<1>4. Map!BeginSet(Truncated[k], v)
  BY <1>1, <1>2, <1>3 DEF Map!BeginSet, Map!Keys, BeingSet, CanSet, Setting
<1>5. Truncated[k] \in Key /\ v \in Value \cup {Empty}
  BY DEF AnyValue
<1>6. QED BY <1>4, <1>5 DEF Map!Next

\* What a call does to an attribute that is not counted yet does not show.
LEMMA NewRefines ==
  ASSUME IInv, IInv', IsNew, pc \in Setting, pc' \in Setting, UNCHANGED <<attr_count, index, call>>,
         UNCHANGED key \/ \E x : key' = [key EXCEPT ![index] = x],
         UNCHANGED value \/ \E x : value' = [value EXCEPT ![index] = x]
  PROVE  UNCHANGED Map!vars
<1>1. \A i \in Used : i # index /\ i \in Attr
  BY DEF IsNew, Used, IInv, TypeOK, Attr
<1>2. \A i \in Used : key'[i] = key[i] /\ value'[i] = value[i]
  BY <1>1 DEF IInv, TypeOK
<1>3. Shown' = Shown
  BY <1>2, ShowsNothing DEF IInv
<1>4. QED BY <1>3 DEF Map!vars, BeingSet, CanSet

\* What it does to a value that shows is a step of the map.
LEMMA ExistingRefines ==
  ASSUME IInv, IInv', ~IsNew, pc \in Setting, UNCHANGED <<attr_count, key>>,
         NEW x, value' = [value EXCEPT ![index] = x],
         \/ x \in {Empty, Cut} /\ pc' \in Setting /\ UNCHANGED call
         \/ x = call[2] /\ pc' = "idle"
  PROVE  Map!Next
<1>1. /\ index \in Used /\ key[index] = NewKey /\ attr_count \in Nat
      /\ call[1] \in Key /\ call[2] \in AnyValue
  BY DEF IInv, Target, TypeOK
<1>2. /\ Shown' = [Shown EXCEPT ![NewKey] = x]
      /\ NewKey \in DOMAIN Shown
  BY <1>1, ShowsReplaced DEF IInv
<1>3. PICK k \in Key, v \in Value \cup {Empty} : k = NewKey /\ v = call[2]
  BY <1>1 DEF NewKey, AnyValue
<1>4. <<k, v>> \in BeingSet
  BY <1>3 DEF BeingSet, NewKey
<1>5. CASE x \in {Empty, Cut} /\ pc' \in Setting /\ UNCHANGED call
  <2>1. UNCHANGED <<BeingSet, CanSet>>
    BY <1>5 DEF BeingSet, CanSet
  <2>2. Map!Disturb(k, v)
    BY <1>2, <1>3, <1>4, <1>5, <2>1 DEF Map!Disturb, Map!Keys
  <2>3. QED BY <2>2 DEF Map!Next
<1>6. CASE x = call[2] /\ pc' = "idle"
  <2>1. Shown' = [q \in DOMAIN Shown \cup {k} |-> IF q = k THEN v ELSE Shown[q]]
    BY <1>2, <1>3, <1>6
  <2>2. BeingSet' = {} /\ UNCHANGED CanSet
    BY <1>6 DEF BeingSet, CanSet, Setting
  <2>3. Map!CompleteSet(k, v)
    BY <1>4, <2>1, <2>2 DEF Map!CompleteSet, Map!With, Map!Keys
  <2>4. QED BY <2>3 DEF Map!Next
<1>7. QED BY <1>5, <1>6

LEMMA CountRefines ==
  ASSUME IInv, IInv', Count
  PROVE  Map!Next
<1>1. /\ key[attr_count] = NewKey /\ value[attr_count] = call[2] /\ attr_count \in Nat
      /\ call[1] \in Key /\ call[2] \in AnyValue
  BY DEF Count, IInv, Progress, Target, TypeOK, Setting, IsNew
<1>2. PICK k \in Key, v \in Value \cup {Empty} : k = NewKey /\ v = call[2]
  BY <1>1 DEF NewKey, AnyValue
<1>3. Shown' = [q \in DOMAIN Shown \cup {k} |-> IF q = k THEN v ELSE Shown[q]]
  BY <1>1, <1>2, ShowsAdded DEF Count, IInv
<1>4. <<k, v>> \in BeingSet /\ BeingSet' = {} /\ UNCHANGED CanSet
  BY <1>2 DEF Count, BeingSet, CanSet, Setting, NewKey
<1>5. Map!CompleteSet(k, v)
  BY <1>3, <1>4 DEF Map!CompleteSet, Map!With, Map!Keys
<1>6. QED BY <1>5 DEF Map!Next

LEMMA CrashRefines ==
  ASSUME IInv, Crash
  PROVE  Map!Next
<1>1. /\ pc \in Setting \cup {"idle"}
      /\ pc' = "crashed" /\ UNCHANGED <<attr_count, key, value>>
  BY DEF Crash, file, IInv, TypeOK, PC
<1>2. Shown' = Shown
  BY <1>1 DEF Shown, Used
<1>3. QED BY <1>1, <1>2 DEF Crash, Map!Next, Map!Crash, BeingSet, CanSet, Setting

LEMMA RemoveAllRefines ==
  ASSUME RemoveAll
  PROVE  Map!Next
<1>1. Used' = {}
  BY DEF RemoveAll, Used
<1>2. Shown' = [k \in {} |-> Empty]
  BY <1>1 DEF Shown
<1>3. QED BY <1>2 DEF RemoveAll, Map!Next, Map!Clear, Map!NoAttributes, BeingSet, CanSet, Setting

LEMMA StepRefines ==
  ASSUME IInv, IInv', [Next]_vars
  PROVE  [Map!Next]_Map!vars
<1> USE DEF Setting
<1>1. CASE \E list \in InitialList : AddSpan(list)
  BY <1>1, AddSpanRefines
<1>2. CASE \E k \in Key, v \in AnyValue : SetNew(k, v) \/ \E i \in Attr : SetExisting(k, v, i)
  BY <1>2, BeginRefines
<1>3. CASE ZeroKey \/ CopyKey
  BY <1>3, NewRefines DEF ZeroKey, CopyKey, IInv, Progress
<1>4. CASE ZeroValuePart \/ ZeroValue \/ CopyValuePart
  <2>1. PICK x \in {Empty, Cut} : value' = [value EXCEPT ![index] = x]
    BY <1>4 DEF ZeroValuePart, ZeroValue, CopyValuePart
  <2>2. /\ pc \in Setting /\ pc' \in Setting
        /\ UNCHANGED <<attr_count, key, index, call>>
    BY <1>4 DEF ZeroValuePart, ZeroValue, CopyValuePart
  <2>3. CASE IsNew
    BY <2>1, <2>2, <2>3, NewRefines
  <2>4. CASE ~IsNew
    BY <2>1, <2>2, <2>4, ExistingRefines
  <2>5. QED BY <2>3, <2>4
<1>5. CASE CopyValue
  <2>1. CASE IsNew
    BY <1>5, <2>1, NewRefines DEF CopyValue
  <2>2. CASE ~IsNew
    BY <1>5, <2>2, ExistingRefines DEF CopyValue
  <2>3. QED BY <2>1, <2>2
<1>6. CASE Count \/ Crash \/ RemoveAll
  BY <1>6, CountRefines, CrashRefines, RemoveAllRefines
<1>7. CASE UNCHANGED vars
  BY <1>7 DEF vars, Map!vars, Shown, BeingSet, CanSet, Used
<1>8. QED BY <1>1, <1>2, <1>3, <1>4, <1>5, <1>6, <1>7 DEF Next

-----------------------------------------------------------------------------
(* Theorems                                                                *)

\* The slot's count, keys and values stay in their ranges at every store of a
\* call and after a crash between any two.
THEOREM TypeCorrect == Spec => []TypeOK
<1>1. IInv => TypeOK
  BY DEF IInv
<1>2. QED BY <1>1, Invariant, PTL

\* No two attributes a span counts have the same stored key, at any store, for
\* any truncation of keys (raw_span_data.h:134, :145).
THEOREM KeysAreDistinct == Spec => []OneAttributePerKey
<1>1. IInv => OneAttributePerKey
  BY DEF IInv
<1>2. QED BY <1>1, Invariant, PTL

\* The stores implement a bounded map from stored keys to values
\* (set_attribute_on_span, raw_span_data.h:125, and to_raw_span, span.h:113).
THEOREM AttributeStoreImplementsMap == Spec => ImplementsMap
<1>1. QED BY InitRefines, StepRefines, Invariant, PTL DEF Spec, ImplementsMap, Map!Spec
=============================================================================
