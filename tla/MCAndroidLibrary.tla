--------------------------- MODULE MCAndroidLibrary ---------------------------
(* TLC instance of AndroidLibrary: a span with two attributes, one with one  *)
(* and one with none, recovered in any order.                                *)
EXTENDS AndroidLibrary, Integers, Sequences, TLC

CONSTANTS r1, r2, r3, s0, s1, s2, a, b, c

MCRef == {r1, r2, r3}
MCSpan == {s0, s1, s2}
MCAttribute == {a, b, c}
MCAttributes == (s0 :> << >>) @@ (s1 :> <<a>>) @@ (s2 :> <<b, c>>)
MCRecoverable == {s \in UNION {[1 .. n -> MCSpan] : n \in 0 .. 3} :
                    \A j, k \in DOMAIN s : s[j] = s[k] => j = k}
=============================================================================
