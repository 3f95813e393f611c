-------------------------- MODULE MCAttributeStore --------------------------
(* TLC instance of AttributeStore.                                         *)
EXTENDS AttributeStore, TLC

CONSTANTS k1, k2, k3, long, v1, v2

MCKey == {k1, k2, k3, long}
MCValue == {v1, v2}
\* One key is too long, and is stored as k1 is.
MCTruncated == [k \in MCKey |-> IF k = long THEN k1 ELSE k]
MCSymmetry == Permutations({k2, k3}) \cup Permutations(MCValue)
=============================================================================
