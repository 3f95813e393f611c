---------------------------- MODULE MCSharedFile ----------------------------
(* TLC instance of SharedFile.                                              *)
EXTENDS SharedFile, TLC

CONSTANTS s1, s2, s3, c1, c2, Small, Medium

MCSpanId == {s1, s2, s3}
MCContext == {c1, c2}
MCMmapSize == {Small, Medium}
MCMaxCount == [L \in MCMmapSize |-> IF L = Small THEN 1 ELSE 2]
MCSymmetry == Permutations(MCSpanId) \cup Permutations(MCContext)
=============================================================================
