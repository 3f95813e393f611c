------------------------- MODULE MCMutableSpanData -------------------------
(* TLC instance of MutableSpanData.                                        *)
EXTENDS MutableSpanData, TLC

CONSTANTS s1, s2, s3, s4, t1, a1

MCSpanId == {s1, s2, s3, s4}
MCTime == {t1}
MCAttributes == {a1}
MCSymmetry == Permutations(MCSpanId)
=============================================================================
