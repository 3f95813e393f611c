--------------------------- MODULE MCRawSpanData ---------------------------
(* TLC instance of RawSpanData: ids and times are interchangeable.         *)
EXTENDS RawSpanData, TLC

CONSTANTS s1, s2, s3, s4, t1, a1

MCSpanId == {s1, s2, s3, s4}
MCTime == {t1}
MCAttributes == {a1}
MCSymmetry == Permutations(MCSpanId)
=============================================================================
