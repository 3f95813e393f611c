---------------------------- MODULE MCInitialize ----------------------------
(* TLC instance of Initialize.  As in mmap_config.h, the larger size has    *)
(* more spans, and larger ones, so the small file ends in the middle of a   *)
(* slot of the large layout.                                                *)
EXTENDS Initialize, TLC

CONSTANTS Small, Large, s1, s2, s3

MCSpanId == {s1, s2, s3}
MCMmapSize == {Small, Large}
MCMaxSpans == (Small :> 1) @@ (Large :> 2)
MCSlotWords == (Small :> 2) @@ (Large :> 4)
\* As header.cpp:52-55 writes them.
SourceOrder == <<"reset_count", "reset_size", "reset_version", "reset_signature">>
MCSymmetry == Permutations(MCSpanId)
=============================================================================
