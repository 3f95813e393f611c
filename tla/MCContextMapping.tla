--------------------------- MODULE MCContextMapping ---------------------------
(* TLC instance of ContextMapping: layouts of three sizes, each of its own   *)
(* number of pages, as in mmap_config.h.                                     *)
EXTENDS ContextMapping, TLC

CONSTANTS Small, Medium, Large, a1, a2

MCMmapSize == {Small, Medium, Large}
MCSizeof == ("Header" :> 1) @@ (Small :> 3) @@ (Medium :> 5) @@ (Large :> 9)
MCAddress == {a1, a2}
=============================================================================
