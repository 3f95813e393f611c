---------------------------- MODULE MCManagedMmap ----------------------------
(* TLC instance of ManagedMmap: the types of the program with the sizes of   *)
(* their layouts, of which the largest does not fit the smaller mapping.     *)
EXTENDS ManagedMmap, TLC

CONSTANTS o1, o2, o3, a1, a2, a3, Header, Layout

MCObject == {o1, o2, o3}
MCType == {Header, Layout}
MCSizeof == (Header :> 1) @@ (Layout :> 2)
MCAddress == {a1, a2, a3}
=============================================================================
