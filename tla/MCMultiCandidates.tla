-------------------------- MODULE MCMultiCandidates --------------------------
(***************************************************************************)
(* Instances of MultiCandidates for TLC: one to four sieves (Two, Three    *)
(* and two sizes of Heap) over every assignment of matches to sieves.      *)
(***************************************************************************)
EXTENDS MultiCandidates

UpTo4 == 1..4
Positions3 == SUBSET (0..2)
=============================================================================
