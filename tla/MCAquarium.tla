----------------------------- MODULE MCAquarium -----------------------------
(* Three regions of two blocks: pools fill up, are appended, emptied and     *)
(* unlinked from the middle and the end of the chain, and mapped again,      *)
(* while the first keeps its pinned block.                                   *)
EXTENDS Aquarium, TLC
Symmetry == Permutations(Region)
=============================================================================
