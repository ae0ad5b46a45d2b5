------------------------------ MODULE MCRing ------------------------------
(* TLC instance of Ring: the items are interchangeable model values. *)
EXTENDS Ring, TLC

ItemSymmetry == Permutations(Item)
=============================================================================
