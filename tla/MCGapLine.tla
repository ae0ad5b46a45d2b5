----------------------------- MODULE MCGapLine -----------------------------
(* TLC instance of GapLine: characters are interchangeable model values. *)
EXTENDS GapLine, TLC

CharSymmetry == Permutations(Char)
=============================================================================
