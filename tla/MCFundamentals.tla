--------------------------- MODULE MCFundamentals ---------------------------
(* Instances of Fundamentals for TLC.                                          *)
EXTENDS Fundamentals, TLC

Symmetry == Permutations(Figures)
=============================================================================
