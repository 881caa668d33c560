----------------------------- MODULE MCDqFlags -----------------------------
(* Instances of DqFlags for TLC. *)
EXTENDS DqFlags

CONSTANTS a, b, f1, f2, f3, f4, f5, f6, w1, w2
=============================================================================
