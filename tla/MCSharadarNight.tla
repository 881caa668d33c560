-------------------------- MODULE MCSharadarNight --------------------------
(* Instances of SharadarNight for TLC. *)
EXTENDS SharadarNight, TLC

CONSTANTS a, b \* securities: fed from the start, or listings to come

Symmetry == Permutations(Securities)
=============================================================================
