---------------------------- MODULE MCPrecedence ----------------------------
(* Instances of Precedence for TLC. *)
EXTENDS Precedence, TLC

CONSTANTS k1, k2, va, vb

MCRank == [s \in Sources |-> CASE s = "operator" -> 4
                               [] s = "sharadar" -> 3
                               [] s = "fmp" -> 1]
\* Keys and values are interchangeable: no definition compares or orders them.
MCSymmetry == Permutations({k1, k2}) \cup Permutations({va, vb})
=============================================================================
