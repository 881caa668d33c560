----------------------------- MODULE MCIdentity -----------------------------
(* Instances of Identity for TLC. *)
EXTENDS Identity, TLC

CONSTANTS c1, c2, c3

\* Ticker 3 is a unit of the issue on ticker 1.
MCShuffles == {<<1, 3>>, <<3, 1>>}

Symmetric == Permutations(Companies)

\* Not all bounds at once: one event, decision or failure fewer than they allow together.
Few == events + ops + fails <= 5
=============================================================================
