---------------------------- MODULE MCPriceLoad ----------------------------
(* Instances of PriceLoad for TLC.  A bar is a price and a volume: two low    *)
(* ones that differ by an odd lot, and a high one further from both than the    *)
(* ratios of the guard.                                                         *)
EXTENDS PriceLoad

CONSTANTS
  RoundLot,  \* [prices] restatement_min_volume, on the scale of the volumes
  l1, l2     \* sessions

OneBar == [px : {1}, vol : {3}]
MCBar == {[px |-> 1, vol |-> 1], [px |-> 1, vol |-> 2], [px |-> 3, vol |-> 3]}

OddLot(a, b) == a.vol # b.vol /\ a.vol <= RoundLot /\ b.vol <= RoundLot
MCRestates(a, b) == a.px # b.px \/ (a.vol # b.vol /\ ~OddLot(a, b))
MCKept(a, b) == IF OddLot(a, b) THEN [b EXCEPT !.vol = a.vol] ELSE b
MCAtSplitScale(a, b) == b.px > a.px
=============================================================================
