------------------------- MODULE MCCorporateActions -------------------------
(* One security, reconciled every second day: three days, two amounts, and an    *)
(* overlap, a re-date window and a distance of Sharadar's of one day each.       *)
EXTENDS CorporateActions, TLC
MCBucket == [s \in Secs |-> 0]
Amounts == Permutations(Values)
=============================================================================
