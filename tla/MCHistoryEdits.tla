--------------------------- MODULE MCHistoryEdits ---------------------------
(* Three dates.  FMP serves bars of the source's ticker on the first and the last and   *)
(* a dividend between them; Sharadar the source's own issuer on the first, and the      *)
(* other row on both, one as FMP has it.                                                *)
EXTENDS HistoryEdits

MCFeed == [x \in Serving \X Secs \X Keys |->
    CASE x[1] = "fmp" /\ x[2] = Src /\ x[3] \in {<<"bar", 1>>, <<"bar", 3>>, <<"action", 2>>} -> 1
      [] x[1] = "sharadar" /\ x[2] = Src /\ x[3] = <<"bar", 1>> -> 2
      [] x[1] = "sharadar" /\ x[2] = Dst /\ x[3] = <<"bar", 1>> -> 1
      [] x[1] = "sharadar" /\ x[2] = Dst /\ x[3] = <<"bar", 3>> -> 2
      [] OTHER -> None]

\* A session without a row between the two.
MCSubjects == {<<"gap", 2>>}

MCOwn == [v \in Serving |-> IF v = "fmp" THEN 1 ELSE 2]
=============================================================================
