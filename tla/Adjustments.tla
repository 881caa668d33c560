---------------------------- MODULE Adjustments ----------------------------
(***************************************************************************)
(* The back-adjustment of one security's prices                             *)
(* (src/src/fafnir/ingest/adjustments.py): the factor of each ex-date, their *)
(* product from the latest to the earliest, the row the adjusted view        *)
(* multiplies a session by, and the splits suspected of being one split      *)
(* recorded twice.  A factor is a fraction <<n, d>>, kept unreduced.         *)
(***************************************************************************)
EXTENDS Integers, FiniteSets, FiniteSetsExt

CONSTANTS
  LastDay,      \* days are 1..LastDay
  Shut,         \* days the venue is closed
  Prices,       \* raw closes
  Ratios,       \* splits, <<numerator, denominator>>
  Amounts,      \* cash dividends
  ExDates,      \* days an action may go ex on
  DuplicateSessions,  \* DUPLICATE_SPLIT_SESSIONS
  None

VARIABLES
  closes,        \* core.daily_price: the raw close of a day
  splits,        \* core.corporate_action of type split, by ex-date
  dividends,     \* ... of type dividend
  factors,      \* core.adjustment_factor: effective date -> cumulative factors
  flagged,      \* ex-dates whose dividend was flagged and left out
  suspects,     \* pairs flagged as one split
  fresh         \* the factors were computed from what is stored now

stored == <<closes, splits, dividends>>
vars   == <<stored, factors, flagged, suspects, fresh>>

Day == 1..LastDay
One == <<1, 1>>
Times(a, b) == <<a[1] * b[1], a[2] * b[2]>>
Same(a, b)  == a[1] * b[2] = b[1] * a[2]

-----------------------------------------------------------------------------
\* Mutant of LastBefore: the close of the ex-date itself will do.
LastBeforeOrOn(d) ==
  LET held == {t \in Day : t <= d /\ closes[t] # None}
  IN IF held = {} THEN None ELSE CHOOSE t \in held : \A u \in held : u <= t

\* The last session before a day; a dividend is valued at its close.
LastBefore(d) ==
  LET held == {t \in Day : t < d /\ closes[t] # None}
  IN IF held = {} THEN None ELSE CHOOSE t \in held : \A u \in held : u <= t

\* No price to value the dividend against, or one it exceeds.
Unusable(d) ==
  /\ dividends[d] # None
  /\ LastBefore(d) = None \/ closes[LastBefore(d)] <= dividends[d]

SplitPrice(d)  == IF splits[d] = None THEN One ELSE <<splits[d][2], splits[d][1]>>
SplitVolume(d) == IF splits[d] = None THEN One ELSE splits[d]
CashPrice(d) ==
  IF dividends[d] = None \/ Unusable(d) THEN One
  ELSE LET p == closes[LastBefore(d)] IN <<p - dividends[d], p>>

OnDate(d) == [price |-> Times(SplitPrice(d), CashPrice(d)), volume |-> SplitVolume(d)]

Dates == {d \in Day : splits[d] # None \/ (dividends[d] # None /\ ~Unusable(d))}

\* From the latest ex-date to the earliest.
Cumulative ==
  LET from[d \in 1..(LastDay + 1)] ==
        IF d > LastDay THEN [price |-> One, volume |-> One]
        ELSE [price  |-> Times(OnDate(d).price, from[d + 1].price),
              volume |-> Times(OnDate(d).volume, from[d + 1].volume)]
  IN [d \in Day |-> from[d]]

\* mart.v_daily_price_adjusted: the row of the first effective date after a session.
Applies(t) ==
  LET later == {d \in DOMAIN factors : d > t}
  IN IF later = {} THEN [price |-> One, volume |-> One]
     ELSE factors[CHOOSE d \in later : \A e \in later : d <= e]

-----------------------------------------------------------------------------
(* One split recorded twice *)

SessionsApart(a, b) == Cardinality({d \in (a + 1)..b : d \notin Shut})

SameRatio(a, b) == Same(splits[a], splits[b])

\* Candidates by the calendar, in a window wide enough for the sessions.
SameRatioPairs ==
  {<<a, b>> \in Day \X Day : /\ a < b /\ splits[a] # None /\ splits[b] # None
                             /\ b - a <= 3 * DuplicateSessions
                             /\ SameRatio(a, b)}

DuplicatePairs ==
  {p \in SameRatioPairs : SessionsApart(p[1], p[2]) <= DuplicateSessions}

\* The close across an ex-date is nearer the split's factor than 1:1, on a log scale:
\* the square of the move lies beyond the factor.
Moves(d) ==
  LET first == {t \in Day : t >= d /\ closes[t] # None}
  IN /\ LastBefore(d) # None /\ first # {}
     /\ LET b == closes[LastBefore(d)]
            a == closes[CHOOSE t \in first : \A u \in first : t <= u]
            f == SplitPrice(d)
        IN IF f[1] > f[2] THEN a * a * f[2] > b * b * f[1]
           ELSE f[1] < f[2] /\ a * a * f[2] < b * b * f[1]

Flagged(p) == [pair |-> p, moves |-> {d \in {p[1], p[2]} : Moves(d)}]

-----------------------------------------------------------------------------
Init ==
  /\ closes \in [Day -> Prices \cup {None}]
  /\ \A d \in Shut : closes[d] = None
  /\ splits \in [Day -> Ratios \cup {None}]
  /\ dividends \in [Day -> Amounts \cup {None}]
  /\ \A d \in Day \ ExDates : splits[d] = None /\ dividends[d] = None
  /\ factors = [d \in {} |-> One] /\ flagged = {} /\ suspects = {} /\ fresh = FALSE

Compute ==
  /\ ~fresh
  /\ factors' = [d \in Dates |-> Cumulative[d]]
  /\ flagged' = {d \in Day : Unusable(d)}
  /\ suspects' = {Flagged(p) : p \in DuplicatePairs}
  /\ fresh' = TRUE
  /\ UNCHANGED stored

Next == Compute

Spec == Init /\ [][Next]_vars

-----------------------------------------------------------------------------
(* Properties *)

\* A holder's return over an ex-date is the raw one, whatever came before or after: in
\* adjusted prices the last close before a dividend is that close less the dividend,
\* in the shares of the ex-date (module docstring, "Conventions").
ReturnOverExDate ==
  fresh => \A d \in ExDates :
    LET t    == LastBefore(d)
        paid == IF dividends[d] = None \/ d \in flagged THEN 0 ELSE dividends[d]
    IN (t # None /\ \A e \in ExDates \ {d} : t < e /\ e < d => OnDate(e).price = One)
       => Same(Times(<<closes[t], 1>>, Applies(t).price),
               Times(<<closes[t] - paid, 1>>, Times(SplitPrice(d), Applies(d).price)))

=============================================================================
