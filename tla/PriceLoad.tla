------------------------------ MODULE PriceLoad ------------------------------
(***************************************************************************)
(* The incremental load of one security's daily bars from FMP              *)
(* (src/src/fafnir/ingest/daily_price.py), the rows and flags it writes    *)
(* through src/src/fafnir/db/repository.py, and the parties that touch the *)
(* same rows meanwhile: the operator's overrides and Sharadar's loader.    *)
(*                                                                         *)
(* A load is one database transaction of one session. fafnir takes no lock *)
(* and runs at READ COMMITTED, so each read of a load sees whatever other  *)
(* sessions have committed by then. A load is therefore four steps: Fetch  *)
(* (watermark and vendor), ReadOverrides, Judge (stored bars and splits)   *)
(* and Commit, which writes.  Flags written earlier in the transaction     *)
(* become visible with the commit, so they are part of Commit.             *)
(*                                                                         *)
(* Trading dates are 1..MaxDay.  What the vendor serves for a date is a    *)
(* bar, a bar that fails _validate_bar, or nothing.  How far two bars are  *)
(* apart is left to the constants Restates, Kept and AtSplitScale.         *)
(***************************************************************************)
EXTENDS Integers, FiniteSets

CONSTANTS
  MaxDay,          \* the last trading date (bound)
  Overlap,         \* overlap_days: how far before the watermark a load re-reads
  MaxHolds,        \* MAX_QUARANTINE_HOLDS
  BackfillStart,   \* where a security with no watermark starts
  SplitDays,       \* SPLIT_SCALE_DAYS
  Closed,          \* dates the venue's calendar knows as non-sessions
  SplitDates,      \* the ex-dates a split may come on file for
  Bar,             \* storable bars
  Restates(_, _),  \* restatement_detail(stored, incoming) is not None
  Kept(_, _),      \* the row written over a stored one (odd-lot rounding)
  AtSplitScale(_, _), \* split_scale_detail(previous bar, incoming) is not None
  Loaders,         \* concurrent `ingest prices` sessions
  ExplicitLoads,   \* whether an operator may load an explicit --from/--to window
  OperatorEdits,   \* whether an operator may delete, edit and revoke
  SharadarLoads,   \* whether Sharadar's loader may write this security
  MaxEdits,        \* bound on the vendor's changes and the other parties' writes
  NoBar, BadBar, NoRow

ASSUME BoundsAssumption ==
  /\ MaxDay \in Nat \ {0}
  /\ Overlap \in Nat
  /\ MaxHolds \in Nat \ {0}
  /\ BackfillStart \in 1..MaxDay
  /\ SplitDays \in Nat
  /\ MaxEdits \in Nat
ASSUME SetsAssumption ==
  /\ Closed \subseteq 1..MaxDay
  /\ SplitDates \subseteq 1..MaxDay
  /\ ExplicitLoads \in BOOLEAN
  /\ OperatorEdits \in BOOLEAN
  /\ SharadarLoads \in BOOLEAN
ASSUME BarAssumption ==
  /\ NoBar # BadBar /\ NoBar \notin Bar /\ BadBar \notin Bar
  /\ \A a, b \in Bar : Kept(a, b) \in Bar
  /\ \A a, b \in Bar : ~Restates(a, b) => ~Restates(a, Kept(a, b))
  /\ NoRow \notin [src : {"fmp", "sharadar", "operator"}, bar : Bar]

Days    == 1..MaxDay
Sources == {"fmp", "sharadar", "operator"}
Row     == [src : Sources, bar : Bar]
Stored  == Row \cup {NoRow}
Served  == Bar \cup {BadBar, NoBar}

VARIABLES
  feed,      \* what the vendor serves for each date
  edits,     \* how many changes the environment has made (bound)
  cleared,   \* dates Sharadar's loader has found without an override
  bars,      \* core.daily_price
  quar,      \* price_* quarantine flags per date, saturating at MaxHolds
  conflict,  \* dates with an open price_restatement_conflict flag
  wm,        \* ops.load_watermark, 0 when there is none
  splits,    \* ex-dates of the splits on file
  over,      \* the active operator override of each date
  saved,     \* the row an active edit replaced, kept in its override's detail
  pc, explicit, lo, hi, payload, verdict, out, \* the sessions in flight
  pending,   \* history: dates whose newest committed read was quarantined
  lifted     \* history: dates whose 'delete' was revoked, no bar since

env      == <<feed, edits, cleared>>
table    == <<bars, quar, conflict, wm>>
operator == <<over, saved>>
session  == <<pc, explicit, lo, hi, payload, verdict, out>>
history  == <<pending, lifted>>
vars     == <<env, table, splits, operator, session, history>>

Verdicts == {"skip", "quarantine", "hold", "foreign", "scaled", "write"}

TypeOK ==
  /\ feed \in [Days -> Served]
  /\ edits \in 0..MaxEdits
  /\ cleared \in SUBSET Days
  /\ bars \in [Days -> Stored]
  /\ quar \in [Days -> 0..MaxHolds]
  /\ conflict \in SUBSET Days
  /\ wm \in 0..MaxDay
  /\ splits \in SUBSET SplitDates
  /\ over \in [Days -> {"none", "delete", "edit"}]
  /\ saved \in [Days -> Stored]
  /\ pc \in [Loaders -> {"idle", "fetched", "filtered", "judged"}]
  /\ explicit \in [Loaders -> BOOLEAN]
  /\ lo \in [Loaders -> Days]
  /\ hi \in [Loaders -> Days]
  /\ payload \in [Loaders -> [Days -> Served]]
  /\ verdict \in [Loaders -> [Days -> Verdicts]]
  /\ out \in [Loaders -> [Days -> Bar \cup {NoBar}]]
  /\ pending \in SUBSET Days
  /\ lifted \in SUBSET Days

Nothing == [d \in Days |-> NoBar]
NoVerdict == [d \in Days |-> "skip"]

Init ==
  /\ feed = Nothing /\ edits = 0 /\ cleared = {}
  /\ bars = [d \in Days |-> NoRow]
  /\ quar = [d \in Days |-> 0]
  /\ conflict = {} /\ wm = 0 /\ splits = {}
  /\ over = [d \in Days |-> "none"]
  /\ saved = [d \in Days |-> NoRow]
  /\ pc = [l \in Loaders |-> "idle"]
  /\ explicit = [l \in Loaders |-> FALSE]
  /\ lo = [l \in Loaders |-> 1]
  /\ hi = [l \in Loaders |-> 1]
  /\ payload = [l \in Loaders |-> Nothing]
  /\ verdict = [l \in Loaders |-> NoVerdict]
  /\ out = [l \in Loaders |-> Nothing]
  /\ pending = {} /\ lifted = {}

-----------------------------------------------------------------------------
(* The load *)

\* _window_start: a watermark less the overlap, or the backfill start.
WindowStart ==
  IF wm = 0 THEN BackfillStart
  ELSE IF wm - Overlap < 1 THEN 1 ELSE wm - Overlap

\* The vendor's answer for a window, less the dates the venue was closed.
Answer(from, to) ==
  [d \in Days |-> IF d \in from..to /\ d \notin Closed THEN feed[d] ELSE NoBar]

FetchWindow(l, from, to, isExplicit) ==
  /\ pc[l] = "idle"
  /\ pc' = [pc EXCEPT ![l] = "fetched"]
  /\ explicit' = [explicit EXCEPT ![l] = isExplicit]
  /\ lo' = [lo EXCEPT ![l] = from]
  /\ hi' = [hi EXCEPT ![l] = to]
  /\ payload' = [payload EXCEPT ![l] = Answer(from, to)]
  /\ UNCHANGED <<verdict, out, env, table, splits, operator, history>>

NightlyFetch(l) == FetchWindow(l, WindowStart, MaxDay, FALSE)

ExplicitFetch(l) ==
  /\ ExplicitLoads
  /\ \E from \in Days : \E to \in from..MaxDay : FetchWindow(l, from, to, TRUE)

\* _drop_suppressed: bars on dates an operator edited are set aside.
ReadOverrides(l) ==
  /\ pc[l] = "fetched"
  /\ pc' = [pc EXCEPT ![l] = "filtered"]
  /\ payload' = [payload EXCEPT ![l] =
       [d \in Days |-> IF over[d] = "none" THEN payload[l][d] ELSE NoBar]]
  /\ UNCHANGED <<explicit, lo, hi, verdict, out, env, table, splits, operator,
                 history>>

\* Whether the row stored for a date is a party's.
HeldBy(d, s) == bars[d] # NoRow /\ bars[d].src = s

\* A new bar before a split on file, at the split's scale from the last stored bar.
SplitScaled(d, b) ==
  /\ \E s \in splits : d < s /\ s <= d + SplitDays
  /\ \E e \in Days :
       /\ e < d /\ bars[e] # NoRow
       /\ \A f \in Days : (e < f /\ f < d) => bars[f] = NoRow
       /\ AtSplitScale(bars[e].bar, b)

\* Validation, the foreign-row filter and _guard_bars, for one date.
VerdictOf(d, served, isExplicit) ==
  CASE served = NoBar -> "skip"
    [] served = BadBar -> "quarantine"
    [] served \in Bar /\ bars[d] # NoRow ->
         (IF bars[d].src # "fmp" THEN "foreign"
          ELSE IF Restates(bars[d].bar, served) /\ ~isExplicit THEN "hold"
          ELSE "write")
    [] served \in Bar /\ bars[d] = NoRow ->
         (IF SplitScaled(d, served) THEN "scaled" ELSE "write")

RowOf(d, served) ==
  IF served \notin Bar THEN NoBar
  ELSE IF HeldBy(d, "fmp") THEN Kept(bars[d].bar, served)
  ELSE served

Judge(l) ==
  /\ pc[l] = "filtered"
  /\ pc' = [pc EXCEPT ![l] = "judged"]
  /\ verdict' = [verdict EXCEPT ![l] =
       [d \in Days |-> VerdictOf(d, payload[l][d], explicit[l])]]
  /\ out' = [out EXCEPT ![l] = [d \in Days |-> RowOf(d, payload[l][d])]]
  /\ payload' = [payload EXCEPT ![l] = Nothing]
  /\ UNCHANGED <<explicit, lo, hi, env, table, splits, operator, history>>

Judged(l, kinds) == {d \in Days : verdict[l][d] \in kinds}

\* The dates a load quarantines, and those of them that still hold the watermark
\* (count_price_quarantines counts this load's own flags too).
Quarantined(l) == Judged(l, {"quarantine", "scaled"})
FlagCount(l, d) ==
  IF d \in Quarantined(l) /\ quar[d] < MaxHolds THEN quar[d] + 1 ELSE quar[d]

\* Mutant of Holding: a quarantined date holds the watermark for ever.
HoldingForever(l) == Quarantined(l)
Holding(l) == {d \in Quarantined(l) : FlagCount(l, d) < MaxHolds}

\* Mutant of SafeDates: the watermark passes a date that still holds it.
AllCleanDates(l) == Judged(l, {"write", "hold"})

\* Dates the watermark may advance to: stored or held, before every holding date.
SafeDates(l) ==
  {d \in Judged(l, {"write", "hold"}) : \A h \in Holding(l) : d < h}

\* set_watermark keeps the greater date.
Greatest(a, b) == IF a > b THEN a ELSE b
MaxOf(S) == CHOOSE m \in S : \A d \in S : d <= m

NextWatermark(l) ==
  IF SafeDates(l) # {} THEN Greatest(wm, MaxOf(SafeDates(l)))
  ELSE IF Quarantined(l) # {} /\ Holding(l) = {}
       THEN Greatest(wm, MaxOf(Quarantined(l)))
       ELSE wm

\* Mutants of Upserted: a conflict clause that takes any party's row, a load that
\* writes the bars it holds, one that writes the bars it quarantines.
UpsertedOverAnyone(l) == Judged(l, {"write", "foreign"})
UpsertedWhenHeld(l) ==
  {d \in Judged(l, {"write", "foreign", "hold"}) :
     ~HeldBy(d, "sharadar") /\ ~HeldBy(d, "operator")}

\* upsert_daily_prices as FMP: the conflict clause writes only FMP's own rows.
Upserted(l) ==
  {d \in Judged(l, {"write", "foreign"}) :
     ~HeldBy(d, "sharadar") /\ ~HeldBy(d, "operator")}

Reset(l) ==
  /\ pc' = [pc EXCEPT ![l] = "idle"]
  /\ explicit' = [explicit EXCEPT ![l] = FALSE]
  /\ lo' = [lo EXCEPT ![l] = 1]
  /\ hi' = [hi EXCEPT ![l] = 1]
  /\ payload' = [payload EXCEPT ![l] = Nothing]
  /\ verdict' = [verdict EXCEPT ![l] = NoVerdict]
  /\ out' = [out EXCEPT ![l] = Nothing]

Commit(l) ==
  /\ pc[l] = "judged"
  /\ bars' = [d \in Days |-> IF d \in Upserted(l)
                             THEN [src |-> "fmp", bar |-> out[l][d]]
                             ELSE bars[d]]
  /\ quar' = [d \in Days |-> FlagCount(l, d)]
  /\ conflict' = IF explicit[l]
                 THEN conflict \ Judged(l, {"write", "scaled"})
                 ELSE conflict \cup Judged(l, {"hold"})
  /\ wm' = NextWatermark(l)
  /\ pending' = (pending \ (lo[l]..hi[l])) \cup Quarantined(l)
  /\ lifted' = lifted \ Upserted(l)
  /\ Reset(l)
  /\ UNCHANGED <<env, splits, operator>>

\* An exception or a killed process: the open transaction rolls back.
Fail(l) ==
  /\ pc[l] # "idle"
  /\ Reset(l)
  /\ UNCHANGED <<env, table, splits, operator, history>>

-----------------------------------------------------------------------------
(* Everyone else *)

Edit == edits < MaxEdits /\ edits' = edits + 1

\* The vendor publishes, corrects, spoils, restates or withdraws a bar.
VendorChanges(d, v) ==
  /\ Edit
  /\ feed[d] # v
  /\ feed' = [feed EXCEPT ![d] = v]
  /\ UNCHANGED <<cleared, table, splits, operator, session, history>>

\* The corporate-actions loader puts a split on file.
SplitOnFile(s) ==
  /\ s \notin splits
  /\ splits' = splits \cup {s}
  /\ UNCHANGED <<env, table, operator, session, history>>

\* Sharadar's loader or its corrections: _gate sets the dates with an override aside,
\* and _write comes after it, over any row but an operator's.
SharadarGate(d) ==
  /\ SharadarLoads /\ over[d] = "none" /\ d \notin cleared
  /\ cleared' = cleared \cup {d}
  /\ UNCHANGED <<feed, edits, table, splits, operator, session, history>>

SharadarWrites(d, b) ==
  /\ d \in cleared /\ Edit
  /\ ~HeldBy(d, "operator")
  /\ bars' = [bars EXCEPT ![d] = [src |-> "sharadar", bar |-> b]]
  /\ cleared' = cleared \ {d}
  /\ lifted' = lifted \ {d}
  /\ UNCHANGED <<feed, quar, conflict, wm, splits, operator, session, pending>>

\* A bar of Sharadar's that fails the validator: its flag counts toward the budget too.
SharadarQuarantines(d) ==
  /\ SharadarLoads /\ over[d] = "none" /\ Edit
  /\ quar[d] < MaxHolds
  /\ quar' = [quar EXCEPT ![d] = @ + 1]
  /\ UNCHANGED <<feed, cleared, bars, conflict, wm, splits, operator, session, history>>

\* Its run ends, or fails before it wrote.
SharadarStops ==
  /\ cleared # {} /\ cleared' = {}
  /\ UNCHANGED <<feed, edits, table, splits, operator, session, history>>

\* delete_operator_bars on one date.
DeleteBar(d) ==
  /\ OperatorEdits /\ Edit
  /\ HeldBy(d, "fmp") \/ HeldBy(d, "sharadar")
  /\ over[d] = "none"
  /\ bars' = [bars EXCEPT ![d] = NoRow]
  /\ over' = [over EXCEPT ![d] = "delete"]
  /\ lifted' = lifted \ {d}
  /\ UNCHANGED <<feed, cleared, quar, conflict, wm, splits, saved, session, pending>>

\* replace_operator_bars for a rescale of one date.
EditBar(d, b) ==
  /\ OperatorEdits /\ Edit
  /\ HeldBy(d, "fmp") \/ HeldBy(d, "sharadar")
  /\ over[d] = "none"
  /\ bars' = [bars EXCEPT ![d] = [src |-> "operator", bar |-> b]]
  /\ over' = [over EXCEPT ![d] = "edit"]
  /\ saved' = [saved EXCEPT ![d] = bars[d]]
  /\ lifted' = lifted \ {d}
  /\ UNCHANGED <<feed, cleared, quar, conflict, wm, splits, session, pending>>

\* revoke_operator_override of a delete: lifts the suppression, restores nothing.
RevokeDelete(d) ==
  /\ OperatorEdits /\ Edit
  /\ over[d] = "delete"
  /\ over' = [over EXCEPT ![d] = "none"]
  /\ lifted' = IF bars[d] = NoRow THEN lifted \cup {d} ELSE lifted
  /\ UNCHANGED <<feed, cleared, table, splits, saved, session, pending>>

\* revoke_price_edit: the operator's bar goes and the vendor's row comes back.
RevokeEdit(d) ==
  /\ OperatorEdits /\ Edit
  /\ over[d] = "edit" /\ HeldBy(d, "operator")
  /\ bars' = [bars EXCEPT ![d] = saved[d]]
  /\ over' = [over EXCEPT ![d] = "none"]
  /\ saved' = [saved EXCEPT ![d] = NoRow]
  /\ UNCHANGED <<feed, cleared, quar, conflict, wm, splits, session, history>>

-----------------------------------------------------------------------------
LoadStep(l) ==
  \/ NightlyFetch(l)
  \/ ExplicitFetch(l)
  \/ ReadOverrides(l)
  \/ Judge(l)
  \/ Commit(l)
  \/ Fail(l)

OtherStep(d) ==
  \/ \E v \in Served : VendorChanges(d, v)
  \/ \E b \in Bar : SharadarWrites(d, b)
  \/ SharadarGate(d)
  \/ SharadarQuarantines(d)
  \/ \E b \in Bar : EditBar(d, b)
  \/ DeleteBar(d)
  \/ RevokeDelete(d)
  \/ RevokeEdit(d)

Next ==
  \/ \E l \in Loaders : LoadStep(l)
  \/ \E d \in Days : OtherStep(d)
  \/ SharadarStops
  \/ \E s \in SplitDates : SplitOnFile(s)

Spec == Init /\ [][Next]_vars

\* The timer starts a load every night, a started load takes its next step, and a
\* night that fails is run again: no step fails on every attempt that reaches it.
Fairness ==
  \A l \in Loaders :
    /\ WF_vars(NightlyFetch(l))
    /\ SF_vars(ReadOverrides(l))
    /\ SF_vars(Judge(l))
    /\ SF_vars(Commit(l))

FairSpec == Spec /\ Fairness

-----------------------------------------------------------------------------
(* Properties *)

\* A date whose latest read was quarantined, and whose budget of holds is not
\* spent, is still inside the window of the next nightly load (daily_price.py,
\* "no permanent gap"): a correction by the vendor can still land.
HeldDatesRefetched ==
  \A d \in pending : quar[d] < MaxHolds => wm = 0 \/ d >= wm - Overlap

\* An operator's bar and the active edit that records it exist together, whatever
\* loads are in flight, and the row the edit replaced is there to be restored
\* (replace_operator_bars, revoke_price_edit, the upsert's conflict clause).
OperatorRowsRecorded ==
  \A d \in Days :
    /\ over[d] = "edit" <=> HeldBy(d, "operator")
    /\ over[d] = "edit" <=> saved[d] # NoRow

\* A row another party holds turns into FMP's only when an operator's edit is
\* undone and the row is the one the edit replaced; a load in flight never takes
\* it, even when the row appeared after the load read the table.
ForeignRowsKept ==
  [][\A d \in Days :
       (/\ HeldBy(d, "sharadar") \/ HeldBy(d, "operator")
        /\ HeldBy(d, "fmp")')
       => over[d] = "edit" /\ over'[d] = "none" /\ bars'[d] = saved[d]]_vars

\* A nightly load never replaces a stored FMP bar by one the restatement guard
\* tells apart from it; only an explicit re-fetch does (RESTATEMENTS).
FirstPrintKept ==
  [][\A d \in Days :
       (/\ HeldBy(d, "fmp") /\ HeldBy(d, "fmp")'
        /\ Restates(bars[d].bar, bars'[d].bar))
       => \E l \in Loaders : explicit[l] /\ pc[l] = "judged" /\ pc'[l] = "idle"]_vars

\* A date an operator deleted holds no bar while the override stands.
DeletedStaysOut == \A d \in Days : over[d] = "delete" => bars[d] = NoRow

\* Bars that can be stored without a quarantine or another party's row in the way.
Loadable(d) ==
  /\ feed[d] \in Bar /\ d \notin Closed /\ over[d] = "none"
  /\ ~(bars[d] = NoRow /\ SplitScaled(d, feed[d]))
  /\ ~HeldBy(d, "sharadar") /\ ~HeldBy(d, "operator")

\* A bar that stays bad holds the watermark a bounded number of nights only: once
\* the vendor is quiet the watermark reaches every loadable date of its window.
CatchesUp ==
  \A d \in Days : []<>(d >= BackfillStart /\ Loadable(d) => wm >= d)

\* Once a 'delete' is revoked, loads bring back what the vendor serves for the date.
RevokedDateRefilled ==
  \A d \in Days : []<>(d \notin lifted \/ feed[d] \notin Bar \/ over[d] # "none")

\* A date whose holds are spent does not stay beyond the watermark: "a permanently-bad
\* bar can't stall ingestion forever and grow the re-pull window without bound".
SpentDatesPassed == \A d \in Days : []<>(quar[d] < MaxHolds \/ wm >= d)
=============================================================================
