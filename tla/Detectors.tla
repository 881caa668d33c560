----------------------------- MODULE Detectors -----------------------------
(***************************************************************************)
(* The nightly checks over the stored bars and the security master           *)
(* (src/src/fafnir/dq/checks.py), and the queries `dq recheck` closes their  *)
(* flags by (src/src/fafnir/dq/recheck.py).  Each query is written as its SQL *)
(* asks: a check for the conditions to flag, a recheck for the open flags    *)
(* whose condition is gone, in other words and over other joins.  DqFlags    *)
(* has the life of a flag; here it is written by a run and closed by a       *)
(* recheck while the warehouse changes around it.                           *)
(***************************************************************************)
EXTENDS Integers, FiniteSets, FiniteSetsExt

CONSTANTS
  Watched,       \* securities, numbers
  LastDay,       \* days are 1..LastDay
  CloseValues,   \* closes
  MinSessions,   \* GAP_MIN_SESSIONS_FOR_DENSITY
  DensityNum, DensityDen, \* GAP_MIN_SESSION_DENSITY
  MoveNum, MoveDen,       \* outlier_threshold
  Behind,        \* STALE_MIN_SESSIONS_BEHIND
  NavLag,        \* NAV_LAG_TRADING_DAYS
  Symbols,
  Warehouses,    \* the warehouses a behaviour starts from
  MaxChanges,    \* bound on what happens to the warehouse
  NoClose, NoKey

Day == 1..LastDay
Master == [act : BOOLEAN, off : BOOLEAN, nav : BOOLEAN, classified : BOOLEAN,
           fmp : BOOLEAN, sym : Symbols]

ASSUME DetectorsAssumption ==
  /\ Watched \subseteq Nat /\ IsFiniteSet(Watched) /\ LastDay \in Nat
  /\ CloseValues \subseteq Nat \ {0} /\ NoClose \notin CloseValues
  /\ MinSessions \in Nat \ {0}
  /\ DensityNum \in Nat /\ DensityDen \in Nat \ {0}
  /\ MoveNum \in Nat /\ MoveDen \in Nat \ {0}
  /\ Behind \in Nat \ {0} /\ NavLag \in Nat
  /\ NoKey \notin Day \cup Symbols
  /\ Warehouses \subseteq
       [bars : [Watched -> [Day -> CloseValues \cup {NoClose}]], calendar : SUBSET Day,
        split : SUBSET (Watched \X Day), cash : SUBSET (Watched \X Day),
        master : [Watched -> Master]]

VARIABLES
  barOf,      \* core.daily_price: the close of a security on a day
  calendar,   \* ref.trading_calendar: the open sessions of the venue
  splitOn, cashOn, \* core.corporate_action: the splits, and the dividends that pay something
  master,     \* core.security and the classification readers see
  queue,      \* the open rows of ops.data_quality_flag
  changes

warehouse == <<barOf, calendar, splitOn, cashOn, master>>
checked   == <<warehouse, queue, changes>>

Checks == {"gap", "sparse_coverage", "outlier", "stale", "dividend_no_prior_close",
           "security_missing_classification", "security_duplicate_identity"}
Condition == [check : Checks, sec : Watched, key : Day \cup Symbols \cup {NoKey}]
Of(check, s, key) == [check |-> check, sec |-> s, key |-> key]

-----------------------------------------------------------------------------
(* The warehouse *)

Bars(s)     == {d \in Day : barOf[s][d] # NoClose}
FirstBar(s) == CHOOSE d \in Bars(s) : \A e \in Bars(s) : d <= e
LastBar(s)  == CHOOSE d \in Bars(s) : \A e \in Bars(s) : e <= d

Apart(a, b) == IF a < b THEN b - a ELSE a - b
Jumps(from, to) == Apart(to, from) * MoveDen > MoveNum * from

\* NAV_PRICED_PREDICATE
NavPriced(s) == master[s].nav
Required(s)  == IF NavPriced(s) THEN Behind + NavLag ELSE Behind

\* FRESHNESS_CUTOFF_CTES: the newest open session that carries anybody's bar, and the
\* n-th open session back from it, or the first.
Dealt  == {d \in calendar : \E s \in Watched : d \in Bars(s)}
Latest == CHOOSE d \in Dealt : \A e \in Dealt : e <= d
Past   == {d \in calendar : d <= Latest}
Cutoff(n) ==
  CHOOSE d \in Past :
    /\ Cardinality({e \in Past : d < e}) < n
    /\ \A e \in Past : Cardinality({c \in Past : e < c}) < n => d <= e

-----------------------------------------------------------------------------
(* The checks *)

\* The sessions of a security's own window, and how densely it trades in them.
SessionsOf(s) == {d \in calendar : FirstBar(s) <= d /\ d <= LastBar(s)}
Thin(s)   == Cardinality(Bars(s)) * DensityDen < DensityNum * Cardinality(SessionsOf(s))
Dense(s)  == Cardinality(SessionsOf(s)) < MinSessions \/ ~Thin(s)
Covered   == {s \in Watched : Bars(s) # {} /\ SessionsOf(s) # {}}

\* check_gaps
Gaps == {Of("gap", s, d) : s \in {t \in Covered : Dense(t)}, d \in Day}
GapsFound == {c \in Gaps : c.key \in SessionsOf(c.sec) /\ barOf[c.sec][c.key] = NoClose}
SparseFound ==
  {Of("sparse_coverage", s, NoKey) :
     s \in {t \in Covered : Cardinality(SessionsOf(t)) >= MinSessions /\ Thin(t)}}

\* check_outliers: over the adjacent bars (lag).
Adjacent(s) ==
  {p \in Bars(s) \X Bars(s) : p[1] < p[2] /\ \A d \in Bars(s) : ~(p[1] < d /\ d < p[2])}
OutliersFound ==
  {c \in {Of("outlier", s, d) : s \in Watched, d \in Day} :
     /\ \E p \in Adjacent(c.sec) : p[2] = c.key /\ Jumps(barOf[c.sec][p[1]], barOf[c.sec][p[2]])
     /\ <<c.sec, c.key>> \notin splitOn}

\* check_freshness: there is no cutoff before a session was dealt on.
StaleFound ==
  {c \in {Of("stale", s, d) : s \in Watched, d \in Day} :
     /\ master[c.sec].act /\ Bars(c.sec) # {} /\ c.key = LastBar(c.sec)
     /\ Dealt # {} /\ LastBar(c.sec) < Cutoff(Required(c.sec))}

\* check_missing_classification
UnclassifiedFound ==
  {Of("security_missing_classification", s, NoKey) :
     s \in {t \in Watched : master[t].act /\ ~master[t].off /\ ~master[t].classified}}

\* check_duplicate_identity: on the oldest of FMP's rows of a ticker.
Forked(y) == {s \in Watched : master[s].fmp /\ master[s].sym = y}
ForksFound ==
  {Of("security_duplicate_identity", Min(Forked(y)), y) :
     y \in {z \in Symbols : Cardinality(Forked(z)) > 1}}

\* compute_adjustments: a dividend without a close before it.
UnpricedDividends ==
  {Of("dividend_no_prior_close", p[1], p[2]) :
     p \in {q \in cashOn : \A d \in Bars(q[1]) : ~(d < q[2])}}

RunFinds ==
  GapsFound \cup SparseFound \cup OutliersFound \cup StaleFound
    \cup UnclassifiedFound \cup ForksFound

Emitted == RunFinds \cup UnpricedDividends

\* A forked ticker is one condition whichever row it was flagged on.
SameCondition(c, f) ==
  /\ c.check = f.check /\ c.key = f.key
  /\ c.check = "security_duplicate_identity" \/ c.sec = f.sec

Fresh(found) == {c \in found : \A f \in queue : ~SameCondition(c, f)}

-----------------------------------------------------------------------------
(* The rechecks *)

\* _GAP_SQL
GapGone(f) ==
  \/ f.key \in Bars(f.sec)
  \/ f.key \notin calendar
  \/ Bars(f.sec) = {}
  \/ f.key < FirstBar(f.sec) \/ f.key > LastBar(f.sec)
  \/ Cardinality(SessionsOf(f.sec)) >= MinSessions /\ Thin(f.sec)

\* _SPARSE_SQL
SparseGone(f) ==
  /\ Bars(f.sec) # {}
  /\ \/ Cardinality(SessionsOf(f.sec)) < MinSessions
     \/ SessionsOf(f.sec) # {} /\ ~Thin(f.sec)

\* Mutant of OutlierGone: the split that explains the move does not close it.
OutlierGoneBarsOnly(f) ==
  LET before == {d \in Bars(f.sec) : d < f.key}
  IN \/ f.key \notin Bars(f.sec)
     \/ before = {}
     \/ ~Jumps(barOf[f.sec][CHOOSE d \in before : \A e \in before : e <= d],
               barOf[f.sec][f.key])

\* _OUTLIER_SQL: against the last bar before the date.
OutlierGone(f) ==
  LET before == {d \in Bars(f.sec) : d < f.key}
  IN \/ f.key \notin Bars(f.sec)
     \/ before = {}
     \/ ~Jumps(barOf[f.sec][CHOOSE d \in before : \A e \in before : e <= d],
               barOf[f.sec][f.key])
     \/ <<f.sec, f.key>> \in splitOn

\* _STALE_SQL: a security without a bar counts as one whose last is before them all.
LastOrNone(s) == IF Bars(s) = {} THEN 0 ELSE LastBar(s)
StaleGone(f) ==
  \/ ~master[f.sec].act
  \/ LastOrNone(f.sec) > f.key
  \/ Dealt # {} /\ LastOrNone(f.sec) >= Cutoff(Required(f.sec))

\* _DIVIDEND_SQL
DividendGone(f) == \E d \in Bars(f.sec) : d < f.key

\* _CLASSIFICATION_SQL
ClassificationGone(f) ==
  ~(master[f.sec].act /\ ~master[f.sec].off /\ ~master[f.sec].classified)

\* RECHECKABLE: a forked ticker is not among them.
ConditionGone(f) ==
  CASE f.check = "gap"                             -> GapGone(f)
    [] f.check = "sparse_coverage"                 -> SparseGone(f)
    [] f.check = "outlier"                         -> OutlierGone(f)
    [] f.check = "stale"                           -> StaleGone(f)
    [] f.check = "dividend_no_prior_close"         -> DividendGone(f)
    [] f.check = "security_missing_classification" -> ClassificationGone(f)
    [] f.check = "security_duplicate_identity"     -> FALSE

-----------------------------------------------------------------------------
DetectInit ==
  /\ \E w \in Warehouses : /\ barOf = w.bars /\ calendar = w.calendar
                           /\ splitOn = w.split /\ cashOn = w.cash /\ master = w.master
  /\ queue = {} /\ changes = 0

\* `dq run`
DqRun ==
  /\ queue' = queue \cup Fresh(RunFinds)
  /\ UNCHANGED <<warehouse, changes>>

\* `adjust`, of every security or of those whose actions changed: a load, an operator's
\* edit and the reconciliation end with it too.
Adjust(T) ==
  /\ queue' = queue \cup Fresh({c \in UnpricedDividends : c.sec \in T})
  /\ UNCHANGED <<warehouse, changes>>

\* `dq recheck`
Recheck ==
  /\ queue' = {f \in queue : ~ConditionGone(f)}
  /\ UNCHANGED <<warehouse, changes>>

Changed == changes < MaxChanges /\ changes' = changes + 1 /\ UNCHANGED queue

\* A load, a correction or an operator's edit of one bar.
BarChanges(s, d, v) ==
  /\ barOf' = [barOf EXCEPT ![s][d] = v]
  /\ UNCHANGED <<calendar, splitOn, cashOn, master>>
  /\ Changed

\* The calendar is seeded again.
CalendarChanges(d) ==
  /\ calendar' = IF d \in calendar THEN calendar \ {d} ELSE calendar \cup {d}
  /\ UNCHANGED <<barOf, splitOn, cashOn, master>>
  /\ Changed

\* A split is loaded or taken out.
SplitChanges(s, d) ==
  /\ splitOn' = IF <<s, d>> \in splitOn THEN splitOn \ {<<s, d>>} ELSE splitOn \cup {<<s, d>>}
  /\ UNCHANGED <<barOf, calendar, cashOn, master>>
  /\ Changed

\* A dividend is loaded or added by hand, or taken out: by the reconciliation, which
\* finds it re-dated (delete_corporate_action), or by the operator's delete, re-date or
\* revoke of an addition.  What was flagged on it stays open.
DividendChanges(s, d) ==
  /\ cashOn' = IF <<s, d>> \in cashOn THEN cashOn \ {<<s, d>>} ELSE cashOn \cup {<<s, d>>}
  /\ UNCHANGED <<barOf, calendar, splitOn, master>>
  /\ Changed

\* prune_outside_span: a dividend goes with the flag keyed on it, and the factors of a
\* security with bars are computed again.
DividendPruned(s, d) ==
  LET kept == {c \in UnpricedDividends : c.sec = s /\ c.key # d /\ Bars(s) # {}}
  IN /\ <<s, d>> \in cashOn
     /\ cashOn' = cashOn \ {<<s, d>>}
     /\ queue' = (queue \ {Of("dividend_no_prior_close", s, d)}) \cup Fresh(kept)
     /\ changes < MaxChanges /\ changes' = changes + 1
     /\ UNCHANGED <<barOf, calendar, splitOn, master>>

\* It stops or goes on trading, is delisted, is found to be a fund or not, loses or
\* gets its classification, or is renamed.
Refreshed(m) ==
  {[m EXCEPT !.act = ~@], [m EXCEPT !.off = TRUE, !.act = FALSE], [m EXCEPT !.nav = ~@],
   [m EXCEPT !.classified = ~@]} \cup {[m EXCEPT !.sym = y] : y \in Symbols}
MasterChanges(s) ==
  /\ \E m \in Refreshed(master[s]) : master' = [master EXCEPT ![s] = m]
  /\ UNCHANGED <<barOf, calendar, splitOn, cashOn>>
  /\ Changed

WarehouseStep ==
  \/ \E s \in Watched, d \in Day :
       \/ \E v \in CloseValues \cup {NoClose} : BarChanges(s, d, v)
       \/ SplitChanges(s, d) \/ DividendChanges(s, d) \/ DividendPruned(s, d)
  \/ \E d \in Day : CalendarChanges(d)
  \/ \E s \in Watched : MasterChanges(s)

DetectNext ==
  DqRun \/ (\E T \in SUBSET Watched : Adjust(T)) \/ Recheck \/ WarehouseStep

DetectSpec == DetectInit /\ [][DetectNext]_checked

-----------------------------------------------------------------------------
(* Properties *)

DetectTypeOK ==
  /\ barOf \in [Watched -> [Day -> CloseValues \cup {NoClose}]]
  /\ calendar \subseteq Day
  /\ splitOn \subseteq Watched \X Day /\ cashOn \subseteq Watched \X Day
  /\ master \in [Watched -> Master]
  /\ queue \subseteq Condition
  /\ \A f \in queue :
       /\ f.check \in {"gap", "outlier", "stale", "dividend_no_prior_close"} => f.key \in Day
       /\ f.check \in {"sparse_coverage", "security_missing_classification"} => f.key = NoKey
  /\ changes \in Nat

\* What no recheck query looks for: a stale or sparse security that lost its bars, or a
\* stale one whose last bar went back, a market without a session, and a dividend that
\* is no longer on file (_DIVIDEND_SQL asks for a bar before it only).
Overlooked(f) ==
  \/ f.check = "sparse_coverage" /\ Bars(f.sec) = {}
  \/ f.check = "stale" /\ (Dealt = {} \/ LastOrNone(f.sec) < f.key)
  \/ f.check = "dividend_no_prior_close" /\ <<f.sec, f.key>> \notin cashOn

\* A recheck closes a flag exactly when its check would not write it any more, but for
\* what is overlooked, and never one that it would ("Each entry is the NEGATION of what
\* the named check emits", recheck.py).
RecheckAgrees ==
  \A f \in queue :
    f.check # "security_duplicate_identity" =>
      /\ ConditionGone(f) => f \notin Emitted
      /\ f \notin Emitted => ConditionGone(f) \/ Overlooked(f)
=============================================================================
