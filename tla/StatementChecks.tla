--------------------------- MODULE StatementChecks ---------------------------
(***************************************************************************)
(* The nightly checks over the statements of one security                   *)
(* (src/src/fafnir/dq/checks.py, from "Fundamentals").  A detector is the    *)
(* query of its SQL, a set of rows; a run writes each check's in one INSERT. *)
(* The index of open conditions refuses an INSERT that holds one condition  *)
(* twice, and the whole run with it.                                        *)
(*                                                                         *)
(* Amounts are millions of the reporting currency, shares of an amount are  *)
(* thousandths, and days count from 1998-01-01.  Every row stands for a      *)
(* current version (superseded_at IS NULL).                                 *)
(***************************************************************************)
EXTENDS Integers, FiniteSets

CONSTANTS
  Filings,     \* the books a behaviour starts from
  Amended,     \* what filings, fixes and the calendar may make of them
  MaxAmended,  \* bound on how often they do
  Currencies, Columns,
  Null         \* SQL's NULL

MinorityFrom    == 4366           \* MINORITY_IN_EQUITY_FROM, 2009-12-15
RestrictedFrom  == 7305           \* RESTRICTED_CASH_FROM, 2018-01-01
CoverageFloor   == 0              \* COVERAGE_FLOOR, 1998-01-01
TieFloor        == 1000           \* TIE_FLOOR, one million, in thousandths
IdentityShare   == 5
MinorityShare   == 200
TemporaryShare  == 200
CashShare       == 20
RestrictedShare == 100
QuarterGap      == 56..126
YearGap         == 300..430
GapDays         == 400
CadenceDays     == 1096
FilingLagMin    == 5

NeverZero == [income |-> {"revenue", "profit", "shares"},
              sheet  |-> {"assets", "liabilities", "equity", "cash", "shares"},
              flow   |-> {"operating"}]

Types  == {"quarter", "annual"}
Amount == Int \cup {Null}
\* A statement: its period, the version and when it was known.
Sheet  == [type : Types, date : Nat, no : Nat, from : Nat, to : Nat \cup {Null},
           assets : Amount, liabilities : Amount, equity : Amount, cash : Amount,
           shares : Amount]
Flow   == [type : Types, date : Nat, no : Nat, from : Nat, to : Nat \cup {Null}, year : Nat,
           operating : Amount, investing : Amount, financing : Amount, fx : Amount,
           net : Amount]
Income == [type : Types, date : Nat, no : Nat, from : Nat, to : Nat \cup {Null}, year : Nat,
           quarter : 0..4, filed : BOOLEAN, currency : Currencies \cup {Null},
           revenue : Amount, profit : Amount, nci : Amount, shares : Amount,
           diluted : Amount, unmapped : SUBSET Columns]

\* What the checks read: the three tables, the days with a bar, whether the security
\* trades and is not delisted, in what, how readers see it classified, whether its linked
\* master has SF1 statements, and today.
Books == [sheet : SUBSET Sheet, flow : SUBSET Flow, income : SUBSET Income,
          bars : SUBSET Nat, act : BOOLEAN, currency : Currencies, shell : BOOLEAN,
          financial : BOOLEAN, covered : BOOLEAN, today : Nat]

InForce(rows) == {r \in rows : r.to = Null}

\* ux_*_current and ux_*_in_force: one row per version, one version in force per period.
OneEach(rows) ==
  /\ IsFiniteSet(rows)
  /\ \A r, q \in rows : (r.type = q.type /\ r.date = q.date /\ r.no = q.no) => r = q
  /\ \A r, q \in InForce(rows) : (r.type = q.type /\ r.date = q.date) => r = q

ASSUME BooksAssumption ==
  /\ Filings \cup Amended \subseteq Books
  /\ \A b \in Filings \cup Amended :
       OneEach(b.sheet) /\ OneEach(b.flow) /\ OneEach(b.income) /\ IsFiniteSet(b.bars)
  /\ MaxAmended \in Nat
  /\ Null \notin Int \cup Currencies \cup Columns

VARIABLES
  books,
  flags,   \* the open statement flags: condition and severity
  amended

statements == <<books, flags, amended>>

-----------------------------------------------------------------------------
(* Rows and their neighbours *)

Mag(x)      == IF x < 0 THEN -x ELSE x
Most(a, b)  == IF a < b THEN b ELSE a
Least(a, b) == IF a < b THEN a ELSE b

\* The larger of a share of the base and of the floor, in thousandths.
Tolerance(base, share) == Most(Mag(base) * share, TieFloor)


\* lag and lead over (PARTITION BY period_type ORDER BY fiscal_date).
Preceding(rows, r) == {q \in rows : q.type = r.type /\ q.date < r.date}
Following(rows, r) == {q \in rows : q.type = r.type /\ r.date < q.date}
Lag(rows, r)  == CHOOSE q \in Preceding(rows, r) : \A o \in Preceding(rows, r) : o.date <= q.date
Lead(rows, r) == CHOOSE q \in Following(rows, r) : \A o \in Following(rows, r) : q.date <= o.date

\* A row of a detector: the condition (check, and what the record_key holds), its
\* severity, and which row or group of rows it was selected from.
Hit(check, on, key, severity, of) ==
  [check |-> check, on |-> on, key |-> key, severity |-> severity, of |-> of]
SameKey(h, f) == h.check = f.check /\ h.on = f.on /\ h.key = f.key
PeriodKey(r)  == <<r.type, r.date, 0>>
VersionKey(r) == <<r.type, r.date, r.no>>
Only(n)       == <<"", n, 0>>

-----------------------------------------------------------------------------
(* The identities *)

\* detect_balance_sheet_identity
Missing(t) == t.assets - t.liabilities - t.equity
Noncontrolling(b, t) ==
  \E i \in b.income : PeriodKey(i) = PeriodKey(t) /\ i.nci \notin {0, Null}
Reason(b, t) ==
  IF Missing(t) < 0 THEN "exceeded"
  ELSE IF \/ Noncontrolling(b, t)
          \/ t.date < MinorityFrom /\ Missing(t) * 1000 <= Mag(t.assets) * MinorityShare
         THEN "left out"
  ELSE IF \/ b.shell
          \/ t.equity < 0 /\ Missing(t) * 1000 >= Mag(t.assets) * TemporaryShare
         THEN "temporary_equity"
  ELSE "unexplained"
Unbalanced(b) ==
  {t \in b.sheet : /\ Null \notin {t.assets, t.liabilities, t.equity}
                   /\ Mag(Missing(t)) * 1000 > Tolerance(t.assets, IdentityShare)
                   /\ Reason(b, t) # "left out"}
IdentityFound(b) ==
  {Hit("balance_sheet_identity", "", k,
       IF \A t \in Unbalanced(b) : PeriodKey(t) = k => Reason(b, t) = "temporary_equity"
         THEN "info" ELSE "error", k) : k \in {PeriodKey(t) : t \in Unbalanced(b)}}

\* detect_cash_flow_tie
Components(t) == t.operating + t.investing + t.financing + (IF t.fx = Null THEN 0 ELSE t.fx)
LargestFlow(t) == Most(Mag(t.operating), Most(Mag(t.investing), Mag(t.financing)))
Untied(b) ==
  {t \in b.flow : /\ Null \notin {t.operating, t.investing, t.financing, t.net}
                  /\ Mag(Components(t) - t.net) * 1000
                       > Tolerance(LargestFlow(t), IdentityShare)}
CashFlowFound(b) ==
  {Hit("cash_flow_tie", "", k, "warn", k) : k \in {PeriodKey(t) : t \in Untied(b)}}

-----------------------------------------------------------------------------
(* The change in cash between two balance sheets: detect_cash_balance_tie *)

Spaced(r, before) == r.date - before \in IF r.type = "quarter" THEN QuarterGap ELSE YearGap

\* What the change between the sheet and the one before leaves over the cash flow's.
Tie(p, s, c) ==
  [type |-> s.type, date |-> s.date, prev |-> p.date, gap |-> (s.cash - p.cash) - c.net,
   tol |-> Tolerance(Most(Mag(s.cash), Mag(p.cash)),
                     IF s.date >= RestrictedFrom THEN RestrictedShare ELSE CashShare)]
Comparable(b, s, c) ==
  /\ c.type = s.type /\ c.date = s.date
  /\ Preceding(InForce(b.sheet), s) # {}
  /\ LET p == Lag(InForce(b.sheet), s)
     IN Null \notin {s.cash, p.cash, c.net} /\ Spaced(s, p.date)
Ties(b) ==
  {Tie(Lag(InForce(b.sheet), x[1]), x[1], x[2]) :
     x \in {y \in InForce(b.sheet) \X InForce(b.flow) : Comparable(b, y[1], y[2])}}
Failing(b) == {t \in Ties(b) : Mag(t.gap) * 1000 > t.tol}

Offset(t, l) == Mag(t.gap + l.gap) * 1000 <= Least(t.tol, l.tol)

\* It cancels the failing gap before it, over the balance sheet between them.
Cancels(failing, t) ==
  /\ Preceding(failing, t) # {}
  /\ LET l == Lag(failing, t) IN t.prev = l.date /\ Offset(t, l)
NextCancels(failing, t) ==
  Following(failing, t) # {} /\ Cancels(failing, Lead(failing, t))

\* count(*) FILTER (WHERE NOT closes), and row_number() within that run.
Upto(failing, t)  == Preceding(failing, t) \cup {t}
Run(failing, t)   == Cardinality({l \in Upto(failing, t) : ~Cancels(failing, l)})
RowNumber(failing, t) ==
  Cardinality({l \in Upto(failing, t) : Run(failing, l) = Run(failing, t)})

\* Mutant of Opens: any gap the next one cancels is the first half of a pair.
OpensAny(failing, t) == NextCancels(failing, t) \/ ~Cancels(failing, t)

\* An odd place in its run.
Opens(failing, t) == RowNumber(failing, t) % 2 = 1

Lone(failing) == {t \in failing : Opens(failing, t) /\ ~NextCancels(failing, t)}
Pairs(failing) == {t \in failing : Opens(failing, t) /\ NextCancels(failing, t)}

CashBalanceFound(b) ==
  LET F == Failing(b)
  IN {Hit("cash_balance_tie", "", PeriodKey(t), "warn", Only(t.prev)) : t \in Lone(F)}
       \cup {Hit("cash_balance_tie", "cash_and_equivalents", PeriodKey(t), "warn",
                 Only(t.prev)) : t \in Pairs(F)}

-----------------------------------------------------------------------------
(* The series *)

\* detect_fundamentals_gap: the period ends in force, and the steps between them.
Ends(b)  == {i.date : i \in InForce(b.income)}
Steps(ends) ==
  {p \in ends \X ends : p[1] < p[2] /\ \A e \in ends : ~(p[1] < e /\ e < p[2])}
Untold(b) ==
  {p \in Steps(Ends(b)) : /\ p[2] - p[1] > GapDays
                          /\ \E d \in b.bars : p[1] < d /\ d < p[2]}
FirstOf(days) == CHOOSE d \in days : \A e \in days : d <= e
LastOf(days)  == CHOOSE d \in days : \A e \in days : e <= d
Started(b) == Most(FirstOf(b.bars), CoverageFloor)
Unlisted(b) ==
  {<<Started(b), e>> : e \in {d \in Ends(b) : /\ b.bars # {} /\ d = FirstOf(Ends(b))
                                             /\ d - Started(b) > GapDays}}
GapFound(b) ==
  {Hit("fundamentals_gap", "", <<"", p[1], p[2]>>, "info", <<"inner", p[1], p[2]>>)
     : p \in Untold(b)}
    \cup {Hit("fundamentals_gap", "", <<"", p[1], p[2]>>, "info", <<"leading", p[1], p[2]>>)
            : p \in Unlisted(b)}

\* detect_fundamentals_stale: percentile_cont(0.5) of the steps, doubled.
Middle(steps, half) ==
  FirstOf({p[2] - p[1] : p \in {q \in steps :
             2 * Cardinality({o \in steps : o[2] - o[1] <= q[2] - q[1]}) >= half}})
TwiceSpacing(steps) ==
  Middle(steps, Cardinality(steps)) + Middle(steps, Cardinality(steps) + 1)
StaleAllowed(steps) ==
  IF steps = {} THEN 500
  ELSE IF TwiceSpacing(steps) <= 200 THEN 200
  ELSE IF TwiceSpacing(steps) <= 400 THEN 300
  ELSE 500
AgedFound(b) ==
  {Hit("fundamentals_stale", "", Only(e), "warn", Only(e)) :
     e \in {d \in Ends(b) :
              /\ d = LastOf(Ends(b)) /\ b.act
              /\ b.today - d > StaleAllowed(Steps({c \in Ends(b) : c > d - CadenceDays}))}}

\* detect_fundamentals_ttm_incomplete
Quarters(b) == {i \in InForce(b.income) : i.type = "quarter"}
Contiguous(q, p) ==
  /\ (q.year * 4 + q.quarter) - (p.year * 4 + p.quarter) = 1
  /\ q.date - p.date \in QuarterGap
Trailing(b, q) ==
  LET p == Lag(Quarters(b), q) o == Lag(Quarters(b), p) n == Lag(Quarters(b), o)
  IN Contiguous(q, p) /\ Contiguous(p, o) /\ Contiguous(o, n)
HalfYearly(b, year) == {q.quarter : q \in {i \in Quarters(b) : i.year = year}} = {2, 4}
TrailingFound(b) ==
  {Hit("fundamentals_ttm_incomplete", "", Only(y), "info", Only(y)) :
     y \in {q.year : q \in {i \in Quarters(b) :
              /\ Cardinality(Preceding(Quarters(b), i)) >= 3
              /\ ~Trailing(b, i) /\ ~HalfYearly(b, i.year)}}}

\* detect_fundamentals_ytd_suspect: four reported quarters against the year's only
\* annual period.  The sum is the caller's.
\* Mutant of Years: a year with two annual periods is judged by either.
YearsAny(rows) == {r \in InForce(rows) : r.type = "annual"}

Years(rows) ==
  {r \in InForce(rows) : /\ r.type = "annual"
                         /\ \A q \in InForce(rows) :
                              (q.type = "annual" /\ q.year = r.year) => q = r}
SumOf(rows, item) ==
  LET add[R \in SUBSET rows] ==
        IF R = {} THEN 0 ELSE LET r == CHOOSE q \in R : TRUE IN r[item] + add[R \ {r}]
  IN add[rows]
YtdOf(table, rows, item) ==
  {Hit("fundamentals_ytd_suspect", item, Only(r.year), "warn", PeriodKey(r)) :
     r \in {a \in Years(rows) :
              LET four == {q \in InForce(rows) : /\ q.type = "quarter" /\ q.year = a.year
                                                 /\ q[item] # Null}
              IN /\ a[item] \notin {0, Null}
                 /\ Cardinality(four) = 4
                 /\ Mag(SumOf(four, item)) * 2 > 3 * Mag(a[item])}}
YtdFound(b) ==
  YtdOf("income", b.income, "revenue") \cup YtdOf("flow", b.flow, "operating")

-----------------------------------------------------------------------------
(* The values *)

\* detect_fundamentals_currency_mismatch, check_fundamentals_unmapped_fields
CurrencyFound(b) ==
  {Hit("fundamentals_currency_mismatch", c, Only(0), "info", Only(0)) :
     c \in {i.currency : i \in InForce(b.income)} \ {Null, b.currency}}
UnmappedFound(b) ==
  {Hit("fundamentals_unmapped_fields", c, Only(0), "info", Only(0)) :
     c \in UNION {i.unmapped : i \in b.income}}

\* detect_fundamentals_negative_impossible
Below(x) == x # Null /\ x < 0
NegativeFound(b) ==
  {Hit("fundamentals_negative_impossible", "income", VersionKey(t),
       IF b.financial /\ ~Below(t.shares) /\ ~Below(t.diluted) THEN "info" ELSE "error",
       VersionKey(t))
     : t \in {i \in b.income : Below(i.revenue) \/ Below(i.shares) \/ Below(i.diluted)}}
    \cup {Hit("fundamentals_negative_impossible", "sheet", VersionKey(t), "error",
              VersionKey(t))
            : t \in {s \in b.sheet : Below(s.assets) \/ Below(s.shares)}}

\* detect_fundamentals_suspicious_zero: between two neighbours that report the item.
Reported(x) == x \notin {0, Null}
ZeroBetween(rows, r, item) ==
  /\ r[item] = 0
  /\ Preceding(rows, r) # {} /\ Reported(Lag(rows, r)[item])
  /\ Following(rows, r) # {} /\ Reported(Lead(rows, r)[item])

\* Mutant of ZeroOf: the key does not name the statement.
ZeroOfAny(table, rows) ==
  {Hit("fundamentals_suspicious_zero", "", PeriodKey(r), "info", <<table, r.date, r.no>>) :
     r \in {q \in rows : \E item \in NeverZero[table] : ZeroBetween(rows, q, item)}}

ZeroOf(table, rows) ==
  {Hit("fundamentals_suspicious_zero", table, PeriodKey(r), "info", <<table, r.date, r.no>>) :
     r \in {q \in rows : \E item \in NeverZero[table] : ZeroBetween(rows, q, item)}}
ZeroFound(b) ==
  ZeroOf("income", InForce(b.income)) \cup ZeroOf("sheet", InForce(b.sheet))
    \cup ZeroOf("flow", InForce(b.flow))

\* detect_fundamentals_implausible_filing_lag
LagFound(b) ==
  {Hit("fundamentals_implausible_filing_lag", "", VersionKey(t), "warn", VersionKey(t)) :
     t \in {i \in b.income : i.filed /\ i.from - i.date < FilingLagMin}}

\* detect_fundamentals_version_chain: over (ORDER BY known_from, version_no).
Successors(rows, v) ==
  {w \in rows : /\ PeriodKey(w) = PeriodKey(v)
                /\ v.from < w.from \/ (v.from = w.from /\ v.no < w.no)}
Chains(rows, v) ==
  IF Successors(rows, v) = {} THEN v.to = Null
  ELSE \E w \in Successors(rows, v) :
         v.to = w.from /\ \A u \in Successors(rows, v) : w.from <= u.from
ChainOf(table, rows) ==
  {Hit("fundamentals_version_chain", table, k, "error", k) :
     k \in {PeriodKey(v) : v \in {w \in rows : ~Chains(rows, w)}}}
ChainFound(b) ==
  ChainOf("income", b.income) \cup ChainOf("sheet", b.sheet) \cup ChainOf("flow", b.flow)

\* check_fundamentals_coverage
Uncovered(b) == b.act /\ b.covered /\ InForce(b.income) = {}
CoverageFound(b) ==
  {Hit("fundamentals_coverage", "", Only(0), "info", Only(0)) : x \in {y \in {0} : Uncovered(b)}}

\* FUNDAMENTALS_CHECKS
Found(b) ==
  IdentityFound(b) \cup CashFlowFound(b) \cup CashBalanceFound(b) \cup GapFound(b)
    \cup AgedFound(b) \cup CurrencyFound(b) \cup UnmappedFound(b) \cup TrailingFound(b)
    \cup NegativeFound(b) \cup CoverageFound(b) \cup ZeroFound(b) \cup LagFound(b)
    \cup YtdFound(b) \cup ChainFound(b)

-----------------------------------------------------------------------------
(* The queue *)

FoundOnce(b) ==
  LET rows == Found(b) IN \A h, g \in rows : SameKey(h, g) => h = g

Opened(h) == [check |-> h.check, on |-> h.on, key |-> h.key, severity |-> h.severity]

\* _FUNDAMENTALS_COVERAGE_SQL
CoverageGone(b) == InForce(b.income) # {} \/ ~(b.act /\ b.covered)

\* _redetect_sql: the query selects it no more, or at another severity.  An unmapped
\* column is not rechecked.
Redetected(b, f) ==
  CASE f.check = "fundamentals_unmapped_fields" -> TRUE
    [] f.check = "fundamentals_coverage"        -> ~CoverageGone(b)
    [] OTHER -> \E h \in Found(b) : SameKey(h, f) /\ h.severity = f.severity

StatementInit == books \in Filings /\ flags = {} /\ amended = 0

\* _write_flags of every check: a condition that is open is not written again.  A run
\* that meets the index leaves nothing.
StatementRun ==
  /\ FoundOnce(books)
  /\ flags' = flags \cup {Opened(h) : h \in {g \in Found(books) :
                                               \A f \in flags : ~SameKey(g, f)}}
  /\ UNCHANGED <<books, amended>>

StatementRecheck ==
  /\ flags' = {f \in flags : Redetected(books, f)}
  /\ UNCHANGED <<books, amended>>

\* A load, a restatement, a bar, a classification or the passing of time.
BooksChange ==
  /\ amended < MaxAmended /\ amended' = amended + 1
  /\ books' \in Amended
  /\ UNCHANGED flags

StatementNext == StatementRun \/ StatementRecheck \/ BooksChange

StatementSpec == StatementInit /\ [][StatementNext]_statements

-----------------------------------------------------------------------------
(* Properties *)

\* The gaps a condition of the cash-balance check accounts for: on a cash flow that
\* period's; on a balance sheet's cash the one that ends there and the one that starts.
AccountsFor(pairs, t, u) ==
  /\ u.type = t.type
  /\ u.date = t.date \/ (t \in pairs /\ u.prev = t.date)

\* Every gap between a change in cash and its cash flow is flagged exactly once: on its
\* own cash flow, or as one half of exactly one pair, whose halves cancel ("one
\* condition on that balance sheet rather than two on the cash flows"; "alternating gaps
\* are every other balance sheet out of line, not every one", detect_cash_balance_tie).
EveryGapOnce ==
  LET F == Failing(books)
      lone == Lone(F)
      pairs == Pairs(F)
  IN /\ \A u \in F :
          \E t \in lone \cup pairs :
            /\ AccountsFor(pairs, t, u)
            /\ \A o \in lone \cup pairs : AccountsFor(pairs, o, u) => o = t
     /\ \A t \in pairs : \E u \in F : u.type = t.type /\ u.prev = t.date /\ Offset(u, t)

\* No detector selects one condition from two rows: the INSERT would hold it twice, and
\* the index would undo the night's checks ("two annual rows would be two flags on one
\* key"; "one period failing in two tables would otherwise be one condition").
NightIsWritten == FoundOnce(books)
=============================================================================
