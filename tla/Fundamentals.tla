---------------------------- MODULE Fundamentals ----------------------------
(***************************************************************************)
(* Sharadar's SF1 loaded as statement versions on two timelines            *)
(* (ingest/fundamentals.py, migrations 0035 and 0036, ADR 0018), for one   *)
(* vendor key, one security and one statement.                             *)
(*                                                                         *)
(* SF1 lists a period's first reports, one row per filing, and its restated*)
(* row, which carries no date of its own; it re-expresses every share count*)
(* at each split. The night fetches the rows stamped since the last file,  *)
(* and the load merges the files it has not applied, plans what they do to *)
(* the versions held and writes that in one transaction.                   *)
(*                                                                         *)
(* A figure stands for every money item. Share counts are kept in base-two *)
(* logarithms, of a count that is 1 before any split and that each split   *)
(* doubles: dividing by the splits after a day is a subtraction.           *)
(***************************************************************************)
EXTENDS Integers, Sequences, FiniteSets, FiniteSetsExt

CONSTANTS
    Periods,     \* the period ends (fiscal_date), days
    Figures,     \* the money values SF1 can serve
    MaxDay,      \* bound: the last day
    MaxEvents,   \* bound: what SF1 and its issuers do
    MaxFails,    \* bound: fetches and loads that fail
    MaxFulls,    \* bound: full files fetched
    Alone        \* SF1 stamps only the row that changed, not the whole period

NoFigure == "none"          \* no restated row

ASSUME ConstantsAssumption ==
    /\ MaxDay \in Nat /\ MaxDay >= 1 /\ MaxEvents \in Nat /\ MaxFails \in Nat /\ MaxFulls \in Nat
    /\ Periods \subseteq 0..MaxDay /\ NoFigure \notin Figures
    /\ Alone \in BOOLEAN

Days == 1..MaxDay
Null == 0                   \* NULL in a date's column
NoCount == MaxDay + 1       \* NULL in shares_outstanding: more than every split

VARIABLES
    today,
    phase,       \* "day", or "night" once the night has fetched
    reports,     \* SF1's first-reported rows of each period, one per filing
    restated,    \* SF1's restated row of each period
    splits,      \* the ex-dates, as ACTIONS lists them
    full,        \* the current full SF1 file
    pending,     \* the delta files no completed load has applied, oldest first
    backfilled,  \* a backfill has completed
    rows,        \* the statement table, superseded rows included
    spent        \* [events, fails, fulls]

world == <<reports, restated, splits>>
ledger == <<full, pending>>
vars == <<today, phase, reports, restated, splits, full, pending, backfilled, rows, spent>>

----------------------------------------------------------------------------
\* Share terms

\* split_product: the doublings after a day, of the splits known today.
SplitsAfter(d) == Cardinality({s \in splits : s > d})

\* in_terms: a count served in the terms of `terms`, in those of the day d.
Shares(terms, d) == terms - SplitsAfter(d)

\* moved: whether two versions' values differ; a restated row is compared
\* without the cover count.
Moved(held, new, cover) ==
    \/ held.figure # new.figure
    \/ held.shares # new.shares
    \/ cover /\ held.cover # new.cover

----------------------------------------------------------------------------
\* The files a load reads

\* Mutant: the latest filing of a period is taken for its first report.
LastFiling(listed) ==
    {r \in listed : \A s \in listed : s # r => r.filed > s.filed}

\* _twins and _first_filing: the earliest filing of a period is its first
\* report; two that differ on the earliest day are twins, and neither loads.
FirstFiling(listed) ==
    {r \in listed : \A s \in listed : s # r => r.filed < s.filed}

\* What a file says of a period, in the share terms of the day it was fetched.
Rows(f, p) ==
    [first |-> {[filed |-> r.filed, figure |-> r.figure, terms |-> f.terms]
                : r \in FirstFiling(f.reports[p])},
     later |-> IF f.restated[p] = NoFigure THEN {}
               ELSE {[figure |-> f.restated[p], terms |-> f.terms]}]

\* Mutant: the file fetched first wins.
Oldest(found) ==
    UNION {found[i] : i \in {j \in DOMAIN found : \A k \in DOMAIN found : found[k] # {} => j <= k}}

\* _merged_deltas: where two files hold a row, the one stamped later wins. The
\* files come oldest first, and SF1 never stamps backwards.
Newest(found) ==
    UNION {found[i] : i \in {j \in DOMAIN found : \A k \in DOMAIN found : found[k] # {} => k <= j}}

Merged(files, p) ==
    [first |-> Newest([i \in DOMAIN files |-> Rows(files[i], p).first]),
     later |-> Newest([i \in DOMAIN files |-> Rows(files[i], p).later])]

----------------------------------------------------------------------------
\* Planning: what a key's rows do to the versions it holds

Current(table, p) == {r \in table : r.period = p /\ r.until = Null}

\* Book.in_force
InForce(table, p) == {r \in Current(table, p) : r.to = Null}

\* _version, of a first-reported row: version 1, known from its filing.
Filed(p, row) ==
    [period |-> p, no |-> 1, from |-> row.filed, to |-> Null, source |-> "filed",
     filed |-> row.filed, figure |-> row.figure, shares |-> Shares(row.terms, row.filed),
     cover |-> Shares(row.terms, row.filed), loaded |-> today, until |-> Null]

\* The hash or the values say that nothing changed.
Unchanged(held, new) == held.filed = new.filed /\ ~Moved(held, new, TRUE)

\* Mutant: a correction is never refused.
NeverRefused(held, new) == FALSE

\* The corrected filing is no earlier than a restatement already dated: the
\* version cannot be re-dated without moving its successor.
Refused(held, new) == held.to # Null /\ held.to <= new.from

\* _first_reported: another first report of a period held is a correction. The
\* row is superseded, and the corrected one keeps the end of its interval.
FirstReported(table, p, row) ==
    LET first == {r \in Current(table, p) : r.no = 1}
        new == Filed(p, row)
        corrected == {r \in first : ~Unchanged(r, new) /\ ~Refused(r, new)}
    IN  IF first = {} THEN table \union {new}
        ELSE (table \ corrected)
               \union {[r EXCEPT !.until = today] : r \in corrected}
               \union {[new EXCEPT !.to = r.to] : r \in corrected}

\* next_filing: the first filing, held or read with this one, that could carry
\* a restated figure of the period.
NextFiling(filings, p) == {f.filed : f \in {g \in filings : g.period >= p}}

\* _restated, where nothing is held: known from the issuer's next filing, else
\* from the load.
RestatedAlone(p, row, filings) ==
    LET later == NextFiling(filings, p)
        from == IF later = {} THEN today ELSE Min(later)
    IN  [period |-> p, no |-> 1, from |-> from, to |-> Null,
         source |-> IF later = {} THEN "observed" ELSE "estimated",
         filed |-> Null, figure |-> row.figure,
         shares |-> Shares(row.terms, from), cover |-> NoCount,
         loaded |-> today, until |-> Null]

\* Mutant: a restatement is known from the day after the version it follows.
KnownAfter(force) == force.from + 1

\* A restatement is known from the day it is loaded, and never on the day the
\* version before it is.
KnownFrom(force) == IF today > force.from THEN today ELSE force.from + 1

\* _restated, where the row differs from the version in force. The count on the
\* cover is carried from that version, into the new one's terms.
Restatement(held, force, row) ==
    LET from == KnownFrom(force)
        carried == SplitsAfter(force.from) - SplitsAfter(from)
    IN  [period |-> force.period, no |-> Max({r.no : r \in held}) + 1, from |-> from,
         to |-> Null, source |-> "observed", filed |-> Null,
         figure |-> row.figure, shares |-> Shares(row.terms, from),
         cover |-> IF force.cover = NoCount THEN NoCount ELSE force.cover + carried,
         loaded |-> today, until |-> Null]

\* Mutant: compared as served.
ComparedAsServed(force, row) == [figure |-> row.figure, shares |-> row.terms]

\* A restated row is compared in the share terms of the version in force.
Compared(force, row) == [figure |-> row.figure, shares |-> Shares(row.terms, force.from)]

\* _restated: a row that differs is a new version, and closes the version in
\* force on the day it starts.
Restated(table, p, row, filings) ==
    LET closed == {r \in InForce(table, p) : Moved(r, Compared(r, row), FALSE)}
    IN  IF Current(table, p) = {} THEN table \union {RestatedAlone(p, row, filings)}
        ELSE (table \ closed)
               \union {[r EXCEPT !.to = KnownFrom(r)] : r \in closed}
               \union {Restatement(Current(table, p), r, row) : r \in closed}

\* Mutant: restated rows before first-reported ones.
RestatedFirst(table, p, said, filings) ==
    LET later == IF said.later = {} THEN table
                 ELSE Restated(table, p, CHOOSE r \in said.later : TRUE, filings)
    IN  IF said.first = {} THEN later
        ELSE FirstReported(later, p, CHOOSE r \in said.first : TRUE)

\* plan: first-reported rows before restated ones, so that a restated row meets
\* the version its twin has just written.
Planned(table, p, said, filings) ==
    LET first == IF said.first = {} THEN table
                 ELSE FirstReported(table, p, CHOOSE r \in said.first : TRUE)
    IN  IF said.later = {} THEN first
        ELSE Restated(first, p, CHOOSE r \in said.later : TRUE, filings)

\* Book.filings, and those of the rows read.
Filings(table, said) ==
    (UNION {{[period |-> p, filed |-> r.filed] : r \in said[p].first} : p \in Periods})
      \union {[period |-> r.period, filed |-> r.filed]
              : r \in {s \in table : s.until = Null /\ s.source = "filed"}}

\* _load_key and _write: the key's rows, in one transaction.
Written(table, said) ==
    UNION {Planned({r \in table : r.period = p}, p, said[p], Filings(table, said))
           : p \in Periods}

----------------------------------------------------------------------------
\* What SF1 and its issuers do, by day

Daytime == phase = "day" /\ today <= MaxDay
Event == Daytime /\ spent.events < MaxEvents
Spend(what) == spent' = [spent EXCEPT ![what] = @ + 1]

\* A change to a period's rows stamps the row, or every row of the period.
Stamped(set) == IF Alone THEN set ELSE {[r EXCEPT !.fresh = TRUE] : r \in set}

NoRow == [figure |-> NoFigure, fresh |-> FALSE]
Served(f) == [figure |-> f, fresh |-> TRUE]
Restamped(p) == IF Alone \/ restated[p] = NoRow THEN restated[p]
                ELSE Served(restated[p].figure)

\* (A filing of a day that already has one is left out: the two are twins.)
\* SF1 lists a filing of a period: its first, with the restated row the same
\* figures make, or a later one (a 10-K/A), which is also a first-reported row.
File(p, f, d) ==
    /\ Event /\ p <= d /\ d <= today
    /\ \A r \in reports[p] : r.filed < d
    /\ Cardinality(reports[p]) < 2
    /\ reports' = [reports EXCEPT ![p] =
           Stamped(@) \union {[filed |-> d, figure |-> f, fresh |-> TRUE]}]
    /\ restated' = [restated EXCEPT ![p] = Served(f)]
    /\ Spend("events")
    /\ UNCHANGED <<today, phase, splits, ledger, backfilled, rows>>

\* A later filing's comparatives restate a period, which may have no report.
Restate(p, f) ==
    /\ Event /\ p <= today /\ restated[p].figure # f
    /\ reports' = [reports EXCEPT ![p] = Stamped(@)]
    /\ restated' = [restated EXCEPT ![p] = Served(f)]
    /\ Spend("events")
    /\ UNCHANGED <<today, phase, splits, ledger, backfilled, rows>>

\* SF1 fixes its record of a filing: its figures, or its date.
Fix(p, r, f, d) ==
    /\ Event /\ p <= d /\ d <= today
    /\ r.figure # f \/ r.filed # d
    /\ \A s \in reports[p] \ {r} : s.filed # d
    /\ reports' = [reports EXCEPT ![p] =
           Stamped(@ \ {r}) \union {[filed |-> d, figure |-> f, fresh |-> TRUE]}]
    /\ restated' = [restated EXCEPT ![p] = Restamped(p)]
    /\ Spend("events")
    /\ UNCHANGED <<today, phase, splits, ledger, backfilled, rows>>

\* A split trades from today: ACTIONS lists it, and SF1 re-expresses and stamps
\* every row of the issuer, before the day's first file is fetched.
Split ==
    /\ Event /\ today \notin splits
    /\ full.file.day # today /\ \A r \in rows : r.loaded # today
    /\ splits' = splits \union {today}
    /\ reports' = [p \in Periods |-> {[r EXCEPT !.fresh = TRUE] : r \in reports[p]}]
    /\ restated' = [p \in Periods |->
           IF restated[p] = NoRow THEN NoRow ELSE Served(restated[p].figure)]
    /\ Spend("events")
    /\ UNCHANGED <<today, phase, ledger, backfilled, rows>>

----------------------------------------------------------------------------
\* The ledger's files

Listing(R, M) == [day |-> today, terms |-> Cardinality(splits),
                reports |-> R, restated |-> M]

NoFull == [file |-> [day |-> 0, terms |-> 0, reports |-> [p \in Periods |-> {}],
                     restated |-> [p \in Periods |-> NoFigure]],
           after |-> 0]

\* source sharadar-bulk --tables SF1: every row SF1 holds.
FetchFull ==
    /\ Daytime /\ spent.fulls < MaxFulls
    /\ full' = [file |-> Listing(reports, [p \in Periods |-> restated[p].figure]),
                after |-> Len(pending)]
    /\ Spend("fulls")
    /\ UNCHANGED <<today, phase, world, pending, backfilled, rows>>

NothingFresh == \A p \in Periods : ~restated[p].fresh /\ \A r \in reports[p] : ~r.fresh

\* fetch_delta: the rows stamped since the newest file; an empty answer records
\* no file.
FetchDelta ==
    /\ Daytime
    /\ phase' = "night"
    /\ pending' = IF NothingFresh THEN pending
                  ELSE Append(pending,
                         Listing([p \in Periods |-> {r \in reports[p] : r.fresh}],
                               [p \in Periods |-> IF restated[p].fresh
                                                  THEN restated[p].figure ELSE NoFigure]))
    /\ reports' = [p \in Periods |-> {[r EXCEPT !.fresh = FALSE] : r \in reports[p]}]
    /\ restated' = [p \in Periods |-> [restated[p] EXCEPT !.fresh = FALSE]]
    /\ UNCHANGED <<today, splits, full, backfilled, rows, spent>>

\* SF1 re-expresses its history and ACTIONS lists the split on one day, and the
\* files a load reads know the splits it divides by.
InStep(f) == f.terms = Cardinality(splits)

\* The SF1 delta fails and the night goes on: the next delta starts where this
\* one would have.
FetchFails ==
    /\ Daytime /\ spent.fails < MaxFails
    /\ (pending # <<>> => InStep(pending[Len(pending)]))
    /\ phase' = "night"
    /\ Spend("fails")
    /\ UNCHANGED <<today, world, ledger, backfilled, rows>>

----------------------------------------------------------------------------
\* The loads

Said(files) == [p \in Periods |-> Merged(files, p)]

\* A backfill reads the current full file, whatever the ledger's deltas, and
\* commits the key's rows. Completed, it takes over: the deltas recorded before
\* its file count as applied. The runbook keeps a file for a resumed run only,
\* and never reads one the nightly's deltas have passed (NoFull).
Backfill(done) ==
    /\ Daytime /\ full # NoFull /\ InStep(full.file)
    /\ \E p \in Periods : full.file.reports[p] # {} \/ full.file.restated[p] # NoFigure
    /\ rows' = Written(rows, Said(<<full.file>>))
    /\ \/ /\ done
          /\ backfilled' = TRUE
          /\ pending' = SubSeq(pending, full.after + 1, Len(pending))
          /\ full' = [full EXCEPT !.after = 0]
          /\ UNCHANGED spent
       \/ /\ ~done /\ spent.fails < MaxFails /\ Spend("fails")
          /\ UNCHANGED <<backfilled, ledger>>
    /\ UNCHANGED <<today, phase, world>>

\* The full file, unless a load has read a delta recorded after it.
Unpassed == IF Len(pending) > full.after THEN NoFull ELSE full

EndDay == phase' = "day" /\ today' = today + 1

\* The nightly waits for a backfill: its deltas stay pending.
Waits ==
    /\ phase = "night" /\ (~backfilled \/ rows = {})
    /\ EndDay
    /\ UNCHANGED <<world, ledger, backfilled, rows, spent>>

\* The nightly applies the pending deltas and records that it did.
Load ==
    /\ phase = "night" /\ backfilled /\ rows # {}
    /\ rows' = Written(rows, Said(pending))
    /\ pending' = <<>>
    /\ full' = [Unpassed EXCEPT !.after = 0]
    /\ EndDay
    /\ UNCHANGED <<world, backfilled, spent>>

\* The load breaks before this key's transaction or after it, or is narrowed to
\* some securities: either way the deltas stay pending.
LoadBreaks(wrote) ==
    /\ phase = "night" /\ backfilled /\ rows # {}
    /\ spent.fails < MaxFails
    /\ \/ /\ wrote
          /\ rows' = Written(rows, Said(pending))
          /\ full' = Unpassed
       \/ ~wrote /\ UNCHANGED <<rows, full>>
    /\ Spend("fails")
    /\ EndDay
    /\ UNCHANGED <<world, pending, backfilled>>

----------------------------------------------------------------------------
Init ==
    /\ today = 1 /\ phase = "day"
    /\ reports = [p \in Periods |-> {}]
    /\ restated = [p \in Periods |-> NoRow]
    /\ splits = {} /\ full = NoFull /\ pending = <<>>
    /\ backfilled = FALSE /\ rows = {}
    /\ spent = [events |-> 0, fails |-> 0, fulls |-> 0]

World ==
    \/ \E p \in Periods, f \in Figures, d \in Days : File(p, f, d)
    \/ \E p \in Periods, f \in Figures : Restate(p, f)
    \/ \E p \in Periods : \E r \in reports[p], f \in Figures, d \in Days : Fix(p, r, f, d)
    \/ Split

\* `ingest fundamentals`: the backfill, the nightly load, or what stops it.
IngestFundamentals ==
    \/ \E done \in BOOLEAN : Backfill(done)
    \/ Waits \/ Load
    \/ \E wrote \in BOOLEAN : LoadBreaks(wrote)

Next ==
    \/ World
    \/ FetchFull \/ FetchDelta \/ FetchFails
    \/ IngestFundamentals

Spec == Init /\ [][Next]_vars

----------------------------------------------------------------------------
\* fn_statements_as_of(as_of, load_as_of): of the rows held on load day t, the
\* version in force on day d, each known until the next version held begins.
Shown(r) == [no |-> r.no, from |-> r.from, source |-> r.source,
             figure |-> r.figure, shares |-> r.shares, cover |-> r.cover]

Loaded(r, t) == r.loaded <= t /\ (r.until = Null \/ t < r.until)

HeldOn(t, p) == {Shown(r) : r \in {s \in rows : s.period = p /\ Loaded(s, t)}}

\* held_known_to: no version held after v begins by day d.
NotYetFollowed(held, v, d) ==
    \A w \in held : (w.no > v.no /\ \A u \in held : u.no > v.no => w.no <= u.no) => d < w.from

InForceOn(held, d) == {v \in held : v.from <= d /\ NotYetFollowed(held, v, d)}

Unknown == [no |-> 0]

Answer(held, d) ==
    IF InForceOn(held, d) = {} THEN Unknown ELSE CHOOSE v \in InForceOn(held, d) : TRUE

AsOf(t, p, d) == Answer(HeldOn(t, p), d)

\* What a read on each load day answers, for each knowledge day.
Held == [t \in Days |-> [p \in Periods |-> [d \in 1..(MaxDay + 2) |-> AsOf(t, p, d)]]]

History == INSTANCE StatementHistory WITH
    LoadDays <- Days, KnowledgeDays <- 1..(MaxDay + 2), held <- Held

----------------------------------------------------------------------------
\* Properties

\* Every variable holds a value of its kind: SF1's rows, the files, and the
\* statement table as migration 0035 types it.
Report == [filed : Days, figure : Figures, fresh : BOOLEAN]
File1 == [day : 0..MaxDay, terms : Nat, reports : [Periods -> SUBSET Report],
          restated : [Periods -> Figures \union {NoFigure}]]
Row == [period : Periods, no : Nat \ {0}, from : Nat \ {0}, to : Nat,
        source : {"filed", "estimated", "observed"}, filed : Days \union {Null},
        figure : Figures, shares : Int, cover : Int, loaded : Days,
        until : Days \union {Null}]

TypeOK ==
    /\ today \in 1..(MaxDay + 1) /\ phase \in {"day", "night"}
    /\ reports \in [Periods -> SUBSET Report]
    /\ restated \in [Periods -> [figure : Figures \union {NoFigure}, fresh : BOOLEAN]]
    /\ splits \subseteq Days
    /\ full \in [file : File1, after : Nat] /\ pending \in Seq(File1)
    /\ backfilled \in BOOLEAN /\ rows \subseteq Row
    /\ spent \in [events : Nat, fails : Nat, fulls : Nat]

\* The versions of a period, superseded rows aside, are one chain: numbered from
\* one, each known until the next is known and never on its day, the last one
\* open. Corrections that re-date a version, restatements on one day and the
\* two in one transaction must all leave it so (the unique indexes of 0035 hold
\* only one current row per version and one open row per period).
Chained ==
    \A p \in Periods :
        LET held == Current(rows, p)
        IN  /\ \A r, s \in held : r.no = s.no => r = s
            /\ \A r \in held : r.no > 1 =>
                   \E s \in held : s.no = r.no - 1 /\ s.to = r.from /\ s.from < r.from
            /\ \A r \in held : r.to = Null <=> \A s \in held : s.no <= r.no

\* A run that reads again what was read writes nothing: a night that failed, a
\* narrowed one and a resumed backfill all leave their files to be read again,
\* on a later day. (Files that do not know a split are not read.)
RereadIsQuiet ==
    \A files \in {<<full.file>>, pending} :
        files # <<>> /\ InStep(files[Len(files)]) =>
            LET once == Written(rows, Said(files))
            IN  Written(once, Said(files)) = once

\* A version known from tomorrow is in the terms of today's splits: one that
\* trades tomorrow is missed.
Missed(p) == \E r \in rows, s \in splits :
                r.period = p /\ r.loaded < s /\ s <= r.from

\* Everything SF1 has stamped was fetched and read by a load that completed.
Applied == phase = "day" /\ backfilled /\ pending = <<>> /\ NothingFresh

\* Once the files are applied, version 1 of a period is the earliest filing SF1
\* lists (a 10-K, not its 10-K/A), unless the correction was refused.
FirstReportHeld ==
    Applied => \A p \in Periods : \A r \in reports[p], v \in Current(rows, p) :
        v.no = 1 /\ (\A s \in reports[p] : r.filed <= s.filed)
            => \/ v.filed = r.filed /\ v.figure = r.figure
               \/ v.to # Null /\ v.to <= r.filed

\* Once the files are applied, the version in force carries SF1's restated row,
\* through failed nights, merged files, a resumed backfill and one that takes
\* over from the deltas before it.
RestatementHeld ==
    Applied => \A p \in Periods : restated[p] # NoRow =>
        \E v \in InForce(rows, p) : v.figure = restated[p].figure

\* A split's re-expression is never a version: a new version's figure is not
\* that of the version it closes, however many splits lie between.
SplitIsNoVersion ==
    [][\A p \in Periods : \A r, s \in Current(rows', p) :
          /\ \A q \in rows : q.period = p => q.no < r.no
          /\ r.no = s.no + 1 /\ ~Missed(p)
          => r.figure # s.figure]_vars

\* The table implements the two-axis history (ADR 0018, section 7): a read as of
\* a past load day answers for ever what it answered then, though rows are
\* superseded and closed in place, and no restatement is ever known before the
\* day it was loaded.
HistoryStands == History!Spec
=============================================================================
