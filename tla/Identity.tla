------------------------------ MODULE Identity ------------------------------
(***************************************************************************)
(* Who is who in FMP mode: securities, the periods their tickers belong to   *)
(* them (core.symbol_xref), and the night's steps that move both - renames    *)
(* (ingest/symbol_changes.py), the universe (ingest/security_master.py), the  *)
(* delisting sweep (ingest/delisted.py) and the prices that follow - with the *)
(* operator's repairs (`security merge-rename`, `dismiss-rename`,             *)
(* `venue-transfer`, `delist`).                                              *)
(*                                                                         *)
(* Around them a market: companies that list, change ticker, move venue and   *)
(* stop trading, and a vendor that names tickers only.                        *)
(***************************************************************************)
EXTENDS Integers, FiniteSets, FiniteSetsExt

CONSTANTS
  Companies,
  Tickers,      \* numbers: the order of their names
  Shuffles,     \* <<old, new>> that name two kinds of instrument, or an issue and its unit
  MaxDay, MaxSec, MaxEvents, MaxOps, MaxFails,   \* bounds
  Reach,         \* days the recent pages of the delisting feed reach back
  Grace,        \* TRADED_AFTER_GRACE_DAYS
  Recent,       \* RECENT_DELISTING_DAYS
  BarSessions,  \* RECENT_BAR_SESSIONS
  Heeds,        \* whether the operator gives a day that trading ended, merges for the
                \* oldest conflict first and declines a plan that re-opens another ticker
  None

Days == 1..MaxDay
Ids  == 1..MaxSec
Open == -1     \* the end of a period that has none: valid_to IS NULL

Security  == [sym : Tickers, name : Companies, off : 0..MaxDay,
              of : SUBSET Companies, first : 0..MaxDay, last : 0..MaxDay,
              stamp : Companies \cup {None}]
Period    == [sym : Tickers, sec : Ids, from : Nat, to : Nat \cup {Open}]
Rename    == [day : Days, old : Tickers, new : Tickers, co : Companies]
Recorded  == [day : Days, old : Tickers, new : Tickers, co : Companies,
              status : {"applied", "ignored", "conflict", "dismissed"},
              sec : Ids \cup {None}, was : Companies \cup {None}]
Delisting == [day : Days, sym : Tickers, co : Companies]
Entry     == [sym : Tickers, echoes : SUBSET Companies]
Stay      == [sym : Tickers, co : Companies, from : Days, to : Days]

ASSUME IdentityAssumption ==
  /\ Tickers \subseteq Nat /\ Shuffles \subseteq Tickers \X Tickers
  /\ MaxDay \in Nat \ {0} /\ MaxSec \in Nat \ {0}
  /\ {MaxEvents, MaxOps, MaxFails, Reach, Grace, Recent, BarSessions} \subseteq Nat
  /\ Heeds \in BOOLEAN
  /\ None \notin Companies /\ None \notin Nat
  /\ None \notin Security

VARIABLES
  today,
  on, since,    \* the ticker each company trades on, and its first day of trading
  took,         \* its first day on that ticker
  past,         \* its earlier tickers, with the days: what the screener may still serve
  renames,      \* the rename feed
  delistings,   \* the delisting feed; `co` is not in it, only in the properties
  secs,         \* core.security: a row, or None.  `off` is delisted_date, 0 for listed;
                \* `of`, `first`, `last` sum up its bars; `stamp` is who was delisted
  xref,         \* core.symbol_xref
  minted,       \* the last security_id given out
  recorded,     \* core.symbol_change
  conflicts,    \* open symbol_change_conflict flags
  judged,       \* security_delisting_contradicted flags: {"open", "accepted"} per record
  drift,        \* securities flagged security_company_name_drift
  ran,          \* today's night: "no", "started", "listed" once the universe is through
  phase, todo,  \* the night in flight
  events, ops, fails

world  == <<on, since, took, past, renames, delistings, events>>
master == <<secs, xref, minted>>
queues == <<recorded, conflicts, judged, drift>>
vars   == <<today, world, master, queues, ran, phase, todo, ops, fails>>

Rows == {s \in Ids : secs[s] # None}

TypeOK ==
  /\ today \in Days
  /\ on \in [Companies -> Tickers \cup {None}] /\ since \in [Companies -> 0..MaxDay]
  /\ took \in [Companies -> 0..MaxDay] /\ past \subseteq Stay
  /\ renames \subseteq Rename /\ delistings \subseteq Delisting
  /\ secs \in [Ids -> Security \cup {None}] /\ xref \subseteq Period
  /\ minted \in 0..MaxSec
  /\ recorded \subseteq Recorded /\ conflicts \subseteq Tickers \X Tickers
  /\ judged \subseteq (Ids \X Tickers \X Days \X {"open", "accepted"})
  /\ drift \subseteq Rows
  /\ {p.sec : p \in xref} \cup {j[1] : j \in judged} \subseteq Rows
  /\ {r.sec : r \in recorded} \subseteq Rows \cup {None}
  /\ ran \in {"no", "started", "listed"}
  /\ phase \in {"idle", "renames", "list", "delist", "prices"}
  /\ todo \subseteq (CASE phase = "renames" -> Rename [] phase = "list" -> Entry
                       [] OTHER -> Delisting)
  /\ events \in 0..MaxEvents /\ ops \in 0..MaxOps /\ fails \in 0..MaxFails

Init ==
  /\ today = 1
  /\ on = [c \in Companies |-> None] /\ since = [c \in Companies |-> 0]
  /\ took = [c \in Companies |-> 0] /\ past = {}
  /\ renames = {} /\ delistings = {}
  /\ secs = [s \in Ids |-> None] /\ xref = {} /\ minted = 0
  /\ recorded = {} /\ conflicts = {} /\ judged = {} /\ drift = {}
  /\ ran = "no" /\ phase = "idle" /\ todo = {}
  /\ events = 0 /\ ops = 0 /\ fails = 0

-----------------------------------------------------------------------------
(* The market.  A day's events come before its night. *)

Happens ==
  /\ ran = "no" /\ events < MaxEvents
  /\ events' = events + 1
  /\ UNCHANGED <<today, master, queues, ran, phase, todo, ops, fails>>

Vacant(t) == \A c \in Companies : on[c] # t
Stayed(c) == [sym |-> on[c], co |-> c, from |-> took[c], to |-> today - 1]

Lists(c, t) ==
  /\ since[c] = 0 /\ Vacant(t)
  /\ on' = [on EXCEPT ![c] = t] /\ since' = [since EXCEPT ![c] = today]
  /\ took' = [took EXCEPT ![c] = today]
  /\ UNCHANGED <<past, renames, delistings>>
  /\ Happens

\* Reported on its day.
ChangesTicker(c, t) ==
  /\ on[c] # None /\ Vacant(t) /\ took[c] < today
  /\ on' = [on EXCEPT ![c] = t] /\ took' = [took EXCEPT ![c] = today]
  /\ past' = past \cup {Stayed(c)}
  /\ renames' = renames \cup {[day |-> today, old |-> on[c], new |-> t, co |-> c]}
  /\ UNCHANGED <<since, delistings>>
  /\ Happens

\* The feed shuffles an issuer's tickers: it reports a rename to a unit or a warrant
\* while the company trades on as it did.
ReportsShuffle(c, t) ==
  /\ on[c] # None /\ <<on[c], t>> \in Shuffles
  /\ renames' = renames \cup {[day |-> today, old |-> on[c], new |-> t, co |-> c]}
  /\ renames' # renames
  /\ UNCHANGED <<on, since, took, past, delistings>>
  /\ Happens

\* Reported with its last day of trading.
StopsTrading(c) ==
  /\ on[c] # None /\ took[c] < today
  /\ on' = [on EXCEPT ![c] = None]
  /\ past' = past \cup {Stayed(c)}
  /\ delistings' = delistings \cup {[day |-> today - 1, sym |-> on[c], co |-> c]}
  /\ UNCHANGED <<since, took, renames>>
  /\ Happens

\* The feed reports a move to another venue like an end of trading.
MovesVenue(c, d) ==
  /\ on[c] # None /\ since[c] < today /\ d \in {today - 1, today}
  /\ delistings' = delistings \cup {[day |-> d, sym |-> on[c], co |-> c]}
  /\ delistings' # delistings
  /\ UNCHANGED <<on, since, took, past, renames>>
  /\ Happens

Tomorrow ==
  /\ ran # "no" /\ phase = "idle" /\ today < MaxDay
  /\ today' = today + 1
  /\ ran' = "no"
  /\ UNCHANGED <<world, master, queues, phase, todo, ops, fails>>

-----------------------------------------------------------------------------
(* Reading the master *)

Listed    == {s \in Rows : secs[s].off = 0}
OpenOn(t) == {p \in xref : p.sym = t /\ p.to = Open}
HoldersOf(t) == {p.sec : p \in OpenOn(t)} \cap Listed
NamedBy(t)   == {s \in Listed : secs[s].sym = t}

\* The listed security a ticker is live on: by its open period, else by its name.
Active(t) ==
  IF HoldersOf(t) # {} THEN CHOOSE s \in HoldersOf(t) : TRUE
  ELSE IF NamedBy(t) # {} THEN Min(NamedBy(t))
  ELSE None

\* The security that traded under a ticker on a day.
AsOf(t, d) ==
  LET serving == {p \in xref : /\ p.sym = t /\ p.from <= d /\ (p.to = Open \/ d <= p.to)
                               /\ p.from = 0 => secs[p.sec].first \in 1..d}
  IN IF serving = {} THEN None
     ELSE (CHOOSE p \in serving : \A q \in serving : q.from <= p.from).sec

Empty(s) == secs[s].first = 0

-----------------------------------------------------------------------------
(* Writing the master.  Each returns the new value of the table it names. *)

\* Where a period starts when no date is given: with the ticker's open period, or the
\* day after its last closed one.
StartOf(t, periods) ==
  LET open   == {p.from : p \in {q \in periods : q.sym = t /\ q.to = Open}}
      closed == {p.to : p \in {q \in periods : q.sym = t /\ q.to # Open}}
  IN IF open # {} THEN Max(open)
     ELSE IF closed # {} THEN Max(closed) + 1
     ELSE 0

\* The key is (symbol, valid_from): an open period changes hands, a closed one stays.
Claimed(periods, s, t, from) ==
  LET at == {p \in periods : p.sym = t /\ p.from = from}
  IN IF at = {} THEN periods \cup {[sym |-> t, sec |-> s, from |-> from, to |-> Open]}
     ELSE {IF p \in at /\ p.to = Open THEN [p EXCEPT !.sec = s] ELSE p : p \in periods}

Later(a, b) == IF a > b THEN a ELSE b

\* Close the open periods of a security, on one ticker or all, on a day.
Closed(periods, s, ts, d) ==
  {IF p.sec = s /\ p.sym \in ts /\ p.to = Open THEN [p EXCEPT !.to = Later(p.from, d)] ELSE p
     : p \in periods}

\* Mutant of DelistedPeriods: the periods stay open.
DelistedPeriodsOpen(s, d) == xref

\* mark_delisted: one-way, and the tickers are free for a later issuer.
DelistedPeriods(s, d) == Closed(xref, s, Tickers, d)

Stamped(s, d, c) ==
  /\ secs' = [secs EXCEPT ![s].off = d, ![s].stamp = c]
  /\ xref' = DelistedPeriods(s, d)

\* What deleted rows leave behind: periods go, the rest is the survivor's.
Without(periods, V) == {p \in periods : p.sec \notin V}
Repointed(V, s) == {IF r.sec \in V THEN [r EXCEPT !.sec = s] ELSE r : r \in recorded}
JudgedTo(V, s)  == {IF j[1] \in V THEN <<s, j[2], j[3], j[4]>> ELSE j : j \in judged}
DriftTo(V, s)   == IF drift \cap V = {} THEN drift ELSE (drift \ V) \cup {s}

\* Mutant of Foldable: any row is folded.
FoldableAny(victim) == TRUE

\* fold_empty_security: only a row without history.
Foldable(victim) == Empty(victim)

\* retarget_symbol: the old ticker's period ends the day before, the new one starts,
\* and the row takes the new name.
Retargeted(periods, s, old, new, d) ==
  Claimed(Closed(periods, s, {old}, d - 1), s, new, d)

-----------------------------------------------------------------------------
(* `ingest symbol-changes` *)

StartNight ==
  /\ ran = "no"
  /\ ran' = "started" /\ phase' = "renames" /\ todo' = renames
  /\ UNCHANGED <<today, world, master, queues, ops, fails>>

Key(r) == <<r.day, r.old, r.new>>
Status(r) == {x.status : x \in {y \in recorded : Key(y) = Key(r)}}
Terminal == {"applied", "ignored", "dismissed"}

Before(q, r) ==
  \/ q.day < r.day
  \/ q.day = r.day /\ q.old < r.old
  \/ q.day = r.day /\ q.old = r.old /\ q.new < r.new

\* Oldest first.
NextRename(r) == r \in todo /\ \A q \in todo \ {r} : Before(r, q)

Row(r, status, s, was) ==
  [day |-> r.day, old |-> r.old, new |-> r.new, co |-> r.co,
   status |-> status, sec |-> s, was |-> was]

\* The security an earlier sweep recorded: an update without one keeps it.
Named(r) == LET y == {x \in recorded : Key(x) = Key(r)}
            IN IF y = {} THEN None ELSE (CHOOSE x \in y : TRUE).sec

Record(rows, row) == {x \in rows : Key(x) # Key(row)} \cup {row}

\* Terminal already: only a flag left open on it is closed.
SkipRename(r) ==
  /\ phase = "renames" /\ NextRename(r) /\ Status(r) \cap Terminal # {}
  /\ conflicts' = IF "applied" \in Status(r) THEN conflicts \ {<<r.old, r.new>>}
                  ELSE conflicts
  /\ todo' = todo \ {r}
  /\ UNCHANGED <<today, world, master, recorded, judged, drift, ran, phase, ops, fails>>

\* rename_changes_instrument
IsShuffle(r) == <<r.old, r.new>> \in Shuffles

\* The old ticker is nobody's: ignored if its holder was delisted on it, taken for
\* applied if the new ticker is somebody's and is no shuffle, else left for a later sweep.
UnheldRename(r) ==
  /\ phase = "renames" /\ NextRename(r) /\ Status(r) \cap Terminal = {}
  /\ Active(r.old) = None
  /\ IF \E s \in Rows \ Listed : secs[s].sym = r.old
     THEN /\ recorded' = Record(recorded, Row(r, "ignored", Named(r), None))
          /\ UNCHANGED conflicts
     ELSE IF Active(r.new) # None /\ ~IsShuffle(r)
     THEN /\ recorded' = Record(recorded, Row(r, "applied", Active(r.new), None))
          /\ conflicts' = conflicts \ {<<r.old, r.new>>}
     ELSE UNCHANGED <<recorded, conflicts>>
  /\ todo' = todo \ {r}
  /\ UNCHANGED <<today, world, master, judged, drift, ran, phase, ops, fails>>

Blocker(r) == IF Active(r.new) \in {None, Active(r.old)} THEN {} ELSE {Active(r.new)}

\* Onto the security that holds the old ticker, an empty row on the new one folded.
ApplyRename(r) ==
  LET s == Active(r.old)
  IN /\ phase = "renames" /\ NextRename(r) /\ Status(r) \cap Terminal = {}
     /\ s # None /\ ~IsShuffle(r) /\ \A v \in Blocker(r) : Foldable(v)
     /\ secs' = [v \in Ids |-> IF v \in Blocker(r) THEN None
                               ELSE IF v = s THEN [secs[s] EXCEPT !.sym = r.new, !.name = r.co]
                               ELSE secs[v]]
     /\ xref' = Retargeted(Without(xref, Blocker(r)), s, r.old, r.new, r.day)
     /\ recorded' = Record(Repointed(Blocker(r), s), Row(r, "applied", s, secs[s].name))
     /\ conflicts' = conflicts \ {<<r.old, r.new>>}
     /\ drift' = DriftTo(Blocker(r), s) /\ judged' = JudgedTo(Blocker(r), s)
     /\ todo' = todo \ {r}
     /\ UNCHANGED <<today, world, minted, ran, phase, ops, fails>>

\* A shuffle, or two rows with history on one ticker: recorded and flagged, and retried
\* each night.
ConflictRename(r) ==
  /\ phase = "renames" /\ NextRename(r) /\ Status(r) \cap Terminal = {}
  /\ Active(r.old) # None /\ (IsShuffle(r) \/ \E v \in Blocker(r) : ~Foldable(v))
  /\ recorded' = Record(recorded, Row(r, "conflict", Active(r.old), None))
  /\ conflicts' = conflicts \cup {<<r.old, r.new>>}
  /\ todo' = todo \ {r}
  /\ UNCHANGED <<today, world, master, judged, drift, ran, phase, ops, fails>>

\* Mutant of RenamedAway: away from any ticker.
RenamedAwayAnywhere(t) ==
  UNION {({x.was, x.co, secs[x.sec].name} \ {None})
           : x \in {y \in recorded : y.status = "applied" /\ y.sec # None /\ secs[y.sec].sym # t}}

\* The names of securities a rename moved away from a ticker.
RenamedAway(t) ==
  UNION {({x.was, x.co, secs[x.sec].name} \ {None})
           : x \in {y \in recorded : /\ y.status = "applied" /\ y.old = t
                                     /\ y.sec # None /\ secs[y.sec].sym # t}}

\* The names of listings already retired from a ticker, read once for the step.
Retired(t) == {secs[s].name : s \in {v \in Rows \ Listed : secs[v].sym = t}} \cup RenamedAway(t)

Entries == {[sym |-> t, echoes |-> Retired(t)] : t \in Tickers}

EndRenames ==
  /\ phase = "renames" /\ todo = {}
  /\ phase' = "list" /\ todo' = Entries
  /\ UNCHANGED <<today, world, master, queues, ran, ops, fails>>

\* `upkeep`: a sweep that fails keeps what it committed, and the night goes on.
SweepFails ==
  /\ phase = "renames" /\ todo # {} /\ fails < MaxFails
  /\ fails' = fails + 1
  /\ phase' = "list" /\ todo' = Entries
  /\ UNCHANGED <<today, world, master, queues, ran, ops>>

-----------------------------------------------------------------------------
(* `ingest securities` *)

\* What the screener serves for a ticker: the company that trades on it, and else
\* perhaps one that did.
Served(t) ==
  {c \in Companies : on[c] = t}
    \cup (IF Vacant(t) THEN {p.co : p \in {q \in past : q.sym = t}} \cup {None} ELSE {})

\* Entries of different tickers touch different rows: one order stands for all.
NextEntry(e) == e \in todo /\ \A f \in todo : e.sym <= f.sym

\* An echo of a listing already retired from the ticker is none.
SkipEntry(e, c) ==
  /\ phase = "list" /\ NextEntry(e) /\ c \in Served(e.sym)
  /\ c = None \/ (NamedBy(e.sym) = {} /\ c \in e.echoes)
  /\ todo' = todo \ {e}
  /\ UNCHANGED <<today, world, master, queues, ran, phase, ops, fails>>

Mint(e, c) ==
  /\ phase = "list" /\ NextEntry(e) /\ c \in Served(e.sym) \ {None}
  /\ NamedBy(e.sym) = {} /\ c \notin e.echoes
  /\ minted < MaxSec
  /\ minted' = minted + 1
  /\ secs' = [secs EXCEPT ![minted'] =
                [sym |-> e.sym, name |-> c, off |-> 0, of |-> {}, first |-> 0, last |-> 0,
                 stamp |-> None]]
  /\ xref' = Claimed(xref, minted', e.sym, StartOf(e.sym, xref))
  /\ todo' = todo \ {e}
  /\ UNCHANGED <<today, world, queues, ran, phase, ops, fails>>

\* Mutant of Refresh: a name that changed is not looked at.
RefreshQuietly(e, c) ==
  /\ phase = "list" /\ NextEntry(e) /\ c \in Served(e.sym) \ {None}
  /\ \E s \in NamedBy(e.sym) :
       /\ secs' = [secs EXCEPT ![s].name = c]
       /\ xref' = Claimed(xref, s, e.sym, StartOf(e.sym, xref))
       /\ todo' = todo \ {e}
       /\ UNCHANGED <<today, world, minted, queues, ran, phase, ops, fails>>

\* The listed row takes the name served; another name is flagged.
Refresh(e, c) ==
  /\ phase = "list" /\ NextEntry(e) /\ c \in Served(e.sym) \ {None}
  /\ \E s \in NamedBy(e.sym) :
       /\ secs' = [secs EXCEPT ![s].name = c]
       /\ xref' = Claimed(xref, s, e.sym, StartOf(e.sym, xref))
       /\ drift' = IF secs[s].name # c THEN drift \cup {s} ELSE drift
       /\ todo' = todo \ {e}
       /\ UNCHANGED <<today, world, minted, recorded, conflicts, judged, ran, phase, ops, fails>>

EndList ==
  /\ phase = "list" /\ todo = {}
  /\ phase' = "delist" /\ todo' = {r \in delistings : r.day > today - Reach}
  /\ ran' = "listed"
  /\ UNCHANGED <<today, world, master, queues, ops, fails>>

\* `upkeep` again: what the step committed stays, and the night goes on.
ListFails ==
  /\ phase = "list" /\ todo # {} /\ fails < MaxFails
  /\ fails' = fails + 1
  /\ phase' = "delist" /\ todo' = {r \in delistings : r.day > today - Reach}
  /\ UNCHANGED <<today, world, master, queues, ran, ops>>

-----------------------------------------------------------------------------
(* `ingest delisted` *)

Apart(a, b) == Later(a, b) - (IF a < b THEN a ELSE b)

\* The security's own bars say that the record is an earlier holder's.
Contradicted(s, d) == ~Empty(s) /\ (d < secs[s].first \/ secs[s].last - d > Grace)

IsRecent(s, d) ==
  ~Empty(s) /\ today - d <= Recent /\ Apart(d, secs[s].last) <= BarSessions

\* The vendor has bars of the ticker after the date.
BarsAfter(t, d) == \E c \in Companies : on[c] = t /\ d < today

StillTrading(s, r) == IsRecent(s, r.day) /\ BarsAfter(r.sym, r.day)

Known(s, r) == \E j \in judged : j[1] = s /\ j[2] = r.sym /\ j[3] = r.day

\* Settled without asking: nobody's ticker, an earlier holder's record, or one judged.
Unasked(s, r) == s = None \/ Contradicted(s, r.day) \/ Known(s, r)

\* One record of the sweep.
Judge(r) ==
  LET s == Active(r.sym)
  IN IF Unasked(s, r)
     THEN UNCHANGED <<secs, xref, judged>>
     ELSE IF StillTrading(s, r)
     THEN /\ judged' = judged \cup {<<s, r.sym, r.day, "open">>}
          /\ UNCHANGED <<secs, xref>>
     ELSE Stamped(s, r.day, r.co) /\ UNCHANGED judged

SweepDelisting(r) ==
  /\ phase = "delist" /\ r \in todo
  /\ Judge(r)
  /\ todo' = todo \ {r}
  /\ UNCHANGED <<today, world, minted, recorded, conflicts, drift, ran, phase, ops, fails>>

\* The bars that would tell could not be read: the record waits for the next sweep.
DelistingUnread(r) ==
  /\ phase = "delist" /\ r \in todo
  /\ ~Unasked(Active(r.sym), r) /\ IsRecent(Active(r.sym), r.day)
  /\ fails < MaxFails /\ fails' = fails + 1
  /\ todo' = todo \ {r}
  /\ UNCHANGED <<today, world, master, queues, ran, phase, ops>>

EndDelist ==
  /\ phase = "delist" /\ todo = {}
  /\ phase' = "prices"
  /\ UNCHANGED <<today, world, master, queues, todo, ran, ops, fails>>

\* Unlike the steps before, a failure here is the night's; the feed may not answer at all.
DelistFails ==
  /\ phase = "delist" /\ fails < MaxFails
  /\ fails' = fails + 1
  /\ phase' = "idle" /\ todo' = {}
  /\ UNCHANGED <<today, world, master, queues, ran, ops>>

-----------------------------------------------------------------------------
(* `ingest prices`: the vendor serves a ticker's bars for whoever trades on it now,
   with their whole history *)

Loaded(s) ==
  LET cs == {c \in Companies : on[c] = secs[s].sym}
  IN IF s \notin Listed \/ cs = {} THEN secs[s]
     ELSE [secs[s] EXCEPT !.of = @ \cup cs,
                          !.first = IF @ = 0 THEN Min({since[c] : c \in cs}) ELSE @,
                          !.last = today]

LoadPrices ==
  /\ phase = "prices"
  /\ secs' = [s \in Ids |-> Loaded(s)]
  /\ phase' = "idle"
  /\ UNCHANGED <<today, world, xref, minted, queues, todo, ran, ops, fails>>

-----------------------------------------------------------------------------
(* The operator *)

Operates ==
  /\ phase = "idle" /\ ops < MaxOps
  /\ ops' = ops + 1
  /\ UNCHANGED <<today, world, minted, ran, phase, todo, fails>>

\* `ingest delisted --full`, one record of it.
FullSweep(r) ==
  /\ r \in delistings
  /\ Judge(r)
  /\ UNCHANGED <<recorded, conflicts, drift>>
  /\ Operates

\* merge_security: the bars of both.
Earlier(a, b) == IF a = 0 \/ (b # 0 /\ b < a) THEN b ELSE a
Merged(s, v, t) ==
  [secs[s] EXCEPT !.sym = t, !.of = secs[s].of \cup secs[v].of,
                  !.first = Earlier(secs[s].first, secs[v].first),
                  !.last = Later(secs[s].last, secs[v].last)]

\* `security merge-rename`, without --force: the row on the new ticker goes into the one
\* on the old, bars and all, and the rename applies.
MergeRename(x) ==
  LET s == Active(x.old)
      v == Active(x.new)
  IN /\ x \in recorded /\ x.status = "conflict"
     /\ Heeds => \A y \in recorded : y.status = "conflict" => ~Before(y, x)
     /\ s # None /\ v \notin {None, s} /\ ~IsShuffle(x)
     /\ secs[s].of \subseteq {x.co} /\ secs[v].of \subseteq {x.co}
     /\ secs' = [u \in Ids |-> IF u = v THEN None
                               ELSE IF u = s THEN Merged(s, v, x.new) ELSE secs[u]]
     /\ xref' = Retargeted(Without(xref, {v}), s, x.old, x.new, x.day)
     /\ recorded' = Record(Repointed({v}, s), Row(x, "applied", s, secs[s].name))
     /\ conflicts' = conflicts \ {<<x.old, x.new>>}
     /\ drift' = DriftTo({v}, s) /\ judged' = JudgedTo({v}, s)
     /\ Operates

\* `security dismiss-rename`
DismissRename(x) ==
  /\ x \in recorded /\ x.status \notin Terminal
  /\ recorded' = Record(recorded, [x EXCEPT !.status = "dismissed"])
  /\ conflicts' = conflicts \ {<<x.old, x.new>>}
  /\ UNCHANGED <<secs, xref, judged, drift>>
  /\ Operates

\* The periods of a security that its delisting closed, unless the ticker moved on.
ClosedByDelisting(s) ==
  {p \in xref : /\ p.sec = s /\ p.to = Later(p.from, secs[s].off)
                /\ \A q \in xref : q.sym = p.sym => q.from <= p.from}

HeldByOthers(s, t) == ({p.sec : p \in OpenOn(t)} \cup ({Active(t)} \ {None})) \ {s}

Reopened(periods, ps) ==
  (periods \ ps) \cup {[p EXCEPT !.to = Open] : p \in ps}

\* `security venue-transfer`: the vendor has bars after the move, the record is settled,
\* and a delisting it led to is reversed.
VenueTransfer(s, d) ==
  LET t == secs[s].sym
  IN /\ s \in Rows /\ d \in 1..today /\ BarsAfter(t, d)
     /\ secs[s].off # 0 =>
          /\ HeldByOthers(s, t) = {}
          /\ \E p \in ClosedByDelisting(s) : p.sym = t
          /\ \A p \in ClosedByDelisting(s) : OpenOn(p.sym) = {}
          /\ Heeds => \A p \in ClosedByDelisting(s) : p.sym = t
     /\ secs' = [secs EXCEPT ![s].off = 0, ![s].stamp = None]
     /\ xref' = IF secs[s].off = 0 THEN xref ELSE Reopened(xref, ClosedByDelisting(s))
     /\ judged' = {j \in judged : j[1] # s}
                    \cup {<<s, j[2], j[3], "accepted">> : j \in {i \in judged : i[1] = s}}
                    \cup {<<s, t, e, "accepted">> : e \in {d, secs[s].off} \ {0}}
     /\ UNCHANGED <<recorded, conflicts, drift>>
     /\ Operates

\* `security delist`
DelistByHand(s, d) ==
  /\ s \in Listed /\ d \in 1..today
  /\ Heeds => \E p \in past : p.sym = secs[s].sym /\ p.to = d /\ on[p.co] = None
  /\ Stamped(s, d, None)
  /\ judged' = {j \in judged : j[1] # s \/ j[4] # "open"}
  /\ UNCHANGED <<recorded, conflicts, drift>>
  /\ Operates

-----------------------------------------------------------------------------
Market ==
  \/ \E c \in Companies, t \in Tickers :
       Lists(c, t) \/ ChangesTicker(c, t) \/ ReportsShuffle(c, t)
  \/ \E c \in Companies : StopsTrading(c)
  \/ \E c \in Companies, d \in Days : MovesVenue(c, d)
  \/ Tomorrow

RenameStep ==
  \/ \E r \in todo : \/ SkipRename(r)
                     \/ UnheldRename(r)
                     \/ ApplyRename(r)
                     \/ ConflictRename(r)
  \/ EndRenames
  \/ SweepFails

ListStep ==
  \/ \E e \in todo, c \in Companies \cup {None} : SkipEntry(e, c)
  \/ \E e \in todo, c \in Companies : Mint(e, c) \/ Refresh(e, c)
  \/ EndList
  \/ ListFails

DelistStep ==
  \/ \E r \in delistings : SweepDelisting(r) \/ DelistingUnread(r)
  \/ EndDelist
  \/ DelistFails

\* The commands, one transaction each.
SecurityMergeRename   == \E x \in recorded : MergeRename(x)
SecurityDismissRename == \E x \in recorded : DismissRename(x)
SecurityVenueTransfer == \E s \in Ids, d \in {today - 1, today} : VenueTransfer(s, d)

ByHand ==
  \/ \E r \in delistings : FullSweep(r)
  \/ SecurityMergeRename
  \/ SecurityDismissRename
  \/ SecurityVenueTransfer
  \/ \E s \in Ids, d \in {today - 1, today} : DelistByHand(s, d)

Next ==
  \/ Market
  \/ StartNight
  \/ RenameStep
  \/ ListStep
  \/ DelistStep
  \/ LoadPrices
  \/ ByHand

Spec == Init /\ [][Next]_vars

-----------------------------------------------------------------------------
(* Properties *)

\* A ticker serves at most one security at a time, and that security is listed on it;
\* nobody else is listed on it (migration 0015: "every write ... maintain[s] this, so
\* the constraint guards against a future call site").
OneHolder ==
  \A t \in Tickers :
    /\ \A s, v \in NamedBy(t) : s = v
    /\ \A p, q \in OpenOn(t) : p = q
    /\ \A p \in OpenOn(t) : p.sec \in NamedBy(t)

\* Two companies' bars never share a security unnoticed: whoever took a ticker whose
\* holder the master still lists is flagged by name before the bars come
\* (check_company_name_drift).
NoSilentMix ==
  \A s \in Rows : Cardinality(secs[s].of) > 1 => s \in drift

Forked(s, v, c) == s # v /\ secs[s].of = {c} /\ secs[v].of = {c}
OnRecord(c)     == \E x \in recorded : x.co = c /\ x.status # "applied"

\* One company on two listed securities is on record: after a sweep of the renames, one
\* of the company's renames is in conflict, or was ignored or dismissed, for every
\* company that changed ticker once (symbol_changes.py: a duplicate with history "is
\* reported as a conflict").
ForksAreReported ==
  [][EndRenames =>
       \A s, v \in Listed : \A c \in Companies :
         (Forked(s, v, c) /\ Cardinality({r \in renames : r.co = c}) = 1) => OnRecord(c)]_vars

Adrift(c) == \E s \in drift : c \in secs[s].of \cup {secs[s].name}

\* Bars are never lost with a row: a security that has any keeps its row, or goes
\* with them into another (fold_empty_security; merge_security).
HistoryKept ==
  [][\A s \in Rows : secs[s].of # {} =>
       \E v \in Ids : /\ secs'[v] # None /\ secs[s].of \subseteq secs'[v].of
                      /\ secs'[s] # None => v = s]_vars

Settled(c) == \A r \in renames : r.co = c => Status(r) = {"applied"}
Misreported(c) == \E s \in Rows : secs[s].name = c /\ secs[s].off # 0

\* The screener's entry for a company reads as the echo of a row that was renamed away
\* from its ticker: the row has its name, or had until the name was flagged.
Echoes(c) ==
  \E x \in recorded :
    /\ x.status = "applied" /\ x.old = on[c] /\ x.sec # None /\ secs[x.sec].sym # on[c]
    /\ c \in {x.was, x.co, secs[x.sec].name} \/ x.sec \in drift

\* After a night whose universe step went through, a company's ticker leads to its
\* security, with its bars: unless the feed or the operator called it delisted, or its
\* entry was taken for an echo (is_retired_listing: "a different issuer taking the
\* freed ticker still lists").
TickerFindsCompany ==
  [][LoadPrices /\ ran = "listed" =>
       \A c \in Companies :
         (on[c] # None /\ ~Misreported(c) /\ ~Echoes(c)) =>
           LET s == Active(on[c])
           IN s # None /\ c \in secs'[s].of]_vars

\* A past day's ticker never leads to another company's security, once the company has
\* bars, none of its securities was delisted before the day, every rename is settled
\* and nothing was flagged (AS_OF_RESOLVE_SQL; ADR 0002).
PastFinds ==
  phase = "idle" =>
    \A p \in past : \A d \in p.from..p.to :
      LET s    == AsOf(p.sym, d)
          held == {v \in Rows : p.co \in secs[v].of}
      IN (/\ \A c \in Companies : Settled(c)
          /\ held # {} /\ \A v \in held : secs[v].off \notin 1..(d - 1)
          /\ s \notin drift \cup {None}) =>
            p.co \in secs[s].of \cup {secs[s].name}

\* Once every rename of a company is applied, no echo hides it (daily_update.sh:
\* "Renames FIRST").
SettledIsFound ==
  [][LoadPrices /\ ran = "listed" =>
       \A c \in Companies :
         (on[c] # None /\ Settled(c) /\ ~Misreported(c) /\ ~Adrift(c)) =>
           LET s == Active(on[c])
           IN s # None /\ c \in secs'[s].of]_vars

\* One company on two listed securities is on record after a sweep, however often it
\* changed ticker (symbol_changes.py: a duplicate with history "is reported as a
\* conflict"; close_applied_conflict: a retry closes the flag when "the duplicate that
\* blocked it is merged away").
EveryForkReported ==
  [][EndRenames =>
       \A s, v \in Listed : \A c \in Companies : Forked(s, v, c) => OnRecord(c)]_vars

\* A listing that trades stays listed until a record of its own, though it has no bars
\* yet (delisted.py's docstring: "A security still trading is not delisted").
LiveStaysListed ==
  \A s \in Rows : secs[s].stamp # None =>
    secs[s].stamp \in secs[s].of \cup {secs[s].name}
=============================================================================
