------------------------------ MODULE Universe ------------------------------
(***************************************************************************)
(* Who is who once Sharadar drives the universe: the nightly step that takes  *)
(* the vendor's renames, delistings and new listings by permaticker           *)
(* (ingest/sharadar_universe.py), and what the operator does about the rows   *)
(* the cutover left behind - `security relist` (ingest/relist.py), `security   *)
(* merge --across-vendors` (ingest/cross_vendor_merge.py), `security dedupe`,  *)
(* `security descope` and `track`.                                           *)
(*                                                                         *)
(* The vendor's TICKERS row of a key is right on the day; its ACTIONS events    *)
(* are posted up to `Late` days after.  Every command is one transaction, and  *)
(* those that ask before they write hold a plan while the night goes on.       *)
(***************************************************************************)
EXTENDS Integers, FiniteSets, FiniteSetsExt, Folds

CONSTANTS
  Keys,         \* permatickers, numbers: the order a run takes them in
  Tickers,      \* numbers
  Excluded,     \* tickers that read as an instrument ADR 0012 keeps out
  Declarable,   \* tickers the operator declares
  MaxDay, MaxSec, MaxEvents, MaxOps, MaxFails,   \* bounds
  LookbackDays, \* LOOKBACK_DAYS
  Late,         \* the days an event may be posted late
  Sessions,     \* INACTIVE_BUT_TRADING_SESSIONS
  Grace,        \* TRADED_AFTER_GRACE_DAYS
  Cutover,      \* the situations the cutover left, see Start
  None

CalendarDays == 1..MaxDay
Ids  == 1..MaxSec
Open == -1      \* valid_to IS NULL
Day0 == 3       \* the first night after the cutover

SecurityRow == [sym : Tickers, src : {"fmp", "sharadar"}, act : BOOLEAN, off : 0..MaxDay,
            name : Keys, of : SUBSET Keys, first : 0..MaxDay, last : 0..MaxDay]
Period  == [sym : Tickers, sec : Ids, from : 0..MaxDay, to : 0..MaxDay \cup {Open}]
Change  == [day : CalendarDays, old : Tickers, new : Tickers,
            status : {"applied", "conflict", "dismissed"}, sec : Ids \cup {None}]
Listing == [tick : Tickers, first : 0..MaxDay, until : 0..MaxDay]
Link    == [sec : Ids, from : 0..MaxDay]
Event   == [key : Keys, act : {"from", "to", "listed", "delisted"}, day : CalendarDays,
            contra : Tickers \cup {None}, filed : Tickers \cup {None}]

VARIABLES
  today, phase,  \* "day" for the operator, "market", then the night's steps, "done"
  vendorSec,     \* core.vendor_security: ticker, first price date (0: not yet listed)
                 \* and the last (0: listed)
  pending,       \* what ACTIONS does not show yet
  events,        \* core.vendor_security_event
  db,            \* the warehouse, see Warehouse
  anchor,        \* the day the last successful run started
  plan,          \* what the operator is asked to confirm
  count          \* what is spent of the bounds

everything == <<today, phase, vendorSec, pending, events, db, anchor, plan, count>>

-----------------------------------------------------------------------------
(* The warehouse *)

\* secs: core.security; xref: core.symbol_xref; link: the open feeding links of
\* core.security_vendor_xref, by key; recorded: core.symbol_change of this vendor;
\* conflicts, judged, inactive: the open flags symbol_change_conflict (by tickers),
\* security_delisting_contradicted (by security, ticker and day) and
\* security_inactive_but_trading (by security and ticker); declared:
\* ref.tracked_symbol; names: what a run remembers of the tickers; sound: FALSE once a
\* write met a unique index; opened: FALSE once a claim of a ticker met a closed period
\* of the same first day, which stays closed: a listed row may hold no ticker since.
Warehouse ==
  [secs : [Ids -> SecurityRow \cup {None}], xref : SUBSET Period,
   link : [Keys -> Link \cup {None}], minted : 0..MaxSec,
   recorded : SUBSET Change, conflicts : SUBSET (Tickers \X Tickers),
   judged : SUBSET (Ids \X Tickers \X CalendarDays), inactive : SUBSET (Ids \X Tickers),
   declared : SUBSET Tickers, names : [Ids -> Tickers \cup {None}],
   sound : BOOLEAN, opened : BOOLEAN]

Rows(d)      == {s \in Ids : d.secs[s] # None}
Listed(d)    == {s \in Rows(d) : d.secs[s].off = 0}
OpenOn(d, t) == {p \in d.xref : p.sym = t /\ p.to = Open}
OpenHolders(d, t) == {p.sec : p \in OpenOn(d, t)}
NamedBy(d, t)     == {s \in Listed(d) : d.secs[s].sym = t}
Empty(d, s)       == d.secs[s].first = 0

FedBy(d, s) == {k \in Keys : d.link[k] # None /\ d.link[k].sec = s}

\* Ids are given in order, a link is a row's, and a row without a first bar holds none.
Known(d) ==
  /\ \A s \in Rows(d) : s <= d.minted
  /\ \A k \in Keys : d.link[k] # None => d.link[k].sec \in Rows(d)
  /\ \A s \in Rows(d) : Empty(d, s) => d.secs[s].of = {}

Unfed(d) == {s \in Rows(d) : FedBy(d, s) = {}}

\* ux_symbol_xref_open and the listed-ticker index of core.security.
Sound(d) ==
  /\ \A p, q \in d.xref : (p.sym = q.sym /\ p.to = Open /\ q.to = Open) => p = q
  /\ \A s, v \in Listed(d) :
       (s # v /\ d.secs[s].src = d.secs[v].src) => d.secs[s].sym # d.secs[v].sym

\* A listed row holds its ticker.
Holds(d, s)   == \E p \in OpenOn(d, d.secs[s].sym) : p.sec = s
Housed(d)     == \A s \in Listed(d) : Holds(d, s)

\* The rows of a rename name the other ticker.
Named(e) == e.act \in {"from", "to"} => e.contra \in Tickers

ASSUME UniverseAssumption ==
  /\ Keys \subseteq Nat /\ IsFiniteSet(Keys)
  /\ MaxDay \in Nat /\ MaxDay >= Day0 /\ MaxSec \in Nat
  /\ {MaxEvents, MaxOps, MaxFails, LookbackDays} \subseteq Nat
  /\ Declarable \subseteq Tickers
  /\ None \notin Ids \cup Tickers \cup CalendarDays \cup SecurityRow \cup Link
  /\ \A c \in Cutover :
       /\ c.vendor \in [Keys -> Listing]
       /\ c.events \subseteq Event /\ IsFiniteSet(c.events)
       /\ \A e \in c.events : Named(e) /\ e.filed \in Tickers
       /\ c.db \in Warehouse /\ Known(c.db)
       /\ c.db.sound /\ Sound(c.db) /\ (c.db.opened => Housed(c.db))

\* The listed security a ticker is live on: by its open period, else by its name, the
\* vendor's own row first.
Active(d, t) ==
  LET held == OpenHolders(d, t) \cap Listed(d)
      own  == {s \in NamedBy(d, t) : d.secs[s].src = "sharadar"}
  IN IF held # {} THEN Min(held)
     ELSE IF own # {} THEN Min(own)
     ELSE IF NamedBy(d, t) # {} THEN Min(NamedBy(d, t))
     ELSE None

Written(d) == [d EXCEPT !.sound = @ /\ Sound(d)]

Later(a, b)   == IF a > b THEN a ELSE b
Earlier(a, b) == IF a = 0 \/ (b # 0 /\ b < a) THEN b ELSE a

\* upsert_symbol_xref with a date: an open period of the key changes hands, a closed
\* one stays.
Claimed(xref, s, t, from) ==
  LET at == {p \in xref : p.sym = t /\ p.from = from}
  IN IF at = {} THEN xref \cup {[sym |-> t, sec |-> s, from |-> from, to |-> Open]}
     ELSE {IF p \in at /\ p.to = Open THEN [p EXCEPT !.sec = s] ELSE p : p \in xref}

\* ... for then the security that claims the ticker is left without an open period.
Claimable(xref, t, from) == \A p \in xref : (p.sym = t /\ p.from = from) => p.to = Open

Closed(xref, s, ts, day) ==
  {IF p.sec = s /\ p.sym \in ts /\ p.to = Open THEN [p EXCEPT !.to = Later(p.from, day)]
   ELSE p : p \in xref}

MarkDelisted(d, s, day) ==
  [d EXCEPT !.secs[s].off = day, !.secs[s].act = FALSE,
            !.xref = Closed(@, s, Tickers, day)]

\* vendor_link_conflicts: one open link and one feed per security.
LinksConflict(d, v, s) == FedBy(d, v) # {} /\ FedBy(d, s) # {}

\* What a deleted row leaves is the survivor's.
Gone(d, v, s) ==
  [d EXCEPT !.secs[v] = None,
            !.xref = {p \in @ : p.sec # v},
            !.link = [k \in Keys |-> IF k \in FedBy(d, v) THEN [@[k] EXCEPT !.sec = s]
                                     ELSE @[k]],
            !.recorded = {IF r.sec = v THEN [r EXCEPT !.sec = s] ELSE r : r \in @},
            !.judged = {IF j[1] = v THEN <<s, j[2], j[3]>> ELSE j : j \in @},
            !.inactive = {IF j[1] = v THEN <<s, j[2]>> ELSE j : j \in @}]

\* Mutant of Foldable: any row is folded.
FoldableAny(d, v, s) == TRUE

\* fold_empty_security: only a row without history or a link of its own.
Foldable(d, v, s) == d.secs[v] # None => Empty(d, v) /\ ~LinksConflict(d, v, s)

SameInstrument(old, new) == old \in Excluded <=> new \in Excluded

Renamable(d, s, old, new) ==
  /\ SameInstrument(old, new)
  /\ Active(d, new) \notin {None, s} => Foldable(d, Active(d, new), s)

\* apply_rename: an empty row on the new ticker is folded, the old ticker's period ends
\* the day before, and a listed row takes the new name.
Renamed(d, s, old, new, day) ==
  LET v == Active(d, new)
      e == IF v \in {None, s} THEN d ELSE Gone(d, v, s)
      x == Closed(e.xref, s, {old}, day - 1)
  IN Written([e EXCEPT
       !.xref = Claimed(x, s, new, day), !.opened = @ /\ Claimable(x, new, day),
       !.secs[s].sym = IF e.secs[s].off = 0 THEN new ELSE @])

Record(d, day, old, new, status, s) ==
  [d EXCEPT
     !.recorded = {r \in @ : <<r.day, r.old, r.new>> # <<day, old, new>>}
                    \cup {[day |-> day, old |-> old, new |-> new,
                           status |-> status, sec |-> s]},
     !.conflicts = IF status = "conflict" THEN @ \cup {<<old, new>>}
                   ELSE @ \ {<<old, new>>}]

-----------------------------------------------------------------------------
(* The vendor *)

Live(k)    == vendorSec[k].first # 0 /\ vendorSec[k].until = 0
Vacant(t)  == \A k \in Keys : Live(k) => vendorSec[k].tick # t

\* The newest price date in TICKERS: the night's once the night has loaded it.
Newest ==
  LET asof == IF phase \in {"day", "market"} THEN today - 1 ELSE today
  IN Max({IF Live(k) THEN asof ELSE vendorSec[k].until : k \in Keys})

Trades(d, s) == d.secs[s].first # 0 /\ Newest - d.secs[s].last <= Sessions

Quiet(k) == \A e \in pending \cup events : e.key = k => e.day < today

Market(rows, listing, k) ==
  /\ phase \in {"day", "market"} /\ count.events < MaxEvents /\ Quiet(k)
  /\ phase' = "market"
  /\ count' = [count EXCEPT !.events = @ + 1]
  /\ vendorSec' = [vendorSec EXCEPT ![k] = listing]
  /\ pending' = pending \cup rows
  /\ UNCHANGED <<today, events, db, anchor, plan>>

Told(k, act, contra) ==
  [key |-> k, act |-> act, day |-> today, contra |-> contra, filed |-> None]

\* Two rows tell it: the one from names the old ticker, the one to the new.
Renames(k, t) ==
  /\ Live(k) /\ Vacant(t)
  /\ Market({Told(k, "from", vendorSec[k].tick), Told(k, "to", t)},
            [vendorSec[k] EXCEPT !.tick = t], k)

Lists(k, t) ==
  /\ vendorSec[k].first = 0 /\ Vacant(t)
  /\ Market({Told(k, "listed", None)}, [tick |-> t, first |-> today, until |-> 0], k)

\* The last day of trading is the day's.
Delists(k) ==
  /\ Live(k) /\ vendorSec[k].first < today
  /\ Market({Told(k, "delisted", None)}, [vendorSec[k] EXCEPT !.until = today], k)

Relists(k) ==
  /\ vendorSec[k].first # 0 /\ ~Live(k) /\ Vacant(vendorSec[k].tick)
  /\ Market({Told(k, "listed", None)}, [vendorSec[k] EXCEPT !.until = 0], k)

-----------------------------------------------------------------------------
(* `ingest sharadar`: the vendor master, the universe, the prices *)

\* `ingest sharadar-master`: TICKERS and ACTIONS whole; an event is filed under the
\* ticker of its key.
LoadMaster(posted) ==
  /\ phase \in {"day", "market"}
  /\ posted \subseteq pending /\ \A e \in pending \ posted : e.day > today - Late
  /\ phase' = "universe"
  /\ events' = events \cup {[e EXCEPT !.filed = vendorSec[e.key].tick] : e \in posted}
  /\ pending' = pending \ posted
  /\ UNCHANGED <<today, vendorSec, db, anchor, plan, count>>

\* Mutant of WindowStart: the window ends at the run, whatever runs failed.
WindowStartToday == today - LookbackDays

\* default_since: from before the last run that succeeded.
WindowStart == anchor - LookbackDays

Window == {e \in events : e.day >= WindowStart}

\* The other ticker of the `to` row, or the ticker the `from` row is filed under.
RenamesIn(es) ==
  {r \in {[key |-> e.key, day |-> e.day, old |-> e.contra,
           new |-> LET to == {f \in es : f.act = "to" /\ f.key = e.key /\ f.day = e.day}
                   IN IF to = {} THEN e.filed ELSE (CHOOSE f \in to : TRUE).contra]
            : e \in {f \in es : f.act = "from"}} : r.old # r.new}

Terminal == {"applied", "dismissed"}

\* One rename of the sweep.
SweepRename(d, r) ==
  LET s == d.link[r.key].sec
  IN IF \/ d.link[r.key] = None
        \/ \E c \in d.recorded : /\ <<c.day, c.old, c.new>> = <<r.day, r.old, r.new>>
                                 /\ c.status \in Terminal
        THEN d
     ELSE IF d.names[s] = r.new THEN Record(d, r.day, r.old, r.new, "applied", s)
     ELSE IF d.names[s] = r.old /\ Renamable(d, s, r.old, r.new)
     THEN LET e == [Renamed(d, s, r.old, r.new, r.day) EXCEPT !.names[s] = r.new]
          IN Record(e, r.day, r.old, r.new, "applied", s)
     ELSE Record(d, r.day, r.old, r.new, "conflict", s)

\* delisting_contradicted: the security's own bars say otherwise.
Contradicted(d, s, day) ==
  ~Empty(d, s) /\ (day < d.secs[s].first \/ d.secs[s].last - day > Grace)

\* _apply_delistings, one key
SweepDelisting(d, k) ==
  LET own  == {e \in Window : e.key = k}
      days == {e.day : e \in {f \in own : f.act = "delisted"}}
      day  == Max(days)
      s    == d.link[k].sec
      case == <<s, d.secs[s].sym, day>>
  IN IF \/ days = {} \/ d.link[k] = None
        \/ d.secs[s].off # 0
        \/ Live(k)
        \/ \E e \in own : e.act = "listed" /\ e.day > day
        \/ case \in d.judged
        THEN d
     ELSE IF Contradicted(d, s, day) THEN [d EXCEPT !.judged = @ \cup {case}]
     ELSE MarkDelisted(d, s, day)

\* _mint_listing: a row, its ticker's period from its first price, and its feed.
Minted(d, k) ==
  LET s == d.minted + 1
      v == vendorSec[k]
  IN Written([d EXCEPT
       !.minted = s,
       !.secs[s] = [sym |-> v.tick, src |-> "sharadar", act |-> TRUE, off |-> 0,
                    name |-> k, of |-> {}, first |-> 0, last |-> 0],
       !.xref = Claimed(@, s, v.tick, v.first),
       !.opened = @ /\ Claimable(d.xref, v.tick, v.first),
       !.link[k] = [sec |-> s, from |-> v.first]])

\* Mutant of SweepListing: nobody looks who holds the ticker.
SweepListingBlind(d, k) ==
  IF \/ d.link[k] # None \/ ~Live(k) \/ vendorSec[k].first < WindowStart
     \/ vendorSec[k].tick \in Excluded \ d.declared
     THEN d
  ELSE Minted(d, k)

\* _apply_listings, one key: link before mint.
SweepListing(d, k) ==
  IF \/ d.link[k] # None \/ ~Live(k) \/ vendorSec[k].first < WindowStart
     \/ vendorSec[k].tick \in Excluded \ d.declared
     \/ Active(d, vendorSec[k].tick) # None
     \/ d.minted = MaxSec   \* bound
     THEN d
  ELSE Minted(d, k)

\* _flag_inactive_but_fed: the fed rows held inactive that trade, and no others, are
\* flagged.
FlagInactive(d) ==
  [d EXCEPT !.inactive =
     {<<s, d.secs[s].sym>> : s \in {v \in Rows(d) :
        ~d.secs[v].act /\ Trades(d, v) /\ \E k \in FedBy(d, v) : Live(k)}}]

\* By key, oldest first: the one of a set that comes last.
LastTold(rs) ==
  CHOOSE r \in rs : \A q \in rs : q.key < r.key \/ (q.key = r.key /\ q.day <= r.day)

\* _apply_renames
SweepRenames(d) ==
  MapThenFoldSet(LAMBDA r, e : SweepRename(e, r), d, LAMBDA r : r, LastTold,
                 RenamesIn(Window))

\* The other parts take the keys in order.
SweepDelistings(d) ==
  MapThenFoldSet(LAMBDA k, e : SweepDelisting(e, k), d, LAMBDA k : k, Max, Keys)
SweepListings(d) ==
  MapThenFoldSet(LAMBDA k, e : SweepListing(e, k), d, LAMBDA k : k, Max, Keys)

\* _apply: renames, delistings, listings, flags, in that order.
AfterRun ==
  LET named == [db EXCEPT !.names = [s \in Ids |-> IF db.secs[s] = None THEN None
                                                   ELSE db.secs[s].sym]]
      swept == SweepListings(SweepDelistings(SweepRenames(named)))
  IN [FlagInactive(swept) EXCEPT !.names = db.names]

UniverseRun ==
  /\ phase = "universe"
  /\ \E after \in {AfterRun} : after.sound /\ db' = after
  /\ anchor' = today
  /\ phase' = "prices"
  /\ UNCHANGED <<today, vendorSec, pending, events, plan, count>>

\* A write refused by an index, or anything else: the run rolls back and the night
\* stops there.
RunFails ==
  /\ phase = "universe"
  /\ \/ ~AfterRun.sound /\ UNCHANGED count
     \/ count.fails < MaxFails /\ count' = [count EXCEPT !.fails = @ + 1]
  /\ phase' = "done"
  /\ UNCHANGED <<today, vendorSec, pending, events, db, anchor, plan>>

\* `ingest sharadar-prices --nightly`: what a key feeds.
Loaded(s) ==
  LET ks == {k \in FedBy(db, s) : Live(k) \/ vendorSec[k].until = today}
  IN IF db.secs[s] = None \/ ks = {} THEN db.secs[s]
     ELSE [db.secs[s] EXCEPT !.of = @ \cup ks, !.first = IF @ = 0 THEN today ELSE @,
                             !.last = today]

LoadPrices ==
  /\ phase = "prices"
  /\ db' = [db EXCEPT !.secs = [s \in Ids |-> Loaded(s)]]
  /\ phase' = "done"
  /\ UNCHANGED <<today, vendorSec, pending, events, anchor, plan, count>>

PricesFail ==
  /\ phase = "prices" /\ count.fails < MaxFails
  /\ count' = [count EXCEPT !.fails = @ + 1]
  /\ phase' = "done"
  /\ UNCHANGED <<today, vendorSec, pending, events, db, anchor, plan>>

Tomorrow ==
  /\ phase = "done" /\ today < MaxDay
  /\ today' = today + 1 /\ phase' = "day"
  /\ UNCHANGED <<vendorSec, pending, events, db, anchor, plan, count>>

-----------------------------------------------------------------------------
(* The operator's plans *)

\* holds_earlier_issuer: bars and a delisting from before the vendor's link.
EarlierIssuer(d, s, k) ==
  /\ d.secs[s].off # 0 /\ d.secs[s].first # 0
  /\ d.secs[s].off < d.link[k].from /\ d.secs[s].first < d.link[k].from

\* periods_closed_by_delisting
ClosedByDelisting(d, s) ==
  {p \in d.xref : /\ p.sec = s /\ p.to = Later(p.from, d.secs[s].off)
                  /\ \A q \in d.xref : q.sym = p.sym => q.from <= p.from}

\* latest_rename_to, or the day the operator gives.
RenameDay(k, t, given) ==
  LET days == {r.day : r \in {q \in RenamesIn(events) : q.key = k /\ q.new = t}}
  IN IF given # None THEN given ELSE IF days = {} THEN None ELSE Max(days)

\* plan_relist: what would be written, and whether anything refuses it.
RelistPlan(d, s, given) ==
  LET row     == d.secs[s]
      k       == Min(FedBy(d, s))
      t       == vendorSec[k].tick
      day     == RenameDay(k, t, given)
      listed  == Active(d, t)
      holders == (OpenHolders(d, t) \cup ({listed} \ {None})) \ {s}
      folds   == {v \in holders : v = listed /\ Empty(d, v)}
      periods == ClosedByDelisting(d, s)
      clash   == {v \in Listed(d) : d.secs[v].src = row.src /\ d.secs[v].sym = t}
  IN [of |-> "relist", sec |-> s, off |-> row.off, act |-> row.act,
      old |-> row.sym, new |-> t, day |-> day,
      folds |-> folds,
      periods |-> IF t = row.sym /\ row.off # 0 THEN periods ELSE {},
      allowed |->
        /\ Live(k) /\ Trades(d, s) /\ ~EarlierIssuer(d, s, k)
        /\ ~(row.act /\ t = row.sym)
        /\ ~\E j \in d.judged : j[1] = s
        /\ t # row.sym => /\ day # None /\ SameInstrument(row.sym, t)
                          /\ holders \subseteq folds
        /\ (t = row.sym /\ row.off # 0) => /\ OpenHolders(d, t) \subseteq {s}
                                           /\ \E p \in periods : p.sym = t
        /\ row.off # 0 => clash \subseteq folds \cup {s}]

\* Mutant of Reversed: the closed periods stay closed.
ReversedOnly(d, p) ==
  [d EXCEPT !.secs[p.sec].off = 0, !.secs[p.sec].act = TRUE, !.secs[p.sec].sym = p.new]

\* reverse_delisting
Reversed(d, p) ==
  [d EXCEPT !.secs[p.sec].off = 0, !.secs[p.sec].act = TRUE, !.secs[p.sec].sym = p.new,
            !.xref = (@ \ p.periods) \cup {[q EXCEPT !.to = Open] : q \in p.periods}]

CanReverse(d, p) ==
  /\ d.secs[p.sec].off = p.off
  /\ p.periods \subseteq d.xref /\ \A q \in p.periods : OpenOn(d, q.sym) = {}

\* end_periods_before_rename: the delisting was the rename.
EndedBefore(d, p) ==
  [d EXCEPT !.xref =
     {IF /\ q.sec = p.sec /\ q.sym = p.old /\ q.to = Later(q.from, p.off)
         /\ q.to > Later(q.from, p.day - 1)
      THEN [q EXCEPT !.to = Later(q.from, p.day - 1)] ELSE q : q \in @}]

\* apply_relist, from a plan that may be old: the warehouse after it, or None.
Relisted(d, p) ==
  LET f == IF p.off # 0 /\ p.new # p.old /\ p.folds # {}
           THEN Gone(d, CHOOSE v \in p.folds : TRUE, p.sec) ELSE d
      e == IF p.off # 0 THEN Written(Reversed(f, p))
           ELSE [d EXCEPT !.secs[p.sec].act = @ \/ ~p.act]
      g == IF p.off # 0 THEN EndedBefore(e, p) ELSE e
      h == IF p.new = p.old THEN e
           ELSE Record(Renamed(g, p.sec, p.old, p.new, p.day),
                       p.day, p.old, p.new, "applied", p.sec)
  IN IF /\ p.allowed /\ d.secs[p.sec] # None
        /\ (p.off # 0 /\ p.new # p.old) => \A v \in p.folds : Foldable(d, v, p.sec)
        /\ p.off # 0 => CanReverse(f, p)
        /\ (p.off = 0 /\ ~p.act) => ~d.secs[p.sec].act /\ d.secs[p.sec].off = 0
        /\ p.new # p.old => Renamable(g, p.sec, p.old, p.new)
        /\ h.sound
     THEN [h EXCEPT !.inactive = {j \in @ : j[1] # p.sec}]
     ELSE None

\* The rows close alike on the days both hold.
Agree(d, s, v) ==
  /\ d.secs[s].of = d.secs[v].of
  /\ ~Empty(d, s) /\ ~Empty(d, v)
  /\ d.secs[s].first <= d.secs[v].last /\ d.secs[v].first <= d.secs[s].last

\* plan_cross_vendor_merge: the vendor says that the fed row trades as the other one.
MergePlan(d, v, s) ==
  [of |-> "merge", victim |-> v, sec |-> s,
   allowed |-> /\ FedBy(d, v) = {} /\ FedBy(d, s) # {}
               /\ \A k \in FedBy(d, s) : Live(k) /\ vendorSec[k].tick = d.secs[v].sym
                                         /\ d.secs[v].name \in {k, d.secs[s].name}
               /\ Agree(d, s, v)]

\* merge_security and adopt_identity
MergedInto(d, v, s) ==
  LET row == d.secs[v]
      e   == [d EXCEPT !.secs[s].of = @ \cup row.of, !.secs[s].name = row.name,
                       !.secs[s].first = Earlier(@, row.first),
                       !.secs[s].last = Later(@, row.last)]
  IN Gone(e, v, s)

\* apply_cross_vendor_merge: the merge by the plan shown, its relisting by a new one.
MergedAcross(d, p) ==
  LET e == MergedInto(d, p.victim, p.sec)
      r == RelistPlan(e, p.sec, None)
  IN IF \/ ~p.allowed \/ d.secs[p.sec] = None \/ d.secs[p.victim] = None
        \/ LinksConflict(d, p.victim, p.sec)
        THEN None
     ELSE IF r.act /\ r.old = r.new THEN e
     ELSE Relisted(e, r)

-----------------------------------------------------------------------------
(* The operator's commands *)

Operates ==
  /\ phase = "day" /\ count.ops < MaxOps
  /\ count' = [count EXCEPT !.ops = @ + 1]
  /\ UNCHANGED <<today, phase, vendorSec, pending, events, anchor>>

\* `security relist` and `security merge --across-vendors`: what is asked.
Ask(p) ==
  /\ plan = None /\ p.allowed
  /\ plan' = p
  /\ UNCHANGED db
  /\ Operates

AskRelist(s, given) == s \in Rows(db) /\ FedBy(db, s) # {} /\ Ask(RelistPlan(db, s, given))
AskMerge(v, s) == v # s /\ {v, s} \subseteq Rows(db) /\ Ask(MergePlan(db, v, s))

\* Answered yes, at once or after a night.
Confirm ==
  /\ plan # None /\ phase \in {"day", "market", "done"}
  /\ LET after == IF plan.of = "relist" THEN Relisted(db, plan) ELSE MergedAcross(db, plan)
     IN db' = IF after = None THEN db ELSE after
  /\ plan' = None
  /\ UNCHANGED <<today, phase, vendorSec, pending, events, anchor, count>>

Decline ==
  /\ plan # None
  /\ plan' = None
  /\ UNCHANGED <<today, phase, vendorSec, pending, events, db, anchor, count>>

\* reopen_symbol_period
Reopened(d, s, t) ==
  LET own == {p \in d.xref : p.sec = s /\ p.sym = t /\ p.to # Open}
      end == Max({p.to : p \in own})
  IN IF s \notin Listed(d) \/ OpenOn(d, t) # {} \/ own = {} THEN d
     ELSE Written([d EXCEPT !.xref =
       {IF p \in own /\ p.to = end THEN [p EXCEPT !.to = Open] ELSE p : p \in @}])

\* duplicate_symbol_groups: FMP's rows of a ticker, under one name, one with bars.
Duplicates(t) ==
  LET group == {s \in Rows(db) : db.secs[s].src = "fmp" /\ db.secs[s].sym = t}
  IN IF /\ Cardinality(group) > 1
        /\ Cardinality({db.secs[s].name : s \in group}) = 1
        /\ Cardinality({s \in group : ~Empty(db, s)}) = 1
     THEN group ELSE {}

FoldedInto(d, V, s) == FoldSet(LAMBDA v, e : Gone(e, v, s), d, V)

\* `security dedupe`: the empty ones are folded into the one with bars.
Dedupe(t) ==
  LET keep   == CHOOSE s \in Duplicates(t) : ~Empty(db, s)
      folded == {v \in Duplicates(t) \ {keep} : Foldable(db, v, keep)}
  IN /\ Duplicates(t) # {}
     /\ db' = Reopened(FoldedInto(db, folded, keep), keep, t)
     /\ db'.sound
     /\ UNCHANGED plan
     /\ Operates

\* select_descope_candidates
OutOfScope(d) == {s \in Rows(d) : d.secs[s].sym \in Excluded \ d.declared}

\* unresolved_renames
Unresolved(d, ids) ==
  LET held == {d.secs[s].sym : s \in ids \cap Listed(d)}
                \cup {p.sym : p \in {q \in d.xref : q.sec \in ids \cap Listed(d)
                                                    /\ q.to = Open}}
  IN {r \in d.recorded : r.status = "conflict" /\ (r.sec \in ids \/ r.new \in held)}

\* purge_securities: the rows and all that is keyed to them; their renames are dismissed.
Purged(d, ids) ==
  LET open == Unresolved(d, ids)
  IN [d EXCEPT
       !.secs = [s \in Ids |-> IF s \in ids THEN None ELSE @[s]],
       !.xref = {p \in @ : p.sec \notin ids},
       !.link = [k \in Keys |-> IF \E s \in ids : k \in FedBy(d, s) THEN None ELSE @[k]],
       !.recorded = {LET sec == IF r.sec \in ids THEN None ELSE r.sec
                     IN IF r \in open THEN [r EXCEPT !.status = "dismissed", !.sec = sec]
                        ELSE [r EXCEPT !.sec = sec] : r \in @},
       !.conflicts = @ \ {<<r.old, r.new>> : r \in open},
       !.judged = {j \in @ : j[1] \notin ids},
       !.inactive = {j \in @ : j[1] \notin ids}]

\* `security descope`
Descope ==
  /\ OutOfScope(db) # {}
  /\ db' = Purged(db, OutOfScope(db))
  /\ UNCHANGED plan
  /\ Operates

\* `track add`: unless the ticker's only row is delisted.
TrackAdd(t) ==
  /\ t \notin db.declared
  /\ (\E s \in Rows(db) \ Listed(db) : db.secs[s].src = "fmp" /\ db.secs[s].sym = t) =>
       \E s \in Listed(db) : \/ db.secs[s].src = "fmp" /\ db.secs[s].sym = t
                             \/ \E p \in db.xref : p.sec = s /\ p.sym = t
  /\ db' = [db EXCEPT !.declared = @ \cup {t}]
  /\ UNCHANGED plan
  /\ Operates

\* `track rm`, with the day it closed on or without.
TrackRm(t, closed) ==
  LET s == Active(db, t)
      d == [db EXCEPT !.declared = @ \ {t}]
  IN /\ t \in db.declared
     /\ closed # None => s # None
     /\ db' = IF closed = None THEN d ELSE MarkDelisted(d, s, closed)
     /\ UNCHANGED plan
     /\ Operates

-----------------------------------------------------------------------------
AtCutover ==
  /\ \E c \in Cutover : vendorSec = c.vendor /\ events = c.events /\ db = c.db
  /\ today = Day0 /\ phase = "day" /\ pending = {} /\ anchor = Day0 - 1 /\ plan = None
  /\ count = [events |-> 0, ops |-> 0, fails |-> 0]

MarketStep ==
  \/ \E k \in Keys, t \in Tickers : Renames(k, t) \/ Lists(k, t)
  \/ \E k \in Keys : Delists(k) \/ Relists(k)

NightStep ==
  \/ \E posted \in SUBSET pending : LoadMaster(posted)
  \/ UniverseRun
  \/ RunFails
  \/ LoadPrices
  \/ PricesFail
  \/ Tomorrow

OperatorStep ==
  \/ \E s \in Ids, given \in {None, today} : AskRelist(s, given)
  \/ \E v, s \in Ids : AskMerge(v, s)
  \/ Confirm
  \/ Decline
  \/ \E t \in Tickers : Dedupe(t)
  \/ \E t \in Declarable : TrackAdd(t)
  \/ \E t \in Declarable, closed \in {None, today} : TrackRm(t, closed)
  \/ Descope

UniverseNext == MarketStep \/ NightStep \/ OperatorStep

UniverseSpec == AtCutover /\ [][UniverseNext]_everything

-----------------------------------------------------------------------------
(* Properties *)

\* The plans that may wait for an answer.
RelistPlans ==
  [of : {"relist"}, sec : Ids, off : 0..MaxDay, act : BOOLEAN, old : Tickers,
   new : Tickers, day : CalendarDays \cup {None}, folds : SUBSET Ids, periods : SUBSET Period,
   allowed : BOOLEAN]
MergePlans == [of : {"merge"}, victim : Ids, sec : Ids, allowed : BOOLEAN]

\* What is asked is what may be written: a day for a rename, no row folded into itself,
\* and a merge into a row that is fed if it is there.
Asked ==
  /\ plan.of = "relist" => /\ plan.sec \notin plan.folds
                           /\ plan.old # plan.new => plan.day # None
  /\ plan.of = "merge" => /\ plan.victim # plan.sec
                          /\ plan.sec \notin Unfed(db)

\* The type invariant, the keys among the rows with it.
UniverseTyped ==
  /\ today \in CalendarDays
  /\ phase \in {"day", "market", "universe", "prices", "done"}
  /\ vendorSec \in [Keys -> Listing]
  /\ pending \subseteq Event /\ IsFiniteSet(pending) /\ \A e \in pending : Named(e)
  /\ events \subseteq Event /\ IsFiniteSet(events)
  /\ \A e \in events : Named(e) /\ e.filed \in Tickers
  /\ db \in Warehouse /\ Known(db)
  /\ anchor \in CalendarDays
  /\ plan \in RelistPlans \cup MergePlans \cup {None}
  /\ plan # None => Asked
  /\ count \in [events : 0..MaxEvents, ops : 0..MaxOps, fails : 0..MaxFails]

\* A ticker names one listed security at most, of either vendor: the feed is resolved
\* by ticker, and the index looks at one vendor's rows only.
NamedOnce == \A s, v \in Listed(db) : db.secs[s].sym = db.secs[v].sym => s = v

\* ... as long as no claim met a closed period: upsert_symbol_xref leaves that one closed,
\* the row that made the claim holds nothing, and a relist no longer finds it.
OneHolder == db.opened => NamedOnce

Posted(k) == \A e \in pending : e.key # k

\* The company is back on a ticker that it once left.
Returned(k) == \E e \in events : e.key = k /\ e.act = "from" /\ e.contra = vendorSec[k].tick

\* After a run, and whatever runs failed before it, the vendor's ticker of a company
\* whose events are all posted finds the row it feeds (the price load resolves by
\* ticker, _apply_renames moves the row), unless the row waits for the operator:
\* inactive, or its rename recorded as a conflict, or that conflict dismissed.
TickerFindsFed ==
  [][UniverseRun =>
       \A k \in Keys :
         (Live(k) /\ db'.link[k] # None /\ Posted(k) /\ ~Returned(k)) =>
           LET s == db'.link[k].sec
           IN \/ Active(db', vendorSec[k].tick) = s
              \/ ~db'.secs[s].act
              \/ \E r \in db'.recorded : /\ r.new = vendorSec[k].tick
                                         /\ r.status \in {"conflict", "dismissed"}]_everything

\* No delisting is lost: after a run the row of a company that stopped trading, whose
\* events are all posted, is stamped or its contradiction is flagged, though runs
\* failed and the window of events slid (default_since starts at the last success).
EventsArrive ==
  [][UniverseRun =>
       \A k \in Keys :
         (vendorSec[k].until # 0 /\ db'.link[k] # None /\ Posted(k)) =>
           LET s == db'.link[k].sec
           IN db'.secs[s].off # 0 \/ \E j \in db'.judged : j[1] = s]_everything

\* The company was renamed again, or its row delisted, while the operator was asked:
\* apply_relist writes the plan that was shown.
Overtaken ==
  /\ plan.of = "relist"
  /\ \/ \E e \in pending \cup events : /\ e.key \in FedBy(db, plan.sec)
                                       /\ e.act = "from" /\ e.contra # plan.old
     \/ \E k \in FedBy(db, plan.sec) : vendorSec[k].tick # plan.new
     \/ plan.off = 0 /\ db.secs[plan.sec].off # 0

\* A relisting or a cross-vendor merge that goes through leaves a trading row that its
\* ticker finds, though a night ran between the question and the answer.
RelistedIsFound ==
  [][(Confirm /\ db' # db /\ ~Overtaken) =>
       LET s == plan.sec
       IN /\ db'.secs[s].act /\ db'.secs[s].off = 0
          /\ OpenHolders(db', db'.secs[s].sym) = {s}]_everything

\* The bars of a company are never deleted but by descope: what a row held is on the row
\* still, or on the one that it was merged into (fold_empty_security takes rows without
\* history, merge_security moves it).
BarsKept ==
  [][~Descope =>
     \A s \in Rows(db) : db.secs[s].of # {} =>
       \E v \in Rows(db') : /\ db.secs[s].of \subseteq db'.secs[v].of
                            /\ db'.secs[s] # None => v = s]_everything

\* An open period is a listed security's: "A linked security still trading as the old
\* ticker moves to the new one" (_apply_renames), and mark_delisted closes the periods
\* so that the ticker is free for the next company.
PeriodsAreListed ==
  \A p \in db.xref : p.to = Open => p.sec \in NamedBy(db, p.sym)
=============================================================================
