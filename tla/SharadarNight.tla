--------------------------- MODULE SharadarNight ---------------------------
(***************************************************************************)
(* Sharadar's night for one price table: the delta, the listings it mints,  *)
(* the deltas applied to core.daily_price and the prune of the files, over   *)
(* the file ledger landing.sharadar_file.                                    *)
(*                                                                         *)
(* The vendor's table is a version per bar.  A delta is a slice of it by     *)
(* stamp, and slices overlap; the night applies them security by security    *)
(* with a commit each, and only at its end records the file it applied       *)
(* through.  Any step may fail; the next night starts over.                  *)
(***************************************************************************)
EXTENDS Integers, Sequences, FiniteSets, FiniteSetsExt

CONSTANTS
  Securities,    \* those Sharadar feeds from the start, and those it has yet to list
  LastDay, Dates, \* bound on the clock; the days that have bars
  MaxRev,        \* bound on the versions the vendor publishes
  MaxLag,        \* days from a version's stamp to the day it can be read
  FullGap,       \* days without a delta after which no full file is fetched
  Overlap,       \* DELTA_OVERLAP_DAYS
  Lookback,      \* LOOKBACK_DAYS of the universe step
  Margin,        \* what DELTA_WINDOW_DAYS adds to it; bound on a night's length
  KeepDays,      \* [sharadar] keep_days
  Validity,      \* whether versions pass the validator: BOOLEAN, or {TRUE}
  NoRow, Other   \* no row; a row of another party

ASSUME NightAssumption ==
  /\ LastDay \in Nat /\ Dates \subseteq 0..LastDay /\ 0 \in Dates /\ MaxRev \in Nat /\ MaxLag \in Nat /\ FullGap \in Nat
  /\ Overlap \in Nat /\ Lookback \in Nat /\ Margin \in Nat /\ KeepDays \in Nat
  /\ Validity \subseteq BOOLEAN
  /\ NoRow \notin Nat /\ Other \notin Nat /\ NoRow # Other
  /\ NoRow \notin [stamp : Nat, rev : Nat, ok : BOOLEAN]

VARIABLES
  day, revs,   \* the clock; versions published so far
  vendor,      \* what the vendor serves, per bar
  files,       \* landing.sharadar_file, by file_id
  stored,      \* core.daily_price: the version stored, per bar
  fed,         \* securities with an open feeding link
  universeRun, \* day of the last successful universe run
  through,     \* params.through of the last successful nightly
  step,        \* the step the night is about to take
  night,       \* the price step in flight
  seen, seenOn \* history: the vendor's table when a delta was last asked for

history == <<seen, seenOn>>
vars == <<day, revs, vendor, files, stored, fed, universeRun, through, step, night, history>>

Days == 0..LastDay
Bars == Securities \X Dates
Row == [stamp : Days, rev : Nat, ok : BOOLEAN]
Table == [Bars -> Row \cup {NoRow}]
File == [kind : {"full", "delta"}, rows : Table, fetched : Days,
         status : {"downloaded", "superseded", "deleted"}]
Steps == {"idle", "universe", "prices", "applying", "prune"}
NoNight == [todo |-> {}, fresh |-> {}, pend |-> {}, to |-> 0, quar |-> FALSE, narrow |-> FALSE]

TypeOK ==
  /\ day \in Days /\ revs \in 0..MaxRev
  /\ vendor \in Table /\ seen \in Table /\ seenOn \in Days
  /\ files \in Seq(File)
  /\ stored \in [Bars -> Nat \cup {NoRow, Other}]
  /\ fed \subseteq Securities
  /\ universeRun \in Days
  /\ through \in Nat
  /\ step \in Steps
  /\ night \in [todo : SUBSET Securities, fresh : SUBSET Securities,
                pend : SUBSET (DOMAIN files), to : Nat, quar : BOOLEAN, narrow : BOOLEAN]

-----------------------------------------------------------------------------
(* The ledger *)

Downloaded(kind) ==
  {f \in DOMAIN files : files[f].kind = kind /\ files[f].status = "downloaded"}

\* The file among these fetched last.
FetchedLast(ids) ==
  CHOOSE f \in ids : \A g \in ids : \/ files[g].fetched < files[f].fetched
                                    \/ files[g].fetched = files[f].fetched /\ g <= f

CurrentFull == IF Downloaded("full") = {} THEN 0 ELSE FetchedLast(Downloaded("full"))

\* The files of this content.
Held(kind, rows) == {f \in DOMAIN files : files[f].kind = kind /\ files[f].rows = rows}

\* The ledger after a file of these rows is recorded; content it holds already is
\* not recorded again, but is current again.
Recorded(kind, rows) ==
  IF Held(kind, rows) # {}
  THEN [f \in DOMAIN files |->
          IF f \in Held(kind, rows) THEN [files[f] EXCEPT !.status = "downloaded"] ELSE files[f]]
  ELSE Append(files, [kind |-> kind, rows |-> rows, fetched |-> day, status |-> "downloaded"])
RecordedId(kind, rows) ==
  IF Held(kind, rows) # {} THEN Max(Held(kind, rows)) ELSE Len(files) + 1

\* What the nightly has not applied.
Pending == {f \in Downloaded("delta") : f > through}

\* Mutant of Merged: the first file that holds the bar wins, whatever its stamp.
MergedFirst(b, ids) ==
  LET holding == {f \in ids : files[f].rows[b] # NoRow}
  IN  IF holding = {} THEN NoRow ELSE files[Min(holding)].rows[b]

\* Of the versions these files hold, the one stamped last, on one stamp the later file's.
Merged(b, ids) ==
  LET holding == {f \in ids : files[f].rows[b] # NoRow}
      Stamp(f) == files[f].rows[b].stamp
  IN  IF holding = {} THEN NoRow
      ELSE files[CHOOSE f \in holding :
                   \A g \in holding : Stamp(g) < Stamp(f) \/ (Stamp(g) = Stamp(f) /\ g <= f)
                ].rows[b]

-----------------------------------------------------------------------------
(* The world *)

\* On day 0 the backfill read the full file and a first nightly recorded it; some dates
\* kept another's row, some of the file's were refused.
Init ==
  /\ day = 0 /\ revs = 0
  /\ fed \in SUBSET Securities
  /\ vendor \in {t \in [Bars -> {NoRow} \cup [stamp : {0}, rev : {0}, ok : Validity]] :
                    \A b \in Bars : t[b] = NoRow <=> ~(b[1] \in fed /\ b[2] = 0)}
  /\ files = <<[kind |-> "full", rows |-> vendor, fetched |-> 0, status |-> "downloaded"]>>
  /\ stored \in {t \in [Bars -> {0, NoRow, Other}] :
                   \A b \in Bars : t[b] \in IF vendor[b] = NoRow THEN {NoRow}
                                           ELSE {Other, IF vendor[b].ok THEN 0 ELSE NoRow}}
  /\ universeRun = 0 /\ through = 1
  /\ step = "idle" /\ night = NoNight
  /\ seen = vendor /\ seenOn = 0

\* A night is over within Margin days of its universe step.
NextDay ==
  /\ day < LastDay
  /\ step \in {"prices", "applying", "prune"} => day < universeRun + Margin
  /\ day' = day + 1
  /\ UNCHANGED <<revs, vendor, files, stored, fed, universeRun, through, step, night, history>>

FirstPrice(s) == Min({d \in Dates : vendor[<<s, d>>] # NoRow})
Priced(s) == \E d \in Dates : vendor[<<s, d>>] # NoRow

\* The vendor publishes or revises a bar, stamped no earlier than its own date and than
\* the version it replaces.
Publish(s, d, lag, ok) ==
  LET stamp == day - lag IN
  /\ step = "idle" /\ revs < MaxRev /\ d <= stamp
  /\ vendor[<<s, d>>] # NoRow => vendor[<<s, d>>].stamp <= stamp
  /\ Priced(s) => FirstPrice(s) <= d
  /\ revs' = revs + 1
  /\ vendor' = [vendor EXCEPT ![<<s, d>>] = [stamp |-> stamp, rev |-> revs', ok |-> ok]]
  /\ UNCHANGED <<day, files, stored, fed, universeRun, through, step, night, history>>

-----------------------------------------------------------------------------
(* The commands *)

\* Mutant of Since: the delta starts where the newest file ended.
SinceFetched == files[FetchedLast(DOMAIN files)].fetched

\* delta_since.
Since == files[FetchedLast(DOMAIN files)].fetched - Overlap

\* fetch_delta: step 2 of the night.  A delta without rows is not recorded.
FetchDelta ==
  LET rows == [b \in Bars |-> IF vendor[b] # NoRow /\ vendor[b].stamp >= Since
                              THEN vendor[b] ELSE NoRow]
  IN
  /\ step = "idle"
  /\ IF \A b \in Bars : rows[b] = NoRow THEN UNCHANGED files
     ELSE files' = Recorded("delta", rows)
  /\ step' = "universe"
  /\ seen' = vendor /\ seenOn' = day
  /\ UNCHANGED <<day, revs, vendor, stored, fed, universeRun, through, night>>

\* download_table with --force, by hand.
DownloadFull ==
  LET id == RecordedId("full", vendor) IN
  /\ step = "idle" /\ day - seenOn <= FullGap
  /\ files' = [f \in DOMAIN Recorded("full", vendor) |->
                 IF f # id /\ f \in Downloaded("full")
                 THEN [files[f] EXCEPT !.status = "superseded"] ELSE Recorded("full", vendor)[f]]
  /\ UNCHANGED <<day, revs, vendor, stored, fed, universeRun, through, step, night, history>>

\* Mint the listings first priced in the window, but those whose ticker is held.
Universe ==
  /\ step = "universe"
  /\ \E minted \in SUBSET {s \in Securities \ fed :
                              Priced(s) /\ FirstPrice(s) >= universeRun - Lookback} :
       fed' = fed \cup minted
  /\ universeRun' = day /\ step' = "prices"
  /\ UNCHANGED <<day, revs, vendor, files, stored, through, night, history>>

\* No bars yet: a listing minted tonight.
Fresh(s) == \A d \in Dates : stored[<<s, d>>] = NoRow

\* Mutant of StartNightly: a run for some securities counts the files as applied.
StartNightlyForAll(targets, narrow) ==
  /\ step = IF narrow THEN "idle" ELSE "prices"
  /\ night' = [todo |-> targets, fresh |-> {s \in targets : Fresh(s)}, pend |-> Pending,
               to |-> Max(Pending \cup {through}), quar |-> FALSE, narrow |-> narrow]
  /\ step' = "applying"
  /\ UNCHANGED <<day, revs, vendor, files, stored, fed, universeRun, through, history>>

\* nightly, entered: step 5 for everyone, or by hand for some securities, which leaves
\* the files pending for the rest.
StartNightly(targets, narrow) ==
  /\ step = IF narrow THEN "idle" ELSE "prices"
  /\ night' = [todo |-> targets, fresh |-> {s \in targets : Fresh(s)}, pend |-> Pending,
               to |-> IF narrow THEN through ELSE Max(Pending \cup {through}),
               quar |-> FALSE, narrow |-> narrow]
  /\ step' = "applying"
  /\ UNCHANGED <<day, revs, vendor, files, stored, fed, universeRun, through, history>>

\* The files read for a security: every delta on disk for one without bars.
ReadFor(s) == IF s \in night.fresh THEN Downloaded("delta") ELSE night.pend

\* _nightly_run and its _write: the new dates and the vendor's own bars it revised.
ApplySecurity(s) ==
  LET Row_(d) == Merged(<<s, d>>, ReadFor(s))
      Writes(d) == /\ Row_(d) # NoRow /\ Row_(d).ok
                   /\ stored[<<s, d>>] # Other
  IN
  /\ step = "applying" /\ s \in night.todo
  /\ stored' = [b \in Bars |-> IF b[1] = s /\ Writes(b[2]) THEN Row_(b[2]).rev ELSE stored[b]]
  /\ night' = [night EXCEPT !.todo = @ \ {s},
                 !.quar = @ \/ \E d \in Dates : Row_(d) # NoRow /\ ~Row_(d).ok]
  /\ UNCHANGED <<day, revs, vendor, files, fed, universeRun, through, step, history>>

\* The run ends: `success`, or `partial` when it quarantined a row, which
\* last_successful_run does not count.
EndNightly ==
  /\ step = "applying" /\ night.todo = {}
  /\ through' = IF night.quar THEN through ELSE night.to
  /\ step' = IF night.narrow THEN "idle" ELSE "prune"
  /\ night' = NoNight
  /\ UNCHANGED <<day, revs, vendor, files, stored, fed, universeRun, history>>

Before(f, days) == files[f].fetched < day - days

\* Mutant of Prunable: a delta goes by its age alone.
PrunableByAge(f) ==
  files[f].kind = "delta" /\ files[f].status # "deleted"
  /\ Before(f, Max({KeepDays, Lookback + Margin}))

\* Superseded full files but the newest, and deltas that are applied, beyond their age.
Prunable(f) ==
  LET onRecord == {g \in DOMAIN files : files[g].kind = "full" /\ files[g].status # "deleted"}
                  \ {CurrentFull}
  IN  \/ f \in onRecord /\ f # Max(onRecord) /\ Before(f, KeepDays)
      \/ /\ files[f].kind = "delta" /\ files[f].status # "deleted"
         /\ f <= through
         /\ Before(f, Max({KeepDays, Lookback + Margin}))

\* prune, oldest first; a kill leaves the rest.  A row is marked and committed before its
\* file is unlinked, and no reader opens a file marked deleted, whether it is gone or not.
Prune ==
  /\ step = "prune"
  /\ \E last \in 0..Len(files) :
       LET marked == {f \in 1..last : Prunable(f)} IN
       files' = [f \in DOMAIN files |->
                   IF f \in marked THEN [files[f] EXCEPT !.status = "deleted"] ELSE files[f]]
  /\ step' = "idle"
  /\ UNCHANGED <<day, revs, vendor, stored, fed, universeRun, through, night, history>>

\* A step fails, or the process is killed: what was committed stays.
Stop ==
  /\ step # "idle"
  /\ step' = "idle" /\ night' = NoNight
  /\ UNCHANGED <<day, revs, vendor, files, stored, fed, universeRun, through, history>>

\* The commands the night is made of.  `ingest sharadar-prices` reads the files of every
\* fed security, or all they hold of the ones it is asked for.
SharadarBulk == DownloadFull
SharadarDelta == FetchDelta
SharadarPrune == Prune
IngestSharadarPrices ==
  \/ StartNightly(fed, FALSE)
  \/ \E targets \in SUBSET fed \ {{}} : StartNightly(targets, TRUE)
  \/ \E s \in Securities : ApplySecurity(s)
  \/ EndNightly

Next ==
  \/ NextDay
  \/ \E s \in Securities, d \in Dates, lag \in 0..MaxLag, ok \in Validity : Publish(s, d, lag, ok)
  \/ SharadarDelta \/ SharadarBulk \/ Universe
  \/ IngestSharadarPrices \/ SharadarPrune
  \/ Stop

Spec == Init /\ [][Next]_vars

-----------------------------------------------------------------------------
(* Properties *)

\* The prune never takes a file something still reads: an unapplied delta and the current
\* full file stay (sharadar_prune: "A delta its nightly has not applied is kept").
UnappliedKept ==
  /\ \A f \in DOMAIN files : (files[f].kind = "delta" /\ f > through) => f \in Pending
  /\ Downloaded("full") # {}

\* A security the backfill read, or one minted later.
Backfilled(s) == files[1].rows[<<s, 0>>] # NoRow

\* What the vendor served when it was last asked is stored, unless it was refused or the
\* date is another party's.
Served(s) ==
  \A d \in Dates : LET v == seen[<<s, d>>] IN
    (v # NoRow /\ v.ok /\ stored[<<s, d>>] # Other) => stored[<<s, d>>] = v.rev

\* Nothing the vendor published is lost on the way, whatever failed and was run again:
\* with no delta pending, the bars are the versions the vendor served when last asked.
CaughtUp == Pending = {} => \A s \in fed : Backfilled(s) => Served(s)

\* A night that finishes has applied what it read: it is not read again by the next, and
\* ages out of bulk_dir (doc/ingestion.md: the run "names the last file applied").
ReadOnce ==
  [][EndNightly /\ ~night.narrow => Pending' \cap night.pend = {}]_vars

-----------------------------------------------------------------------------
(* Too large an instance for a run: README, "By hand" *)

\* A listing minted days after its first price has those days too, though the deltas that
\* hold them were applied and may be pruned by then (nightly: "so the days before it
\* existed are not lost").
ListingWhole == Pending = {} => \A s \in fed : (~Backfilled(s) /\ ~Fresh(s)) => Served(s)
=============================================================================
