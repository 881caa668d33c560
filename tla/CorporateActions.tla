-------------------------- MODULE CorporateActions --------------------------
(***************************************************************************)
(* Splits and dividends (src/src/fafnir/ingest/corporate_actions.py): the   *)
(* per-symbol pull, the market-wide sweep behind its watermark and the      *)
(* rotating reconciliation of FMP's two feeds, with the fill from Sharadar, *)
(* the operator's edits, and `adjust --changed`, which recomputes the       *)
(* factors of the securities the last run changed.                          *)
(*                                                                         *)
(* A security's pull or reconciliation is one transaction, and so is a      *)
(* sweep; a night is a sequence of them, and may end between any two.       *)
(***************************************************************************)
EXTENDS Integers, FiniteSets

CONSTANTS
  Secs,        \* securities FMP feeds
  Types,       \* {"split", "dividend"}
  MaxDay,      \* bound on the clock
  Values,      \* what an action may say; amounts that agree are one value
  Bad,         \* a record the validation refuses
  None,        \* no record, no row
  Overlap,     \* actions_overlap_days
  Redate,      \* REDATE_WINDOW_DAYS
  Near,        \* sharadar_actions.NEAR
  Bucket,      \* security -> security_id % actions_reconcile_buckets
  Buckets,     \* actions_reconcile_buckets
  Modes,       \* the modes the nightly may run in
  Funds,       \* securities the calendar is not assumed to cover
  Quiet,       \* whether the operator waits while a sweep is between read and write
  MaxRun, MaxEdits, MaxOps   \* bounds: runs, vendor changes, operator's and Sharadar's

Days == 1..MaxDay
Key  == [sec : Secs, type : Types, day : Days]
Row  == [src : {"fmp", "sharadar", "operator"}, val : Values, run : 0..MaxRun]
Says == Values \cup {Bad, None}

ASSUME ActionsAssumption ==
  /\ None \notin Row /\ Bad \notin Values /\ None \notin Values /\ Bad # None
  /\ Overlap \in Nat /\ Redate \in Nat /\ Near \in Nat
  /\ {MaxRun, MaxEdits, MaxOps} \subseteq Nat
  /\ MaxDay \in Nat \ {0} /\ Buckets \in Nat \ {0}
  /\ Bucket \in [Secs -> Nat] /\ Modes \subseteq {"symbol", "calendar", "auto"}
  /\ Funds \subseteq Secs /\ Quiet \in BOOLEAN

VARIABLES
  today,
  symFeed, calFeed,  \* what the per-symbol and the calendar endpoints would report
  stored,            \* core.corporate_action
  over,              \* the active overrides of each key
  pulled,            \* securities with a full-pull watermark
  swept,             \* the sweep's watermark, 0 for none
  factors,           \* the actions each security's factors were computed from
  failed,            \* flagged adjustment_failed, and not recomputed since
  lastRun,           \* the newest run of the endpoint
  step, mode, todo,  \* the night in flight: its next transaction
  asked,             \* what a sweep has read: records, suppressed keys
  edits, ops,        \* vendor changes and other parties' edits so far
  missed,            \* history: stale when a later run became the newest
  agreed             \* history: pulled, and nothing touched since

feeds == <<symFeed, calFeed, edits>>
night == <<step, mode, todo, asked>>
marks == <<pulled, swept, lastRun>>
hist  == <<missed, agreed>>
vars  == <<today, feeds, stored, over, marks, factors, failed, night, ops, hist>>

KeysOf(s)   == {k \in Key : k.sec = s}
At(k, d)    == [k EXCEPT !.day = d]
Apart(d, e) == IF d > e THEN d - e ELSE e - d
Nothing     == [keys |-> [k \in Key |-> None], lifted |-> {}]

TypeOK ==
  /\ today \in Days
  /\ symFeed \in [Key -> Says] /\ calFeed \in [Key -> Says]
  /\ stored \in [Key -> Row \cup {None}]
  /\ over \in [Key -> SUBSET {"delete", "add"}]
  /\ pulled \subseteq Secs /\ swept \in 0..MaxDay
  /\ factors \in [Key -> Values \cup {None}]
  /\ failed \subseteq Secs /\ lastRun \in 0..MaxRun
  /\ step \in {"idle", "load", "sweep", "write", "check", "due", "adjust"}
  /\ mode \in Modes \cup {"none"} /\ todo \subseteq Secs
  /\ asked \in [keys : [Key -> Says], lifted : SUBSET Key]
  /\ edits \in 0..MaxEdits /\ ops \in 0..MaxOps
  /\ missed \subseteq Secs /\ agreed \subseteq Secs

Init ==
  /\ today = 1
  /\ symFeed = [k \in Key |-> None] /\ calFeed = [k \in Key |-> None]
  /\ stored = [k \in Key |-> None] /\ over = [k \in Key |-> {}]
  /\ pulled = {} /\ swept = 0 /\ lastRun = 0
  /\ factors = [k \in Key |-> None] /\ failed = {}
  /\ step = "idle" /\ mode = "none" /\ todo = {} /\ asked = Nothing
  /\ edits = 0 /\ ops = 0
  /\ missed = {} /\ agreed = {}

-----------------------------------------------------------------------------
(* The vendor and the clock *)

Tomorrow ==
  /\ step = "idle" /\ today < MaxDay
  /\ today' = today + 1
  /\ agreed' = {}
  /\ UNCHANGED <<feeds, stored, over, marks, factors, failed, night, ops, missed>>

\* A record is declared, amended or withdrawn, on one feed or on both.
Published(feed, k, v, on) == IF on THEN [feed EXCEPT ![k] = v] ELSE feed

Publish(k, v, where) ==
  /\ edits < MaxEdits
  /\ edits' = edits + 1
  /\ symFeed' = Published(symFeed, k, v, "symbol" \in where)
  /\ calFeed' = Published(calFeed, k, v, "calendar" \in where)
  /\ <<symFeed', calFeed'>> # <<symFeed, calFeed>>
  /\ agreed' = agreed \ {k.sec}
  /\ UNCHANGED <<today, stored, over, marks, factors, failed, night, ops, missed>>

\* The per-symbol feed moves an action to another date, the amount perhaps amended.
Redeclare(k, d, v) ==
  /\ edits < MaxEdits
  /\ edits' = edits + 1
  /\ symFeed[k] \in Values /\ d # k.day /\ symFeed[At(k, d)] = None
  /\ symFeed' = [symFeed EXCEPT ![k] = None, ![At(k, d)] = v]
  /\ agreed' = agreed \ {k.sec}
  /\ UNCHANGED <<today, calFeed, stored, over, marks, factors, failed, night, ops, missed>>

-----------------------------------------------------------------------------
(* One record, one factor set *)

\* Mutant of Stores: the operator's deletion is not asked.
StoresDeleted(said, supp, k) == said[k] \in Values /\ k.day <= today

\* The records a feed's payload stores: valid, gone ex, and not at a deleted key.
Stores(said, supp, k) ==
  /\ said[k] \in Values
  /\ k.day <= today
  /\ k \notin supp

\* Mutants of Upserted: a stored row is final; a change is not stamped.
UpsertedOnce(rows, k, v, r) ==
  IF rows[k] # None THEN rows[k] ELSE [src |-> "fmp", val |-> v, run |-> r]
UpsertedUnstamped(rows, k, v, r) ==
  IF rows[k] # None /\ (rows[k].src # "fmp" \/ rows[k].val = v) THEN rows[k]
  ELSE [src |-> "fmp", val |-> v, run |-> IF rows[k] = None THEN r ELSE rows[k].run]

\* The row of a key after the upsert of one record: FMP revises its own row, and the
\* run is stamped only on a row it changes.
Upserted(rows, k, v, r) ==
  IF rows[k] # None /\ (rows[k].src # "fmp" \/ rows[k].val = v) THEN rows[k]
  ELSE [src |-> "fmp", val |-> v, run |-> r]

Applied(rows, said, supp, r) ==
  [k \in Key |-> IF Stores(said, supp, k) THEN Upserted(rows, k, said[k], r) ELSE rows[k]]

Deleted == {k \in Key : "delete" \in over[k]}

Of(said, s) == [k \in Key |-> IF k.sec = s THEN said[k] ELSE None]

\* The factors of the securities in S, recomputed from the rows.
Computed(S, rows) ==
  [k \in Key |-> IF k.sec \notin S THEN factors[k]
                 ELSE IF rows[k] = None THEN None ELSE rows[k].val]

Stale(s) == \E k \in KeysOf(s) : Computed({s}, stored)[k] # factors[k]

Recompute(S, rows) ==
  /\ factors' = Computed(S, rows)
  /\ failed' = failed \ S
  /\ missed' = missed \ S

ChangedBy(r) == {s \in Secs : \E k \in KeysOf(s) : stored[k] # None /\ stored[k].run = r}

-----------------------------------------------------------------------------
(* The night: `ingest actions`, then `adjust --changed` *)

Touched(rows) == {s \in Secs : \E k \in KeysOf(s) : rows[k] # stored[k]}

\* RunLog: a new run of the endpoint, and from then on the newest.
NewRun ==
  /\ lastRun < MaxRun
  /\ lastRun' = lastRun + 1
  /\ missed' = missed \cup {s \in Secs : Stale(s)}

\* Who is pulled per symbol: everyone in symbol mode; otherwise those never pulled,
\* and in auto mode the funds.
Pending(m) ==
  IF m = "symbol" THEN Secs
  ELSE (Secs \ pulled) \cup (IF m = "auto" THEN Funds ELSE {})

StartNight(m) ==
  /\ step = "idle"
  /\ NewRun
  /\ step' = "load" /\ mode' = m /\ todo' = Pending(m)
  /\ UNCHANGED <<today, feeds, stored, over, pulled, swept, factors, failed, asked,
                 ops, agreed>>

\* load_symbol_actions and the watermark of the security, one commit.
PullSecurity(s) ==
  /\ step = "load" /\ s \in todo
  /\ stored' = Applied(stored, Of(symFeed, s), Deleted, lastRun)
  /\ pulled' = pulled \cup {s}
  /\ agreed' = agreed \cup {s}
  /\ todo' = todo \ {s}
  /\ UNCHANGED <<today, feeds, over, swept, lastRun, factors, failed, step, mode,
                 asked, ops, missed>>

EndLoad ==
  /\ step = "load" /\ todo = {}
  /\ step' = IF mode = "symbol" THEN "due" ELSE "sweep"
  /\ UNCHANGED <<today, feeds, stored, over, marks, factors, failed, mode, todo, asked,
                 ops, hist>>

WindowStart == (IF swept = 0 THEN today ELSE swept) - Overlap

\* The deleted keys are read once, then both calendars for the window.
ReadSweep ==
  /\ step = "sweep"
  /\ asked' = [keys |-> [k \in Key |-> IF k.day \in WindowStart..today
                                       THEN calFeed[k] ELSE None],
               lifted |-> Deleted]
  /\ step' = "write"
  /\ UNCHANGED <<today, feeds, stored, over, marks, factors, failed, mode, todo, ops,
                 hist>>

\* The window and its watermark are one transaction.
WriteSweep ==
  /\ step = "write"
  /\ stored' = Applied(stored, asked.keys, asked.lifted, lastRun)
  /\ swept' = today
  /\ agreed' = agreed \ Touched(stored')
  /\ step' = "check" /\ asked' = Nothing
  /\ todo' = {s \in Secs : Bucket[s] = today % Buckets}
  /\ UNCHANGED <<today, feeds, over, pulled, lastRun, factors, failed, mode, ops, missed>>

-----------------------------------------------------------------------------
(* The reconciliation of one security *)

\* The rows FMP wrote: the feed's to confirm or withdraw.
Own(s) == {k \in KeysOf(s) : stored[k] # None /\ stored[k].src = "fmp"}

OnFeed(s) == {k \in KeysOf(s) : Stores(symFeed, Deleted, k)}

Settled(k) == k.day <= today - Overlap

Gone(s) == {k \in Own(s) : Settled(k) /\ k \notin OnFeed(s)}

\* Mutant of Moved: the nearest of several will do.
MovedToAny(s, k) ==
  /\ k.type = "dividend"
  /\ \E n \in OnFeed(s) : n.type = k.type /\ n # k /\ Apart(n.day, k.day) <= Redate

\* A dividend that the feed moved: exactly one dividend of that amount close by.
Moved(s, k) ==
  /\ k.type = "dividend"
  /\ Cardinality({n \in OnFeed(s) : /\ n.type = k.type /\ n # k
                                    /\ Apart(n.day, k.day) <= Redate
                                    /\ symFeed[n] = stored[k].val}) = 1

Redated(s) == {k \in Gone(s) : Moved(s, k)}

\* Mutant of Reconcile: nothing is recomputed.
ReconcileUncomputed(s) ==
  /\ step = "check" /\ s \in todo
  /\ LET pulledRows == Applied(stored, Of(symFeed, s), Deleted, lastRun)
     IN stored' = [k \in Key |-> IF k \in Redated(s) THEN None ELSE pulledRows[k]]
  /\ agreed' = agreed \cup {s}
  /\ todo' = todo \ {s}
  /\ UNCHANGED <<today, feeds, over, marks, factors, failed, step, mode, asked, ops, missed>>

\* One transaction per security: the full pull, and the deletion of what it re-dated.
Reconcile(s) ==
  /\ step = "check" /\ s \in todo
  /\ LET pulledRows == Applied(stored, Of(symFeed, s), Deleted, lastRun)
     IN stored' = [k \in Key |-> IF k \in Redated(s) THEN None ELSE pulledRows[k]]
  /\ IF Redated(s) # {} THEN Recompute({s}, stored')
                        ELSE UNCHANGED <<factors, failed, missed>>
  /\ agreed' = agreed \cup {s}
  /\ todo' = todo \ {s}
  /\ UNCHANGED <<today, feeds, over, marks, step, mode, asked, ops>>

EndCheck ==
  /\ step = "check" /\ todo = {}
  /\ step' = "due"
  /\ UNCHANGED <<today, feeds, stored, over, marks, factors, failed, mode, todo, asked,
                 ops, hist>>

-----------------------------------------------------------------------------
(* The factors *)

StartAdjust ==
  /\ step = "due"
  /\ step' = "adjust" /\ todo' = ChangedBy(lastRun)
  /\ UNCHANGED <<today, feeds, stored, over, marks, factors, failed, mode, asked, ops,
                 hist>>

AdjustOne(s) ==
  /\ step = "adjust" /\ s \in todo
  /\ Recompute({s}, stored)
  /\ todo' = todo \ {s}
  /\ UNCHANGED <<today, feeds, stored, over, marks, step, mode, asked, ops, agreed>>

\* A security whose factors will not compute is flagged and stepped over.
StepOver(s) ==
  /\ step = "adjust" /\ s \in todo
  /\ failed' = failed \cup {s}
  /\ todo' = todo \ {s}
  /\ UNCHANGED <<today, feeds, stored, over, marks, factors, step, mode, asked, ops, hist>>

EndNight ==
  /\ step = "adjust" /\ todo = {}
  /\ step' = "idle" /\ mode' = "none"
  /\ UNCHANGED <<today, feeds, stored, over, marks, factors, failed, todo, asked, ops,
                 hist>>

\* `set -e`: an error or a kill between two commits ends the night.
Stop ==
  /\ step # "idle"
  /\ step' = "idle" /\ mode' = "none" /\ todo' = {} /\ asked' = Nothing
  /\ UNCHANGED <<today, feeds, stored, over, marks, factors, failed, ops, hist>>

\* `fafnir adjust` by hand: every security that has an action.
AdjustAll ==
  /\ step = "idle"
  /\ Recompute({s \in Secs : \E k \in KeysOf(s) : stored[k] # None}, stored)
  /\ UNCHANGED <<today, feeds, stored, over, marks, night, ops, agreed>>

-----------------------------------------------------------------------------
(* Other parties *)

Operates == ops < MaxOps /\ ops' = ops + 1

\* What an edit leads to in its transaction: the factors of its security.
Edited(s) ==
  /\ Quiet => step # "write"
  /\ agreed' = agreed \ {s}
  /\ Recompute({s}, stored')
  /\ UNCHANGED <<today, feeds, marks, night>>

\* `fafnir ingest actions --symbols`: a run of the same endpoint, and no recompute.
ExplicitPull(s) ==
  /\ step \in {"idle", "due"} /\ ops < MaxOps
  /\ NewRun
  /\ stored' = Applied(stored, Of(symFeed, s), Deleted, lastRun')
  /\ pulled' = pulled \cup {s}
  /\ agreed' = agreed \cup {s}
  /\ ops' = ops + 1
  /\ UNCHANGED <<today, feeds, over, swept, factors, failed, night>>

Operator(k, v) == [src |-> "operator", val |-> v, run |-> 0]

\* A row the operator added is undone, not deleted.
DeletedByOperator(k) ==
  /\ stored[k] # None
  /\ "delete" \notin over[k] /\ "add" \notin over[k]
  /\ over' = [over EXCEPT ![k] = @ \cup {"delete"}]
  /\ stored' = [stored EXCEPT ![k] = None]

AddedByOperator(k, v) ==
  /\ k.day <= today /\ stored[k] = None
  /\ over' = [over EXCEPT ![k] = @ \cup {"add"}]
  /\ stored' = [stored EXCEPT ![k] = Operator(k, v)]

\* A delete and an add that name each other, or neither.
RedatedByOperator(k, d) ==
  LET n == At(k, d)
  IN /\ d # k.day /\ d <= today
     /\ stored[k] # None /\ stored[n] = None
     /\ "delete" \notin over[k] /\ "add" \notin over[k]
     /\ over' = [over EXCEPT ![k] = @ \cup {"delete"}, ![n] = @ \cup {"add"}]
     /\ stored' = [stored EXCEPT ![k] = None, ![n] = Operator(n, stored[k].val)]

\* Undoing an addition removes the row; undoing a deletion leaves it to the loader.
RevokedOverride(k, op) ==
  /\ op \in over[k]
  /\ over' = [over EXCEPT ![k] = @ \ {op}]
  /\ stored' = IF op = "add" /\ stored[k] # None /\ stored[k].src = "operator"
               THEN [stored EXCEPT ![k] = None] ELSE stored

Delete(k)          == DeletedByOperator(k) /\ Operates /\ Edited(k.sec)
Add(k, v)          == AddedByOperator(k, v) /\ Operates /\ Edited(k.sec)
RedateAction(k, d) == RedatedByOperator(k, d) /\ Operates /\ Edited(k.sec)

\* Bounded by the overrides there are.
Revoke(k, op) == RevokedOverride(k, op) /\ ops' = ops /\ Edited(k.sec)

\* sharadar_actions.load for one of its records: nothing near another source's action
\* of the type, never over another party's row, and the factors recomputed.
FilledFrom(k, v) ==
  /\ k.day <= today /\ k \notin Deleted
  /\ \A n \in KeysOf(k.sec) :
       (n.type = k.type /\ Apart(n.day, k.day) <= Near /\ stored[n] # None)
       => stored[n].src = "sharadar"
  /\ over' = over
  /\ stored' = [stored EXCEPT ![k] = [src |-> "sharadar", val |-> v, run |-> 0]]

SharadarFill(k, v) == FilledFrom(k, v) /\ Operates /\ Edited(k.sec)

-----------------------------------------------------------------------------
SecurityStep(s) ==
  \/ PullSecurity(s)
  \/ Reconcile(s)
  \/ AdjustOne(s)
  \/ StepOver(s)

NightStep ==
  \/ \E m \in Modes : StartNight(m)
  \/ \E s \in Secs : SecurityStep(s)
  \/ EndLoad
  \/ ReadSweep
  \/ WriteSweep
  \/ EndCheck
  \/ StartAdjust
  \/ EndNight
  \/ Stop

\* The commands that load one security's actions outside the night.
IngestActions == \E s \in Secs : ExplicitPull(s)

IngestSharadarActions == \E k \in Key, v \in Values : SharadarFill(k, v)

ByHand ==
  \/ AdjustAll
  \/ IngestActions
  \/ \E k \in Key : Delete(k)
  \/ \E k \in Key, v \in Values : Add(k, v)
  \/ \E k \in Key, d \in Days : RedateAction(k, d)
  \/ \E k \in Key, op \in {"delete", "add"} : Revoke(k, op)
  \/ IngestSharadarActions

Next ==
  \/ Tomorrow
  \/ \E k \in Key, v \in Says, where \in SUBSET {"symbol", "calendar"} : Publish(k, v, where)
  \/ \E k \in Key, d \in Days, v \in Values : Redeclare(k, d, v)
  \/ NightStep
  \/ ByHand

Spec == Init /\ [][Next]_vars

-----------------------------------------------------------------------------
(* Properties *)

\* No loader brings back what the operator deleted (suppressed_action_keys).
DeletedStaysOut ==
  \A k \in Key : "delete" \in over[k] => stored[k] = None \/ stored[k].src = "operator"

\* `adjust --changed` finds what is stale: a security whose factors are not those of
\* its actions was changed by the newest run, has its failure flagged, or was left
\* stale by a run that is no longer the newest (upsert_corporate_action: what the
\* return value and the stamp are for; reconcile: "a delete leaves no row stamped").
StaleIsKnown ==
  \A s \in Secs : Stale(s) => s \in ChangedBy(lastRun) \cup failed \cup missed

\* A night that ends leaves the factors of every security those of its actions, or
\* the security flagged (daily_update.sh: "a missed day is caught up automatically on
\* the next run").
NightLeavesCurrent ==
  [][EndNight => \A s \in Secs : Stale(s) => s \in failed]_vars

\* Once a security was pulled or reconciled, and as long as the feed, the operator and
\* the calendar leave it alone, every valid record of its feed that has gone ex is
\* stored as reported, but for keys of other parties: what was declared or amended
\* behind the sweep's window is repaired (reconcile).
AgreesWithFeed ==
  \A s \in agreed : \A k \in OnFeed(s) :
    /\ stored[k] # None
    /\ stored[k].src = "fmp" => stored[k].val = symFeed[k]

\* The reconciliation deletes only what the feed carries on another day, so that no
\* distribution is lost with it (_redated_dividends: "an absence on its own is not
\* evidence of anything").
NothingLost ==
  [][\A k \in Key :
       (stored[k] # None /\ stored'[k] = None /\ over' = over)
       => \E d \in Days \ {k.day} : /\ Apart(d, k.day) <= Redate
                                    /\ stored'[At(k, d)] # None
                                    /\ stored[k].val = symFeed[At(k, d)]]_vars
=============================================================================
