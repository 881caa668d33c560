# fafnir in TLA+

fafnir is a market-data warehouse: loaders pull bars, corporate actions, symbol
changes and fundamentals from vendors (FMP, Sharadar), validate them and store them in
Postgres; data-quality checks queue what looks wrong; an operator corrects, deletes,
accepts and reverts; `duk` and an MCP server read the result. These modules model the
parts whose correctness depends on the order of things: what a nightly load may do to
what is stored, how several parties share one table, and how standing problems are
queued and closed. Paths below are relative to the repository's `src/`.

## How the program runs

* Every command is one process with one Postgres session at READ COMMITTED
  (`src/fafnir/db`). There is no application lock and, but for one `SELECT ... FOR
  UPDATE` in `revert_vendor_correction`, no row lock: two statements of one transaction
  may see different committed states. What protects a row against a concurrent session
  is a unique index or the `WHERE` of an `ON CONFLICT DO UPDATE`.
* `RunLog` (`src/fafnir/ingest/runlog.py`) commits when a run is entered, at each
  checkpoint (for prices: after each security) and when it ends; an exception rolls the
  open security back.
* The nightly (`scripts/daily_update.sh`, a systemd timer) runs the steps in order;
  operators run the same commands by hand at any time, the timer notwithstanding.

## Inventory

| component | state | operations | what is hard | what makes it correct |
| --- | --- | --- | --- | --- |
| Daily price loader (`ingest/daily_price.py`) | `core.daily_price`, `ops.load_watermark`, quarantine flags | window, fetch, override filter, validation, guards, upsert, watermark | overlap re-reads, bars that stay bad, restatements, two loads at once | no gap behind the watermark, no silent restatement, progress |
| Precedence (`db/repository.py` `upsert_daily_prices`, `vendor_correct`) | source of each row, `ops.vendor_correction` | upsert, correction, revert | read, record and write are three statements | a lower rank never wins, a replaced row is on record |
| Operator overrides | `ops.operator_override`, replaced rows in their detail | delete, edit, revoke | a load in flight; a date behind the window | row, override and saved row go together |
| History edits (`db/repository.py`, `ingest/price_edits.py`) | overrides of many dates under one edit number; bars, actions and flags split off onto another security | shift, rescale, add, re-date, split, undo | loads between an edit and its undo; two operations over the same rows | an undo leaves what the operation found; a moved row is on one side |
| Review queue (`dq/*`, `repository.py`) | `ops.data_quality_flag`, labels | detect, resolve, accept, reopen, recheck, merge | concurrent checks, prompts, two rows of one condition | one open row per condition; what persists comes back |
| Corporate actions (`ingest/corporate_actions.py`) | `core.corporate_action`, sweep watermark, pulled securities | calendar sweep, per-symbol pull, rotating reconciliation | amended, re-dated and withdrawn actions, changes between the load and the recompute | what was pulled is what the feed says less the operator's; a re-dated dividend counts once |
| Adjustments (`ingest/adjustments.py`) | factors per security | recompute one, all, changed | one failing of many; factors of a run that was superseded; one split recorded twice | a return over an ex-date is the raw one; what is stale is known |
| Identity under FMP: symbol changes, delistings, transfers, master, merges | `core.security`, ticker periods, statuses | rename, fold, delist, relist, mint, merge | arrival order, chains, swaps, ticker reuse, a delisting that was a move of venue | one holder of a ticker at a time; a stamp is for the security's own company; a past date finds who traded then |
| Identity under Sharadar: universe step, relistings, cross-vendor merges, dedupe, scope (`ingest/sharadar_universe.py`, `relist.py`, `cross_vendor_merge.py`, `tracked.py`) | the same tables, the vendor's events and listings, feeding links | rename, delist, list, flag by permaticker; relist, merge, dedupe, descope, track | events posted late; a window of events that slides past failed runs; a prompt a night runs under | the vendor's ticker finds the row it feeds; no event is lost; bars survive folds and merges |
| Sharadar files, nightly, prune (`ingest/sharadar_*.py`) | file ledger, `through` parameter of runs, files on disk | fetch delta, apply pending, backfill a new listing, prune | overlapping deltas, crash before `through`, prune against apply | no revision is lost, nothing needed is deleted |
| Vendor links (`ingest/vendor_link.py`, `vendor_review.py`, `vendor_feed.py`, `vendor_overlap.py`, `vendor_mint.py`) | `core.security_vendor_xref`, rejections, unlinked and overlap flags | link, accept, reject, feed, scan, mint, merge | minutes between reading and writing, decisions against a run in flight | one open link per key and per security; a person's no stands; what was minted stays fed |
| Fundamentals (`ingest/fundamentals.py`) | statement versions on two timelines | load, restate, correct, supersede | several rows of a period in one delta, splits between fetch and load | versions chain in knowledge time; what a reader was told stays told |
| Run log and nightly script | `ops.ingestion_run` | start, checkpoint, end, retry | killed process, outage, retry of half a step | a dead run is not a success |
| Source clients (`sources/base.py`) | call times of the limiter | request, retry, page | retry after partial work | the rate is kept and waiting ends |
| Migrations (`db/migrate.py`) | `schema_migrations`, the schema | apply, record, roll back | crash between a file's COMMIT and its record | applied once, in order |
| `duk`, MCP server, reports, marts | none of their own | queries | - | read-only: not modelled |

The loaders meet in the tables: FMP's loader, Sharadar's loader and the operator write
the same `core.daily_price` rows; loads and repairs create and remove the conditions
that checks turn into flags; a merge of two securities rewrites bars, actions, flags
and links at once.

## Modules

| module | what it is |
| --- | --- |
| `PriceLoad` | The load of one security's bars from FMP, with the operator, Sharadar's loader and the vendor as other actors. `MCPriceLoad`, `PriceLoadProofs`. |
| `BarValidation` | The pure judgement of one payload: fields, rounding, NAV strikes, cross-field checks, against the table's CHECKs. |
| `BarGuards` | The two guards `_guard_bars` applies after it, in exact integer arithmetic. `FmpProofs`. |
| `Adjustments` | The factors of one security's adjusted prices and the splits suspected of being one. |
| `AuditedRows` | Abstract: what the shared table promises, one write one step. |
| `Precedence` | Detailed: read, record and write as the code interleaves them. `Audited` says it implements `AuditedRows`. `MCPrecedence`, `PrecedenceProofs`. |
| `DqFlags` | The life of a standing flag. `MCDqFlags`, `ByHandProofs`. |
| `Detectors` | What the nightly checks select from bars, calendar and master, and by which queries `dq recheck` closes their flags. `PriceLoadProofs`. |
| `StatementChecks` | The fourteen checks over the statements of one security, and the recheck of their flags. `MCStatements` has the books, `PrecedenceProofs` the proofs. |
| `CorporateActions` | Pull, sweep and reconciliation of actions, the recompute that follows, the operator and Sharadar's fill. `MCCorporateActions`, `FmpProofs`. |
| `Identity` | Securities and the periods their tickers belong to them, against a market of companies. `MCIdentity`, `IdentityProofs`. |
| `Universe` | The same once Sharadar drives it: the nightly universe step by permaticker, and what the operator does about rows the cutover left behind. `SharadarProofs`. |
| `MCParts` | `BarGuards`, `BarValidation`, `Adjustments`, `Detectors`, `StatementChecks` and `Universe` side by side: they share no state, each behaviour follows one of them. |
| `HistoryEdits` | Bars and actions an operator deletes, moves, re-scales or splits off, and the undo of each, beside vendors that load. `MCHistoryEdits`, `ByHandProofs`. |
| `SharadarNight` | Sharadar's night for one price table over the file ledger: delta, listings, nightly, prune. `MCSharadarNight`, `SharadarProofs`. |
| `StatementHistory` | Abstract: what a reader of the statements was told on one day, for one day, stays told. |
| `Fundamentals` | Detailed: SF1's files, the plan a load makes and the versions it writes. `HistoryStands` says it implements `StatementHistory`. `MCFundamentals`, `FundamentalsProofs`. |
| `VendorLinks` | Which vendor key a security is: the engine, a person's decisions, the feed, the overlap scan and the mints. `MCVendorLinks`, `VendorLinksProofs`. |

### PriceLoad and the code

`load_symbol_prices` is one transaction whose reads see other sessions' commits, so it
is four actions: `NightlyFetch`/`ExplicitFetch` (`_window_start`, the vendor's answer
less non-sessions), `ReadOverrides` (`_drop_suppressed`), `Judge` (validation, the
stored bars, `_guard_bars`) and `Commit` (upsert, flags, watermark, commit). `Fail` is
an exception or a kill in between. Flags a load writes earlier become visible with its
commit, so they belong to `Commit`; the one place the load reads its own uncommitted
flags, `count_price_quarantines`, is `FlagCount`.

Sharadar's loader beside it is `SharadarGate` (the dates without an override, `_gate`),
`SharadarWrites` (the upsert of `_write`, which an operator's row still refuses) and
`SharadarQuarantines`: a bar of its that fails the validator leaves a `price_*` flag, and
`count_price_quarantines` counts it toward FMP's holds too.

| variable | code |
| --- | --- |
| `feed`, `edits` | what the vendor would serve now; bound on changes |
| `cleared` | dates Sharadar's loader has found without an override and not yet written |
| `bars` | the rows of the security in `core.daily_price`, with their source |
| `quar`, `conflict` | `price_*` flags per date (saturating at `MAX_QUARANTINE_HOLDS`), open restatement conflicts |
| `wm` | `ops.load_watermark` |
| `splits` | split ex-dates on file, for the split-scale guard |
| `over`, `saved` | active override per date; the row an edit replaced |
| `pc ... out` | local state of a load in flight |
| `pending`, `lifted` | history: newest committed read was a quarantine; delete revoked and no bar since |

A date is an integer, a bar an element of `Bar`; how far apart two bars are is the
constants `Restates`, `Kept` and `AtSplitScale`. `BarGuards` gives them their real
definitions, and `KeptNeverRestates` proves there what `PriceLoad` assumes of them.

### Precedence and the code

`Begin` is a writer that has set the operator's dates aside, `ReadHeld` is `_held_bars`
with the filter that follows it, `Apply` the insert of the corrections and the
`INSERT ... ON CONFLICT DO UPDATE ... WHERE` (`Lands` is that WHERE). `Serial` says
whether anything else writes meanwhile. `Revert` is `revert_vendor_correction`; the
operator's actions are those of `PriceLoad`.

### DqFlags and the code

A check is `Detect` (the SELECT with its two NOT EXISTS probes) and `InsertFlag`, or `Collide`
when `ux_dq_flag_open_condition` refuses. `Ask`/`Confirm`/`Decline` are the list, prompt
and UPDATE of `dq resolve` and `dq accept`; `Recheck`/`CloseStale` are the two halves of
`dq recheck`. `Merge` is `merge_security` as far as flags go. Conditions appear and
disappear by `ConditionChanges`. The `price_*` quarantines are not in this module: each
detection is a row of its own, and `PriceLoad` counts them.

`labels` are the rows of `ops.dq_label` that a closure stated (`dq accept|resolve --label`,
one transaction with the closure) and that still stand: `Labelable` leaves out the flags that
`flag_label_rows` cannot place, a reopen takes the label back with the decision, and
`RevokeLabel` is `dq label revoke`. Labels stated apart from a flag are not modelled.

### Detectors, StatementChecks and the code

Each detector is the set its SELECT returns, each recheck the query that `recheck.py` asks
of an open flag; the two are written separately in the code and separately here. A window
function is what it reads: the row before a row, the first of a group, the place of a row in
its run.

`Detectors` has the bars of two securities, the calendar, the splits and dividends on file and
what the checks read of the master. `DqRun`, `Adjust` (of any of the securities; which flags a
dividend without a close before it) and `Recheck` are the commands; `BarChanges`,
`CalendarChanges`, `SplitChanges`, `DividendChanges`, `DividendPruned` and `MasterChanges`
stand for all that loads and repairs do in between. A dividend leaves in two ways:
`prune_outside_span` takes the flag keyed on it along, while the reconciliation
(`delete_corporate_action`) and the operator's delete, re-date and revoke leave the flag open.
A flag is its condition; a forked ticker is the one that no recheck knows.

`StatementChecks` has the books of one security (income, balance sheet, cash flow, every
version of a period), its bars and what its master says. `Found` is what the fourteen
detectors select of them; `StatementRun` writes it, and only if no condition is selected
twice, as the index of open conditions would otherwise undo the run. `BooksChange` is any
load, restatement or classification.

### SharadarNight and the code

`fafnir ingest sharadar` (`cli.py`) runs seven commands in one process; any may fail and
ends the night, and the next night starts at the first. `step` is the command about to
run; steps 1, 3 and 6 (TICKERS, ACTIONS and what is derived from them) change nothing
here. `FetchDelta` is step 2 for the table, `Universe` the listings of step 4,
`StartNightly`/`ApplySecurity`/`EndNightly` step 5 with a commit per security, `Prune`
step 7. `StartNightly(targets, TRUE)` is `sharadar-prices --nightly --symbols`, and
`DownloadFull` is `sharadar-bulk --force`, both by hand between nights. `Stop` is the
failure or kill.

| variable | code |
| --- | --- |
| `vendor` | the vendor's table: per bar the stamp (`lastupdated`), which version it is, whether the validator takes it |
| `files` | `landing.sharadar_file`; the position is `file_id`, the rows stand for the content (`sha256`) |
| `stored` | `core.daily_price`: the version held, or another party's row |
| `fed` | securities with an open feeding link |
| `through` | `params.through` of the last run `last_successful_run` finds |
| `universeRun` | when the universe step last succeeded (`default_since`) |
| `night` | local state of the price step; `pend` and `to` are read when it starts |
| `seen`, `seenOn` | history: what the vendor served when a delta was last asked for |

A version stands for everything `_revised` compares, so any new version counts as a
revision. Days are `date()`s of `fetched_at`. `mark_sharadar_file_deleted` commits before
the unlink and every reader checks the row, so what is on disk adds nothing.

Left out: the ticker a delta used for a security (`renamed_since`, `valid_from`), the
`--backfill` mode, a vendor that publishes, or a second command that runs, in the middle of a
night, a prune by hand or of a dry-run night.

### CorporateActions and the code

`fafnir ingest actions` is one run: `StartNight` (the mode and who is pulled),
`PullSecurity` per security with a commit each, `ReadSweep`/`WriteSweep` (the deleted keys
and the calendars are read, then everything is written with the watermark in one
transaction) and `Reconcile` for the securities whose turn it is. `StartAdjust` and
`AdjustOne` are `adjust --changed`, which asks for what the *newest* run of the endpoint
changed; `StepOver` is a security whose factors do not compute, `AdjustAll` the command
without a filter, `Stop` an error or kill between two commits. `ExplicitPull` is
`ingest actions --symbols`, which is a run as well. `Delete`, `Add`, `RedateAction`,
`Revoke` are `overrides`, `SharadarFill` one record of `sharadar_actions.load`.

| variable | code |
| --- | --- |
| `symFeed`, `calFeed` | what the per-symbol endpoint and the calendars would report, per key |
| `stored`, `over` | `core.corporate_action` with source and run; active overrides of a key |
| `pulled`, `swept` | `ops.load_watermark`, per security and of the sweep |
| `factors`, `failed` | the actions a security's factors were computed from; `adjustment_failed` |
| `lastRun` | the newest `ops.ingestion_run` of the endpoint |
| `missed`, `agreed`, `clean` | history, for the properties |

Amounts that agree within the tolerance are one value. `factors` says *which* actions a
factor stands for; `Adjustments` says what the factor is, as a fraction kept unreduced.

### Identity and the code

A night is `StartNight`, then the rename feed oldest first (`SkipRename`, `UnheldRename`,
`ApplyRename`, `ConflictRename`: the outcomes of `apply_symbol_change`, a transaction per
record), the universe by ticker (`SkipEntry`, `Mint`, `Refresh`, against the names retired
from each ticker as the step read them when it began, `Entries`), the recent pages of the
delisting feed (`SweepDelisting`; a record its security's bars contradict is passed
over, one the vendor has later bars for is flagged, one whose bars cannot be read waits,
`DelistingUnread`) and `LoadPrices`. `SweepFails` and `ListFails` end their step anywhere and the
night goes on (`upkeep`); `DelistFails` ends the night. `ran` says how far the night came.
`MergeRename`, `DismissRename`, `VenueTransfer`, `DelistByHand`, `FullSweep` are the
operator's.

`Shuffles` are the pairs of tickers that `rename_changes_instrument` refuses (a share and its
warrant, right or unit). `ReportsShuffle` is the feed that reports such a pair although nobody
moved; the sweep records a conflict, and so does a real rename over such a pair, for good:
`security merge-rename` is modelled without `--force`, which alone would carry it out.

| variable | code |
| --- | --- |
| `on`, `since`, `took`, `past` | the market: who trades on which ticker, since when, and before |
| `renames`, `delistings` | the two feeds; they name tickers, the company is for the properties |
| `secs`, `minted` | `core.security`: ticker, name, `delisted_date`, a summary of its bars; the sequence |
| `xref` | `core.symbol_xref`: the periods |
| `recorded`, `conflicts`, `judged`, `drift` | `core.symbol_change` and three kinds of flag |

The properties compare the warehouse with the market, which the code cannot see. After a night
whose universe step went through, the ticker of a company leads to the row with its bars
(`TickerFindsCompany`), unless a row of its name was called delisted (`Misreported`) or the
step took its entry for the echo of a renamed row (`Echoes`; Known limits tells how a renamed
company can come to look like one). A past date finds who traded then (`PastFinds`), a second
row for one company does not go unreported (`ForksAreReported`); these two hold for a while
only, see Known limits, and no run lists them. `Heeds` is what they assume of the operator: a
plan that would re-open another ticker is declined, the oldest conflict is merged first, and a
delisting by hand names a day on which trading ended.

### Fundamentals, StatementHistory and the code

One vendor key, one security, one statement. `FetchDelta`/`FetchFull` land a file,
`Load` is the nightly load of the pending ones (merge, plan, write, one transaction),
`Backfill` the load of the full file, `FetchFails`/`LoadBreaks` failures. `File`,
`Restate`, `Fix` and `Split` are SF1 and its issuers. `Written` is the pure plan of
`plan_key`: per period the first report (`FirstReported`), a restatement alone or after it
(`RestatedAlone`, `Restated`), the refusal of a correction that would not stay before its
successor (`Refused`).

| variable | code |
| --- | --- |
| `reports`, `restated`, `splits` | what SF1 and ACTIONS serve; `fresh` is `lastupdated` past the last file |
| `full`, `pending` | the current full file; the deltas no completed load has applied |
| `rows` | the statement table: `[from, to)` is known from/to, `[loaded, until)` recorded/superseded |

Share counts are base-two logarithms of a count that each split doubles, so `in_terms` is
a subtraction. `StatementHistory` holds what a read as of a knowledge day, at the end of a
load day, answers; `Held` is the refinement mapping.

The model assumes that SF1 and ACTIONS list a split on the same day and that no file is
read across an ex-date it does not know (`InStep`), and leaves out two filings on one
first day (twins, of which neither loads), the other keys of a security
(`Links.resolve`), quarantined rows and moved statements.

### VendorLinks and the code

`ReadLinks`/`WriteLinks` is `fafnir vendor link` (all, `--new` or `--symbols`): candidates,
comparison and `_settle_double_claims` are the pure `Evaluate`, over what the run reads;
the write is one transaction that the table's keys may refuse (`Addable`), and then
nothing is written (`Stop`). `ReadScan`/`WriteScan` is `vendor overlap`, `MintDelisted`,
`MintAllowed` the two ways of `vendor mint-delisted`, `MintListing` the universe step's
mint. `PlanAccept`/`ApplyAccept` and `PlanReject`/`ApplyReject` are a person's review on
both sides of its prompt. `FeedFrom`/`FeedBack` is `vendor feed`, `Merge` what
`merge_security` does with links, flags and rejections.

| variable | code |
| --- | --- |
| `known` | `core.vendor_security`: the keys loaded |
| `found`, `first`, `trades` | what comparing the two price histories says, as one of four grades; who is live on the key's ticker |
| `rows`, `links`, `rejected` | `core.security`, `core.security_vendor_xref`, `core.security_vendor_rejection` |
| `flags`, `overlaps`, `waived` | open `vendor_xref_*` flags by reason; open and accepted `vendor_history_overlap` |
| `scanned` | whether the last scan's run is newer than the last master load's |
| `run`, `review` | the engine or scan, and a person's decision, between read and write |
| `calm`, `crossed`, `late` | history, for the properties |

A comparison is a grade and not prices: what the engine does with samples, tolerances
and days in common ends in one of the four. Reads of one run are taken together, one
vendor is modelled, and an id may be minted again after a merge removed it. A mint is one
step per security, whatever run is in flight: the code plans all of them and then commits in
batches of 500 (`vendor_mint.py:338-344`), so that what comes up between its plan and a later
batch is left out, as what comes up after the scan is (`late`; `GuardIsEnough` under Known
limits). Why a security has no link is one of five reasons; `insufficient_overlap` and
`not_covered_asset_type` count as `no_candidate`.

### Universe and the code

A night is `LoadMaster` (TICKERS and ACTIONS, of which any event may be `Late` days behind),
`UniverseRun` and `LoadPrices`; `RunFails` and `PricesFail` end it. `UniverseRun` is one
transaction, `AfterRun` its four parts in order: `SweepRenames`, `SweepDelisting`,
`SweepListing`, `FlagInactive`, key by key. A write that meets a unique index makes the
run fail (`sound`). `AskRelist`/`AskMerge` are `security relist` and `security merge
--across-vendors` up to the prompt, `Confirm` and `Decline` the answer; the night may run
in between, so the plan is state. `Dedupe`, `Descope`, `TrackAdd` and `TrackRm` are the
operator's other commands. `Renames`, `Lists`, `Delists`, `Relists` are the market.

| variable | code |
| --- | --- |
| `vendorSec` | `core.vendor_security`: ticker, first and last price date per permaticker |
| `pending`, `events` | what ACTIONS will show, and `core.vendor_security_event` |
| `db` | the warehouse as one record, because a run and a confirmed plan replace it whole: securities, ticker periods, feeding links, recorded renames, flags, declared tickers; `sound` and `opened` remember whether a write met a unique index, or a claim a closed period |
| `anchor` | the start of the last run that succeeded; `WindowStart` is `default_since` |
| `plan` | what the operator is asked to confirm |

`Cutover` is the set of situations the change of vendor left behind; `MCCutover` has nine:
a row fed and trading, one with a warrant beside it, one still inactive, one stamped
delisted alone, with an empty duplicate, after a rename, and with an empty or re-minted row
on the new ticker.

### HistoryEdits and the code

Two securities, of which `Src` holds what may be two histories, and a third that a split
may mint. `Load` is any vendor's load of one key, past the active overrides and by rank.
`PricesDelete`, `ActionsDelete`, `ActionsAdd`, `ActionsRedate`, `PricesRescale`,
`PricesShift`, `SplitHistory` are the commands, `Revoke`, `RevokeEdit` and `UndoSplit` take
them back; `Raise` is a check that flags a date.

| variable | code |
| --- | --- |
| `held` | `core.daily_price` and `core.corporate_action` by key; a negative value is the same price at another scale |
| `over` | active rows of `ops.operator_override`, with the edit number and the split mark of their detail |
| `flags` | open dated flags, of a check about a date (`Subjects`); `home` is the security whose history they are about. Flags of a `price_*` check (`Counted`) repeat, and a move drops none of them |
| `before`, `since` | history: what an operation found, and what something else changed since |

Plan and write are one step here; what changes while a prompt waits is left out.

### BarGuards, BarValidation, Adjustments and the code

`BarGuards` judges bars of one date load after load: `FirstRead` without a stored row
(split scale), `Reread` with one (restatement, odd lots). The code compares decimals;
here every ratio is a quotient of integers and each comparison is multiplied out, so
nothing is rounded. `BarValidation` reads one payload per behaviour; a payload number
counts `1/Sub` of the column's last place, so that rounding to six places has something
to round. `Adjustments` takes a history of closes, splits and dividends and computes the
factors in one step, as `compute_security` does.

## Runs

| run | bounds | what it shows |
| --- | --- | --- |
| `price_nightly` | 4 dates, one closed, a possible split, overlap 1, 2 holds, 3 bars, 3 vendor changes, 1 loader | `HeldDatesRefetched`, `FirstPrintKept`, and under fairness `CatchesUp` |
| `price_shared` | 2 dates, 2 loaders, explicit windows, operator, Sharadar, 3 writes | `OperatorRowsRecorded`, `ForeignRowsKept` whatever is in flight |
| `rows_serial` | 2 keys, 2 values, 2 corrections per key, one writer, symmetric keys and values | `Audited`: `Precedence` implements `AuditedRows` |
| `queue` | 2 securities, 1 record key (with a date), 2 check runs, 6 rows ever, 4 edits | `OneOpenPerCondition`, `MergesNeverCollide`, and under fairness `StillTrueIsQueued` |
| `actions` | 1 security, dividends, 3 days, 2 amounts and a bad one, overlap, re-date and settle windows of 1 day, 2 reconcile buckets, 2 edits of the feed, 1 decision of the operator | `StaleIsKnown`, `AgreesWithFeed`, `NothingLost` with both modes and failures anywhere |
| `factors_lost` | 2 days, 1 amount, mode auto | finds the violation of `NightLeavesCurrent` described under Findings |
| `identity` | 2 companies, 3 tickers of which two are a shuffle, 4 days, 4 market events, 1 operator decision, 1 failure, 5 of these together | `OneHolder`, `HistoryKept`, `TickerFindsCompany` |
| `parts` | prices on, between and beyond what the column holds; closes around a ratio of 5/4, volumes around a round lot; histories of 4 days with a closed one and two actions; for `Detectors` every history of 4 days of one security, with or without a closed day, beside one with a hole, and 1 change of anything; for `StatementChecks` some 4,500 books around the bounds of the detectors and 1 change; for `Universe` 2 permatickers, 3 tickers, 5 days, 2 market events, 2 operator decisions, 1 failure, a window of 1 day and events up to 1 day late, from nine situations | `OrdinaryMovesAreStored`, `RereadIsQuiet`, `AcceptedBarsFit` of the judgements; `RecheckAgrees`, `EveryGapOnce`, `NightIsWritten` of the checks; `OneHolder`, `TickerFindsFed`, `RelistedIsFound`, `BarsKept` of the universe |
| `fundamentals` | 2 figures (symmetric), 2 periods, 3 days, 3 events of SF1, 1 failure, 1 full file | `Chained`, `RereadIsQuiet`, `FirstReportHeld`, `RestatementHeld`, `SplitIsNoVersion`; `HistoryStands`: `Fundamentals` implements `StatementHistory` |
| `links` | 2 securities of FMP's, 1 id to mint, 2 keys, one of a dead issuer, 2 days, 2 decisions or changed comparisons, two initial comparisons | `MintedAreFed`, `RejectedStaysOut`, `HistoryOnOneRow` with the engine, scan and review interleaved |
| `history` | 3 dates, 2 of them ex-dates, 2 vendors over a source, another row and a minted one, 2 operations, 2 flags at a time of one check on one date | `RemovedStaysOut`, `UndoRestores`, `MovedRowsReturn`, `FlagsComeHome` for any two operations with loads between |
| `night` | 2 securities (symmetric), 4 days, 2 dates, 1 revision, stamps up to 1 day late, overlap 1 | `UnappliedKept`, `CaughtUp` with bad bars, narrow runs, forced full files and failures anywhere |

Why the bounds suffice. The watermark moves by comparing dates: a held date, a clean one
before it and a clean one after it are the cases, and four dates with a closed one hold
them with the overlap on either side. Two holds let a date be held, spent and corrected.
Three vendor changes give a date that is bad, corrected and restated, or a bad date
between two good ones. One key suffices where the code treats keys independently; two
show a batch that lands on part of them. Two corrections of a key are the fewest that
can be reverted in the wrong order. Six flag rows are more than four edits can use up,
so no liveness run ends because ids ran out (with five edits they do). The proofs then
remove the bounds for the safety properties they state.

In `SharadarNight` two days separate a stamp, an overlap and a fetch; a third and fourth let an
applied delta grow older than the listings' window while the listing still waits for its
ticker. `Margin` is 0: what the code keeps 15 days longer may go at once, and the clock does
not pass a day inside a night; the margin stands for nights that span days. `FullGap` is 0: see
Known limits. In `actions` the windows are one day, so that an action is amended inside the
overlap, past it, and past the settled age the reconciliation asks for, within three days; two
buckets are the fewest for which a night is not a security's turn. In `identity` three tickers
and four events hold a chain of two renames, a swap, a reuse of a left ticker and a delisting
after any of them. In `fundamentals` two figures and three events hold a report, its
restatement and a correction of either, with a split before, between or after. In `links` two
decisions hold an accept that replaces, a reject of what was accepted and a change of the
comparison under either. In `history` two operations are an operation and its undo with a load
anywhere, or two that overlap; two vendors are the fewest for which a moved row has a
competitor, and two flags the fewest for which the other side has the one that would move
(`price_*` flags are left to the proof). In `parts` the universe starts on the first night
after the cutover with the success before it on record, so two events and one failure make the
window slide past an event that was posted late; the two operator decisions hold a prompt that
a night runs under, and a track and its withdrawal. For the checks, four days hold a gap of one
session, of two, and a last bar behind; one change between a run and a recheck is what the two
queries could disagree about. Five changes of cash are the fewest that hold a run of three
alternating gaps with a neighbour on each side.

### By hand

Larger or different instances that a run of a few minutes does not hold; all pass.

| module | settings | states |
| --- | --- | --- |
| `SharadarNight`, with `ListingWhole` (a listing minted late finds its first days) | 1 security, 2 versions, `MaxLag` 0, `Overlap` 0, `Lookback` 2, `Validity` {TRUE}, 4 days, 2 dates | |
| the same | `MaxLag` 1, `Overlap` 1 | 4,032,521 |
| `Identity` | as `identity` without `Few`; 2 tickers and no `Shuffles`, with `MaxOps` 2; the same with `MaxDay` 5, `Recent` 4 | 7,665,431; 3,376,185; 3,354,120 |
| `HistoryEdits` | 3 operations, no flags, a feed of two bars of the source and two of the other row | 284,976 |
| `Fundamentals` without `HistoryStands` | 4 events, 3 days; 3 events, 4 days | 2,338,822; 1,652,862 |
| `Fundamentals`, `Alone` TRUE, without `FirstReportHeld` | as `fundamentals` | 308,833 |
| `VendorLinks` | 1 operation, every comparison of the two securities and keys, the live key's ticker traded by `s2` or nobody (512 initial states) | 21,105,168 |

`ListingWhole` breaks, as it should, when the prune takes an applied delta at once or a
listing reads only the files of its own night.

Deadlock is not checked in `actions`, `factors_lost`, `fundamentals`, `history`,
`identity`, `links`, `parts` and `queue`. In these the calendar, the operator's or the
environment's edits are bounded, and a warehouse that has taken everything in, or a pure
judgement that has been made, has nothing left to do.

## Fairness

Two runs state fairness: `price_nightly` and `queue`. `PriceLoad!Fairness`: the timer
starts a load every night (`WF` of `NightlyFetch`), and each later step is strongly fair.
Any step may fail, and does so by an action of its own that is always possible: strong
fairness says only that a step tried again night after night does not fail every time.
The loop over the universe logs an exception of one security and retries it the next
night. No fairness is assumed of the vendor, the operator or Sharadar.
`DqFlags!Fairness` is the same for the nightly checks: each run ends one way or the
other, and a run that nothing collides with does not die every night.

`CatchesUp` and `StillTrueIsQueued` are of the form `[]<>(...)`. All changes of the
environment are bounded, so they say what holds once it is quiet. The other modules state
no liveness: what must happen in the end is said there of the state after a night that
completed (`CaughtUp`, `StaleIsKnown`, `AgreesWithFeed`, `TickerFindsCompany`,
`TickerFindsFed`).

## Proofs

`tlapm` proves every step; each list below starts from the assumptions stated with the
constants (`BoundsAssumption`, `SetsAssumption`, `BarAssumption`; `RankAssumption`,
`NothingAssumption`; `ConditionAssumption`; `GuardAssumption`; `ColumnAssumption`;
`DetectorsAssumption`; `BooksAssumption`; `NightAssumption`;
`IdentityAssumption`; `ConstantsAssumption`; `LinksAssumption`; `UniverseAssumption`;
`ActionsAssumption`; `EditsAssumption`) and no other, but for the
hypotheses named below.

* `PriceLoadProofs`. `TypeCorrect`: the types need `OutStorable`, that a bar judged
  writable is a bar. `OperatorRowsAreRecorded` and `ForeignRowsAreKept`, for any number
  of loaders: the conflict clause (`Upserted`) looks at the row as it is, not as the
  load read it, so the invariant needs nothing about local state beyond types, and
  `SavedIsVendors` (what an edit saved is a vendor's row).
  `QuarantinedDatesAreRefetched` for one loader without explicit windows: the
  invariant adds that the window in flight starts where the watermark says and ends at
  the last date (`HeldInv`), so that what `Commit` quarantines lies after every safe
  date. `FirstPrintsAreKept` for one loader and no operator: `GuardCurrent` says that a
  judged bar was judged against the row that is still there.
* `FmpProofs`, `BarGuards`. `KeptNeverRestates` discharges the assumption of `PriceLoad`.
  `RereadsAreQuiet` rests on `AsServed` (after a write the row is the bar served but
  for an odd-lot count). `OrdinaryMovesStored` for every restatement ratio below 1.35: a
  judgeable split moves the price by at least 1.5 either way and the tolerance takes
  10 % of it (`ScaleIsFar`, `FarIsBeyondRatio`).
* `FmpProofs`, `BarValidation`. `AcceptedBarsAlwaysFit` for every resolution of the column and
  every set of payloads: of a field's spellings the first storable one is read
  (`SourceStorable`), and it is judged by the value the column will hold, so that rounding can
  leave the range at neither end (`PriceFits`, `TakenPrices`); the cross-field checks see the
  rounded row. The invariant `Judgement` says that the row and the reason are those of the
  payload.
* `PriceLoadProofs`, `Detectors`. `RechecksAlwaysAgree`, for any securities, sessions and
  thresholds: one lemma per check relates the two queries (`GapRecheck` to
  `DividendRecheck`). With content are the gap, which the check finds among the sessions of the
  security's window and the recheck judges from one date, and the outlier, where the check
  pairs adjacent bars and the recheck looks for the last bar before a date. The invariant is
  the type invariant alone; what the warehouse loses, a dividend or a bar under its flag, is in
  the property (`Overlooked`).
* `PrecedenceProofs`, `StatementChecks`. Both theorems are about any books that obey the
  unique indexes, and books stay so (`BooksStayFiled`). `GapsFlaggedOnce`: the gaps of the
  cash check are tied one to the next (`Tied`, `FailingIsTied`), the places of the gaps along
  a run of cancelling neighbours go up by one (`RunGoesOn`, `PlacesAlternate`), and so of two
  neighbours one opens a pair and the other closes it (`OpenedGap`, `ClosedGap`), where the
  halves cancel (`PairsCancel`). `ChecksAreWritten` has a lemma per check: the rows a detector
  selects have one key each (`IdentityOnce` to `ChainsOnce`), and no two detectors write one
  check (`OneDetector`).
* `PrecedenceProofs`. `RanksNeverDrop` and `OperatorRowsAreKept` for any number of
  concurrent writers, which is why `rows_serial` checks one writer only;
  `TableIsAudited`, the refinement, for `Serial` writes: the invariant `ReadCurrent` says
  that what a session read is what is stored.
* `ByHandProofs`, `DqFlags`. One inductive invariant, `QueueTypeOK /\ OneOpenPerCondition /\
  LabelledIsClosed`. The merge is the case with content: the survivor's open
  conditions and the victim's that are repointed are disjoint because `RedundantFlags`
  are deleted (`MergedSlots`).
* `SharadarProofs`, `SharadarNight`. `TypeCorrect` rests on `LastByStamp`: a non-empty set of
  files has one fetched last, and of the versions of a bar one is stamped last, so what `ORDER
  BY ... LIMIT 1` and `merged_rows` choose exists. `UnappliedIsKept`: the invariant `NightInv`
  adds that the mark a night will leave is not behind the last one's (`MarkMovesOn`); the three
  ways the ledger changes are lemmas of their own (`FetchKeeps`, `FullKeeps`, `PruneKeeps`).
  `NothingPublishedIsLost` is `CaughtUp` under `MaxLag + FullGap <= Overlap`: the overlap of a
  delta (`DELTA_OVERLAP_DAYS`, for revisions stamped late) covers the vendor's lag and the days
  by which a full file fetched by hand may be newer than the last delta (`FullGap = 2` breaks
  it, see Known limits). `CaughtInv` adds to `NightInv`: the vendor's versions only move on and
  the deltas hold them in the order recorded (`Versions`); what was published since the last
  delta is stamped no more than `MaxLag` days before it (`Asked`), so that the next delta asks
  for it; each bar of a security that was backfilled is in a delta yet to be applied, or
  settled (`FedInv` with `Due`); a night in flight has read just those deltas (`Marks`). The
  merge is the step with content: of the deltas that hold a bar, the row stamped last is the
  newest version.
* `IdentityProofs`. `TypeInv` is `TypeOK` with `Bounded` (the days of the periods have a
  bound, so that a ticker has a last period), `Fresh` (no row has an id not given out) and
  `Dated` (who trades has a first day, a row with bars a first bar). Each way a set of
  periods changes is a lemma of its own (`Claimed`, `Closed`, `Retargeted`, `Reopened`).
  `OneHolderAlways`: with `Heeds`, that the open period and the listed row of a ticker are
  one is inductive with `TypeInv`. `HistoryAlwaysKept` has one lemma per action (`Kept`):
  the row whose bars an action could lose is the one it deletes. `TickersFindTheirCompanies`
  rests on `OneHolder` and on `Listing`: no two companies trade on a ticker (`Distinct`),
  the market stands still while a night runs, what an entry not yet read takes for an echo
  is hidden (`EchoesHidden`), and once the entry of its ticker is read a company has a
  listed row of its name there, or is hidden (`ReadCovered`); the sweep that follows can
  only hide it (`StampCovers`).
* `VendorLinksProofs`. `TypeInv` adds to `TypeOK` what a run and a review hold between
  read and write (`RunType`, `ReviewType`). `LinksStep` says in which ways a step changes
  the links and the rows; what concerns only these argues from it. `TableStaysLegal`: the keys
  and the check of the table are inductive. `MintedStayFed` rests on it: a feed that is
  closed is illegal, so what keeps a minted row fed is `ck_svx_feed_open`. For
  `RejectedStayOut` the invariant `RejectInv` adds that rejections name rows there are, and
  that what a run in flight would link against a rejection is already counted as crossed
  (`PlanCrossed`); an accept takes the rejection back (`AcceptUnrejects`).
  `HistoryStaysOnOneRow` rests on `ScanInv`: after a scan, every overlap is flagged, waived
  or came up later.
* `FundamentalsProofs`. `ChainedAlways`: per period, the versions' intervals of knowledge
  follow each other without gap or overlap and one is in force. The invariant is
  `TypeOK /\ Clock` with, for each period, `Good` rows: typed, dated no later than today,
  chained, with ends that agree. The plan of a load is taken apart into the decisions that
  make it (`NextDecides`, `AnswerStands`, `ReportsMove`, `NewVersionMoves`).
  `HistoryImplemented` is the refinement of `StatementHistory`: no load changes what was
  known on a day before it. `RereadsAreQuiet` needs no invariant of the files: what a plan
  leaves knows the rows it was made of (`WrittenKnows`), and a plan over rows that are
  known is empty (`PlannedKnows`), whatever split came between. `SplitsAreNoVersions` rests
  on `TermsInv`: filings of a period differ by day (`Distinct`), no file knows a split or a
  period that is not there (`Known`), a row that does not know a split is stamped again
  (`Restamping`), so that what a night reads knows every split (`LastKnows`), and the
  versions in force are in the terms of all splits unless a night missed them (`Counts`).
  `FirstReportsAreHeld` and `RestatementsAreHeld` assume `~Alone`, that SF1 stamps every row
  of a period it changes; without it the first of them is false (Known limits).
  `DeliveredInv` says that the rows of a period are stamped together (`Stamps`), a file that
  has a first report has the restated row (`Paired`), a period with versions has one in
  force (`Ended`), and what SF1 says of a period is stamped and so in the next delta, or in
  the deltas that wait, or held (`Delivered`); where a full file may take over, in it or in
  the deltas after it (`Covered`).

* `SharadarProofs`, `Universe`. `UniverseTypeCorrect` says more than types (`Known`, `Asked`): a
  link is a row's, a row without a first bar holds none, and the row that a merge was asked
  for has not lost its feed when the answer comes. `BarsStay`, which is `BarsKept`, rests on
  it. Every write of the warehouse but a merge and a descope `Carries`: rows keep their
  bars, none loses its feed. The relation composes (`CarriesOn`), so a run of the night,
  three folds over renames and keys of any number, carries as each of their steps does.
  That a fold ends where each step stays is `FoldsStay`: of the sets on which it would not,
  one is smallest; that a fold exists at all, and can be unfolded, is `FoldsExist`. Where a row
  is deleted it holds no bars (`Foldable`, `FoldedIntoCarries`); where it does hold bars, in
  a merge, the survivor has them first (`MergedIntoIs`) and keeps them through the
  relisting that follows (`MergedAcrossHolds`), though the plan may be old.
  `OneHolderStands`, which is `OneHolder`: the invariant `HoldInv` says that a ticker has one
  open period and a listed row holds that of its ticker (`Apart`). A rename keeps it because
  the row it would rob is the one the ticker is live on (`HolderIsActive`), and that one is
  folded first or the rename refused; a mint, because it claims only a ticker nobody
  listed is named by; a merge and a dedupe, because what goes takes its periods along
  (`GoneHolds`). A relist from an old plan writes what it planned: for it the invariant
  carries that the plan re-opens the period of the name it keeps (`PlanHolds`). A claim that
  meets a closed period of its own key opens nothing (`Claimable`), and from then on
  (`~db.opened`) a listed row may hold nothing: the invariant and the property say nothing
  of it, and there the property is false without that condition (`NamedOnce` under Known
  limits).
  `UniverseAssumption` says of the cutover that it is a typed warehouse in which a link is a
  row's, that obeys the two unique indexes, and whose listed rows hold their tickers unless
  a claim has met a closed period before.
* `FmpProofs`, `CorporateActions`. `StaleIsAlwaysKnown` and `PulledAgrees` are inductive with
  the types. A write of actions is one operator (`Applied`, key by key `Upserted`): what it
  changes it stamps with the newest run (`UpsertsFound`), what it reads it stores but for
  the keys of other parties (`PullAgrees`), and it empties no key (`UpsertsLose`), so that
  only the reconciliation deletes (`ReconcileLoses`), and there only a record the feed has
  on a nearby day (`MovedIs`). `NothingIsLost` follows from the types alone.
  `DeletedStaysOutWhenQuiet` is for `Quiet`, an operator who waits while a sweep is between
  its read and its write: what the sweep read as deleted is then what is deleted when it
  writes (`LiftedIsCurrent`). Without it the property is false, see Known limits.
* `ByHandProofs`, `HistoryEdits`. All five theorems rest on `Record`: the overrides in force
  are alike in no two (`Unique`, the table's index), their numbers are no newer than the last
  operation (`Numbered`), an edit is of one security (`OneHistory`), and a split's overrides
  are of one of four kinds and go to one row (`SplitShape`). Each operation is first
  reduced to what it does at each key and to the overrides it adds (`RedateLeaves`,
  `EditLeaves`, `SplitRows` and `SplitRecord`, `UndoRows` and `UndoRecord`), so that no proof
  opens a plan twice. `WhatWasRemovedStaysOut` is inductive with it; `WhatWasMovedReturns`
  is the refusal of an undo whose rows do not fit (`Lifted`). For `FlagsFollowTheirHistory`
  the invariant `FlagsInv` says that a flag without a stamp is at home, and that the
  overrides of a flag's stamp, while there are any, go where the flag is: the undo that
  lifts them finds it there. For `UndoGivesItAllBack` the invariant relates the tables as
  an operation found them (`before`) to the overrides it left: each row it took is in its
  override and each key it filled was empty (`EditFound`, `SplitFound`); and at every key
  that nothing else touched since, its rows stand, or what was there before
  (`EditStands`, `SplitStands`). `Remembered` says that what is remembered is in force whole:
  a split that took the bar of an edit along (`Entangled`) is not, neither undoes the other.

Only model-checked, and why:

* the liveness properties `CatchesUp` and `StillTrueIsQueued`: the prover has no ENABLED;
* `TickerFindsFed` and `RelistedIsFound` of `Universe`: each needs what the vendor can have told
  by a day, and what of it a window that slid past failed runs still shows. They also hold
  with 6 days, and with 3 market events;
* `ReturnOverExDate` of `Adjustments`, computed by recursion over data (no run lists it);
* `ListingWhole`, which no run lists (By hand).

## Findings

`factors_lost` (`ingest/adjustments.py`, `cli.py`). `adjust --changed` recomputes what
the newest actions run stamped. A night that stops between the commit of a changed
action and the recompute leaves the factors stale for good: the next run finds the row
as the vendor states it, does not stamp it, and nothing asks for that security again.

## Known limits of the code, stated as properties it does not have

The modules define these properties because a doc sentence suggests them. They fail, TLC
gives a counterexample in seconds with the settings named. Those that a run does list
hold there, under the settings of the run.

| property | settings | what happens |
| --- | --- | --- |
| `PriceLoad!HeldDatesRefetched` | `price_nightly` with explicit windows | an explicit window that starts after a quarantined date moves the watermark past it, though `daily_price.py:908-910` says "no permanent gap" |
| `PriceLoad!RevokedDateRefilled` | `price_nightly` with the operator, 2 days, 4 edits, no overlap | a revoked delete is not loaded again once the watermark is past it, though `repository.py:4376-4378` says the next load writes it |
| `PriceLoad!SpentDatesPassed` | `price_nightly`, 2 days | the comment at `daily_price.py:930` says a permanently bad bar cannot grow the window without bound. The branch that passes spent dates needs a window without any clean date; the overlap re-reads the last clean bar every night, so a security whose bars turn bad for good stays where it is, with one window and one set of flags larger every night |
| `PriceLoad!DeletedStaysOut` | `price_shared`, one loader | a delete committed after a load read the overrides is undone by that load |
| `PriceLoad!FirstPrintKept` | two loaders | two loads find no row; the second overwrites the first print unjudged |
| `Precedence!ReplacedRowsKept` | two sessions, `Serial` FALSE, one key | the lower-ranked vendor revises its row between the read and the write of a correction: the row recorded is not the row replaced |
| `Precedence!NewestRevertedFirst` | one key, three values | a correction is recognised by the values it wrote, so an older one can be reverted under a newer one that wrote the same row (`repository.py:3256`) |
| `DqFlags!OpenIsUndecided` | `queue` | reopening one row of a condition leaves the acceptance of a newer row of it: it is open, and the checks skip it (`repository.py:6668-6671`) |
| `DqFlags!AcceptedNotReflagged` | `queue` | a check that probed before an acceptance writes the condition again after it |
| `DqFlags!ClosesOnlyShown` | `queue`, two record keys | a flag written while the prompt waits is closed with the ones shown |
| `BarValidation!SubresolutionIsSmall` | `parts`, a price just under the maximum | it is refused under the name of a price too small |
| `BarValidation!StandsInForAbsent` | `parts`, an unreadable open of a NAV-priced security | the close stands in although the field is present |
| `SharadarNight!CaughtUp` | `night`, `FullGap = 2` | a full file forced more than the overlap after the last delta moves the start of the next delta past revisions that only the full file holds, and no night reads a full file |
| `SharadarNight!ReadOnce` | `night`, one security, 2 days | the nightly's mark is the last `success`, but a night that refused one bar ends `partial` (`sharadar_prices.py:674`). While any pending bar fails validation the mark stands still: every night reads all deltas since again, and the prune keeps them. The fundamentals ask for `last_completed_run` instead |
| `CorporateActions!DeletedStaysOut` | `actions`, `Quiet` FALSE | a key deleted between the sweep's read of the deleted keys and its write is written |
| `Identity!EveryForkReported` | `identity` | A to B conflicts, B to C moves the duplicate row, the retry of A to B applies and closes the flag: two live rows of one company and no flag (`symbol_changes.py:100`, docstring 31-33) |
| `Identity!SettledIsFound` | `identity` | two renames of a day, A to B and B to C, are sorted by the old ticker (`symbol_changes.py:88`). Where nobody is listed on B, because the universe step failed, the row of the first company goes on to C under the second's name, and from then on the first company's entry on B is an echo of it: no row, no bars, no flag |
| `Identity!ForksAreReported` | `identity` without `Few`, 5 days, 3 failures, no operator | a universe step goes on after a failed rename sweep and mints a second row. Before the conflict is met, the stale rename of another company moves that row away, and both renames apply: two rows of one company, nothing reported |
| `Identity!PastFinds` | `identity` without `Few`, 5 days, 5 events, 4 ids, 2 failures, no operator | a company takes over a ticker before the warehouse has listed its former holder: the row minted for it has an open start and the vendor's whole history, so that days of the former holder find the newcomer |
| `Identity!LiveStaysListed` | `identity` | a delisting that names a ticker a new company took before its bars are in stamps that company's row (`delisted.py:284-292`) |
| `Fundamentals!FirstReportHeld` | `fundamentals`, `Alone` TRUE, no failures | a 10-K/A alone in a later delta is taken for a vendor correction of the first report (`fundamentals.py:564-589`), though the docstring 870-879 and `doc/ingestion.md:394-397` keep the earliest filing |
| `VendorLinks!LooksAgain` | `links` | after an accept is rejected, another security wins the key from the same `valid_from`: the primary key refuses and every later run of the engine ends there, though `cli.py:5595` says the next run looks again. An accept asks `vendor_link_at`; the engine does not |
| `VendorLinks!KeyWasOne` | `links` | a rejected link is closed today and still answers for the past, where the next owner's link overlaps it |
| `VendorLinks!LinkedIsSettled` | `links` | a merge moves the victim's `duplicate_of_linked` flag to the linked survivor, which no run of the engine looks at |
| `VendorLinks!GuardIsEnough` | `links` | a reject after the scan, bars that arrive after it, or a master loaded while it reads: a dead issuer is minted onto history a row of FMP's holds |
| `HistoryEdits!EditedBarsStay` | `history` | a split takes the bar of a rescale or shift along; undoing the one leaves the record of the other without its bar |
| `HistoryEdits!BlockedCanBeFreed` | `history` | a row that blocks the undo of a split cannot be deleted: the delete the split left on that key is still active, and the index refuses a second |
| `HistoryEdits!RestoredGoesBack` | `history` | a vendor loads over a bar lent to the destination: the undo leaves it there, though `undo_history_split` says it is removed |
| `HistoryEdits!DeletedStaysOutThere` | `history` | a split moves a row onto a key the operator deleted on the destination |
| `Universe!PeriodsAreListed` | `parts` | a fed row that is held delisted is renamed all the same: an open period on the new ticker for a delisted security, though `_apply_renames` speaks of "a linked security still trading". A mint or rename onto that ticker then meets `ux_symbol_xref_open`, and the run rolls back every night until the event leaves the window |
| `Universe!NamedOnce` | the universe of `parts`, 8 days, 6 events, 1 decision, no failures | a company takes the ticker of another on the very day from which that one's ended period ran: the mint claims a period that is closed, and `upsert_symbol_xref` (`repository.py:284-287`) leaves it so. The row is listed and holds nothing. Once it is renamed away by an event posted late, `security relist` finds the ticker free, and two listed rows, one of each vendor, are named by it |
| `Universe!EventsArrive` | the universe of `parts`, 7 days, no failures | a relist is asked for a row that is held delisted and its company stops trading while the prompt waits. The nights pass its event over, the row being delisted already, until it has left their window; the confirmation then re-opens the row, and a dead company stays listed that no later run stamps |
| `Universe!RelistedIsFound` without `~Overtaken` | `parts` | the company was renamed or delisted while the prompt waited: the old plan is applied, though `apply_relist` says it refuses "when the security is no longer as planned" |

Smaller ones, met while modelling and stated by no property:

* `dq recheck` never closes four kinds of flags whose check would not write them any more
  (`Overlooked`): coverage of a security that has lost its bars; staleness of one whose last bar
  went back or is gone; staleness where no session has been dealt; a dividend without a prior
  close that was since deleted, re-dated or revoked (`recheck.py:122-129` asks only for a bar
  before it, though line 74 calls each query the negation of its check;
  `repository.py:3343-3364` takes the row and not the flag). Of a statement flag whose
  severity changed, the recheck closes the old one, and only the next run writes the new.
* `fafnir vendor link --symbols` records its run under the endpoint of a full run
  (`vendor_link.py:833`), so the next `--new` takes it for one and skips securities first
  seen between the last full run and it (`doc/ingestion.md:785`).
* `ck_svx_feed_open` refuses to close a link that feeds, though `close_vendor_link`'s
  docstring says closing ends its feed with it.
* The reconciliation of actions judges up to `as_of - settle_days`, the day from which the
  next sweep reads again: a dividend removed on that boundary is added once more.
* A late prior close leaves a dividend's factor as it was computed; `adjustment_failed`
  flags are never closed; two withdrawn dividends may both map to one re-dated one.
* A split listed the day after a version dated ahead of it was loaded leaves that version
  in the old terms; `ingest fundamentals --backfill --symbols` of a late link reads an old
  full file and no delta since (`doc/ingestion.md:409`).
* A Sharadar rename that conflicted and is retried after the company is back on its old
  ticker leaves the row on the wrong one (`TickerFindsFed` excepts `Returned`); descope
  dismisses a rename whose survivor goes on trading; a first run that fails for as long as
  the window loses the events before it.
* The undo of a split deletes a newer row that replaced the moved one on the destination;
  a rescale over such a key dies with a unique violation; shift and rescale read their plan
  before the prompt and write it after.
* A conflict whose retry ends `ignored` leaves its flag open; same-day chains and swaps of
  tickers become conflicts; a delisting may take a period a rename closed on that date.

## Not modelled

The SQL of the marts (one statement over the warehouse each; a model of them would be a
copy), the statistics of the `dorq` models with the recheck of their flags, the text of
messages, reports and the query tools, backups and the host scripts. `PROJECT.json`
lists every component with its status and every hazard with the property that covers it.

Within what is modelled: one security per `PriceLoad` (the load touches no other); one
price table per `SharadarNight`, with the tickers a delta used for a security, the
`--backfill` mode and a prune by hand left out; what changes while the prompts of
`HistoryEdits` wait; the changeover guard of the split-adjusted feed; the precedence of
actions between vendors, but for Sharadar's fill in `CorporateActions`; the second filing
on one day, the other keys of a security and moved statements in `Fundamentals`; per-flag
wording and severity.

## Plan

Done: the price loader and its judgements, precedence, the review queue and the checks that
fill it, the night over the file ledger, corporate actions, both identity regimes, statements,
links and history edits, each checked by a run; as theorems, type correctness of every module
with state, and the safety properties that "Only model-checked" does not list.

Next, in this order:

1. `Operations`: run log, retries of the nightly script, migrations and the sliding-window
   limiter; a statement that a step is applied once whatever is retried.
2. The Sharadar backfill beside the nightly (a full file newer than a pending delta, whose
   older version the nightly then writes), and the prune by hand.
3. Proofs about `Universe`: `TickerFindsFed`, from an invariant that follows what the vendor has
   told and the warehouse has not read.
4. One run composing the loaders of both vendors with the correction that runs between them.
