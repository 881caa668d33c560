----------------------------- MODULE BarGuards -----------------------------
(***************************************************************************)
(* How far a re-read may move a stored bar, and when a new bar is at the    *)
(* scale of a split to come: _fold, odd_lot_rounding, restatement_detail,   *)
(* split_scale_detail and the use _guard_bars makes of them                 *)
(* (src/src/fafnir/ingest/daily_price.py).  PriceLoad leaves these tests to *)
(* constants; here they are in exact integer arithmetic, for the bars one   *)
(* date is served load after load.                                          *)
(***************************************************************************)
EXTENDS Integers

CONSTANTS
  Bar,                \* bars served: [close, volume]
  RatioNum, RatioDen, \* restatement_max_ratio
  VolumeRatio,        \* restatement_max_volume_ratio
  MinVolume,          \* restatement_min_volume
  Closes, Medians,    \* the close before the date, the median volume before it
  Splits,             \* splits to come: [num, den]
  NoRow, NoBar

ASSUME GuardAssumption ==
  /\ Bar \subseteq [close : Nat \ {0}, volume : Nat]
  /\ \A a, b \in Bar : [close |-> a.close, volume |-> b.volume] \in Bar
  /\ RatioNum \in Nat /\ RatioDen \in Nat \ {0} /\ RatioDen < RatioNum
  /\ VolumeRatio \in Nat /\ 1 < VolumeRatio
  /\ MinVolume \in Nat
  /\ Closes \subseteq Nat \ {0} /\ Medians \subseteq Nat
  /\ Splits \subseteq [num : Nat \ {0}, den : Nat \ {0}]
  /\ NoRow \notin Bar /\ NoBar \notin Bar

VARIABLES
  prev, median, split, \* what the date is judged against
  held,                \* the stored row of the date
  served,              \* the bar the last load was served
  verdict              \* what the load did with it

market == <<prev, median, split>>
guarded == <<market, held, served, verdict>>

GuardTypeOK ==
  /\ prev \in Closes /\ median \in Medians /\ split \in Splits
  /\ held \in Bar \cup {NoRow}
  /\ served \in Bar \cup {NoBar}
  /\ verdict \in {"none", "write", "hold", "scaled"}

\* _fold(a, b) exceeds a ratio: one is more than n/d times the other; 0 is no ratio.
Fold(a, b, n, d) == a > 0 /\ b > 0 /\ (a * d > b * n \/ b * d > a * n)

CloseMoved(a, b)  == Fold(a.close, b.close, RatioNum, RatioDen)
VolumeMoved(a, b) == Fold(a.volume, b.volume, VolumeRatio, 1)

\* odd_lot_rounding.
OddLot(old, new) ==
  VolumeMoved(old, new) /\ old.volume <= MinVolume /\ new.volume <= MinVolume

\* Mutant of Restates: a round lot's rounding counts.
RestatesRoundLots(old, new) == CloseMoved(old, new) \/ VolumeMoved(old, new)

\* restatement_detail.
Restates(old, new) ==
  CloseMoved(old, new) \/ (VolumeMoved(old, new) /\ ~OddLot(old, new))

\* Mutant of Kept: the round lot is stored.
KeptAsServed(old, new) == new

\* The row _guard_bars writes over a stored one.
Kept(old, new) == IF OddLot(old, new) THEN [new EXCEPT !.volume = old.volume] ELSE new

Abs(x) == IF x < 0 THEN -x ELSE x

\* x is within n/d of y.
Within(x, y, n, d) == d * Abs(x - y) <= n * y

\* Mutant of Judgeable: splits of any size are judged.
JudgeableAny(s) == TRUE

\* SPLIT_SCALE_MIN_FACTOR: nearer 1:1 than 3:2 either way is not judged.
Judgeable(s) == 2 * s.den >= 3 * s.num \/ 2 * s.num >= 3 * s.den

\* split_scale_detail: the close is the last one times den/num, within 10%, and the
\* volume the median or the median times num/den, within 25%.
SplitScale(b, p, m, s) ==
  /\ Judgeable(s)
  /\ Within(b.close * s.num, p * s.den, 1, 10)
  /\ m > 0 /\ b.volume > 0
  /\ \/ Within(b.volume * s.den, m * s.num, 1, 4)
     \/ Within(b.volume, m, 1, 4)

GuardInit ==
  /\ prev \in Closes /\ median \in Medians /\ split \in Splits
  /\ held = NoRow /\ served = NoBar /\ verdict = "none"

\* A load of a date that has no row.
FirstRead(b) ==
  /\ held = NoRow
  /\ verdict' = IF SplitScale(b, prev, median, split) THEN "scaled" ELSE "write"
  /\ held' = IF verdict' = "write" THEN b ELSE NoRow
  /\ served' = b
  /\ UNCHANGED market

\* A nightly load or an explicit one of a date that has one.
Reread(b, explicit) ==
  /\ held # NoRow
  /\ verdict' = IF Restates(held, b) /\ ~explicit THEN "hold" ELSE "write"
  /\ held' = IF verdict' = "write" THEN Kept(held, b) ELSE held
  /\ served' = b
  /\ UNCHANGED market

GuardNext == \E b \in Bar : FirstRead(b) \/ \E explicit \in BOOLEAN : Reread(b, explicit)

GuardSpec == GuardInit /\ [][GuardNext]_guarded

-----------------------------------------------------------------------------
(* Properties *)

\* The two guards do not overlap: a new bar whose close is one the restatement guard
\* would accept next to the last close is never quarantined as split-scaled (for a
\* restatement_max_ratio below 1.35; the default is 1.25).
OrdinaryMovesAreStored ==
  verdict = "scaled" => Fold(served.close, prev, RatioNum, RatioDen)

\* A bar served again after it was written, by the overlap of the next nights or an
\* explicit re-fetch, is accepted and changes nothing, although the row may hold
\* another volume than the vendor serves (odd_lot_rounding).
RereadIsQuiet ==
  [][(verdict = "write" /\ served' = served) => (verdict' = "write" /\ held' = held)]_guarded

\* What one nightly load writes over a stored bar is within both ratios of it, the
\* exemption for round lots notwithstanding (RESTATEMENTS: "a nightly load never
\* overwrites a stored bar by more than" either ratio).
NightlyStaysInRatio ==
  [][Reread(served', FALSE) => /\ ~CloseMoved(held, held')
                               /\ ~VolumeMoved(held, held')]_guarded
=============================================================================
