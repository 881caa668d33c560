--------------------------- MODULE BarValidation ---------------------------
(***************************************************************************)
(* What a vendor's daily bar must be for core.daily_price to take it:       *)
(* _validate_bar and what it calls (src/src/fafnir/ingest/daily_price.py),  *)
(* against the table's CHECKs (src/sql/migrations/0005_daily_price.up.sql). *)
(*                                                                         *)
(* A number of the payload is an integer counting 1/Sub of the last decimal *)
(* the column keeps, so that values fall between two storable ones.  Each   *)
(* behaviour reads one payload.                                             *)
(***************************************************************************)
EXTENDS Integers, Sequences

CONSTANTS
  Sub,        \* payload units per unit of NUMERIC(20, 6)
  MoneyMax,   \* _MONEY_MAX, in units of the column
  VolumeMax,  \* _VOLUME_MAX
  Absent, Junk, \* a field that is not there, or not a finite number
  Payloads    \* bars: per field its spellings in the order they are preferred

\* A field's value is a number, or it is not there, or no number.
Value == Int \cup {Absent, Junk}

ASSUME ColumnAssumption ==
  /\ Sub \in Nat \ {0} /\ MoneyMax \in Nat \ {0} /\ VolumeMax \in Nat
  /\ Absent \notin Int /\ Junk \notin Int
  /\ Payloads \subseteq [open : Seq(Value), high : Seq(Value), low : Seq(Value),
                         close : Seq(Value), volume : Seq(Value)]

VARIABLES
  bar,      \* the payload
  nav,      \* the security is priced at a daily NAV
  row,      \* the row to store, while reason is "none"
  reason,   \* why the bar is quarantined; "unread" before it is judged
  collapse  \* whether price_scale_collapse is flagged

judged == <<bar, nav, row, reason, collapse>>

Fields == {"open", "high", "low", "close"}
NoPrices == [open |-> 0, high |-> 0, low |-> 0, close |-> 0, volume |-> 0]

\* ROUND_HALF_UP to the column's scale, of a positive value.
Quantized(v) == (2 * v + Sub) \div (2 * Sub)

\* Mutant of Storable: judged as the payload has it, not as the column will hold it.
StorableUnrounded(v) == v \in Int /\ v > 0 /\ v < MoneyMax * Sub

\* _as_money: the column holds the value as a positive price.
Storable(v) ==
  v \in Int /\ v > 0 /\ Quantized(v) > 0 /\ Quantized(v) < MoneyMax

\* _reject_reason.
RejectReason(v) ==
  CASE v \notin Int                     -> "missing"
    [] v \in Int /\ v <= 0              -> "non_positive"
    [] v \in Int /\ v >= MoneyMax * Sub -> "out_of_range"
    [] OTHER                            -> "subresolution"

Present(spellings) == SelectSeq(spellings, LAMBDA v : v # Absent)

\* _ohlc: some spelling carries a storable price; the first that does is read.
Priced(spellings) == \E i \in DOMAIN spellings : Storable(spellings[i])
Source(spellings) ==
  spellings[CHOOSE i \in DOMAIN spellings :
              /\ Storable(spellings[i])
              /\ \A j \in DOMAIN spellings : j < i => ~Storable(spellings[j])]
Price(spellings)  == Quantized(Source(spellings))
FieldReason(spellings) ==
  IF Present(spellings) = << >> THEN "missing"
  ELSE RejectReason(Head(Present(spellings)))

\* _as_volume of the first spelling present, truncated toward zero; 0 when absent.
RawVolume(b) == IF Present(b.volume) = << >> THEN 0 ELSE Head(Present(b.volume))
Truncated(v) == IF v >= 0 THEN v \div Sub ELSE -((-v) \div Sub)

NavStrike(b, isNav) ==
  isNav /\ RawVolume(b) \in Int /\ Truncated(RawVolume(b)) = 0

\* An absent open, high or low of a NAV-priced security stands in as the close.
StandsIn(b, isNav, f) ==
  isNav /\ f # "close" /\ ~Priced(b[f]) /\ FieldReason(b[f]) = "missing"

\* The fields read, those of them without a price, and the first in the order read.
Read(b, isNav) == IF NavStrike(b, isNav) THEN {"close"} ELSE Fields
Unpriced(b, isNav) ==
  {f \in Read(b, isNav) : ~Priced(b[f]) /\ ~StandsIn(b, isNav, f)}
Place == [close |-> 1, open |-> 2, high |-> 3, low |-> 4]
FirstRefused(fields) == CHOOSE f \in fields : \A g \in fields : Place[f] <= Place[g]

FieldPrice(b, isNav, f) ==
  IF NavStrike(b, isNav) \/ StandsIn(b, isNav, f) THEN Price(b.close) ELSE Price(b[f])

RowOf(b, isNav) ==
  [open   |-> FieldPrice(b, isNav, "open"),
   high   |-> FieldPrice(b, isNav, "high"),
   low    |-> FieldPrice(b, isNav, "low"),
   close  |-> FieldPrice(b, isNav, "close"),
   volume |-> Truncated(RawVolume(b))]

Crossed(r) ==
  \/ r.high < r.low \/ r.high < r.open \/ r.high < r.close
  \/ r.low > r.open \/ r.low > r.close

ReasonOf(b, isNav) ==
  IF Unpriced(b, isNav) # {} THEN FieldReason(b[FirstRefused(Unpriced(b, isNav))])
  ELSE IF RawVolume(b) \notin Int THEN "nonnumeric_volume"
  ELSE IF Crossed(RowOf(b, isNav)) THEN "cross_field"
  ELSE IF RowOf(b, isNav).volume < 0 THEN "negative_volume"
  ELSE IF RowOf(b, isNav).volume > VolumeMax THEN "volume_out_of_range"
  ELSE "none"

\* _scale_collapse_detail: the column flattened a range the source had.
Collapsed(b, isNav, r) ==
  /\ ~NavStrike(b, isNav)
  /\ \A f \in Fields : r[f] = r.close /\ Priced(b[f])
  /\ \E f, g \in Fields : Source(b[f]) # Source(b[g])

JudgeInit ==
  /\ bar \in Payloads /\ nav \in BOOLEAN
  /\ row = NoPrices /\ reason = "unread" /\ collapse = FALSE

Validate ==
  /\ reason = "unread"
  /\ reason' = ReasonOf(bar, nav)
  /\ row' = IF reason' = "none" THEN RowOf(bar, nav) ELSE NoPrices
  /\ collapse' = (reason' = "none" /\ Collapsed(bar, nav, row'))
  /\ UNCHANGED <<bar, nav>>

JudgeNext == Validate

JudgeSpec == JudgeInit /\ [][JudgeNext]_judged

-----------------------------------------------------------------------------
(* Properties *)

\* What the validator lets through the table takes: every price is positive and fits
\* its column, high and low bound the others, and the volume fits a BIGINT
\* (src/sql/migrations/0005_daily_price.up.sql, the CHECKs and column types).  A row
\* the table refused would take the whole batch of its symbol down with it.
AcceptedBarsFit ==
  reason = "none" =>
    /\ \A f \in Fields : row[f] \in 1..(MoneyMax - 1)
    /\ row.high >= row.low /\ row.high >= row.open /\ row.high >= row.close
    /\ row.low <= row.open /\ row.low <= row.close
    /\ row.volume \in 0..VolumeMax

\* A quarantine named "subresolution" is a positive price too small for the column
\* (_reject_reason).
SubresolutionIsSmall ==
  reason = "subresolution" =>
    \E f \in Fields : \E i \in DOMAIN bar[f] :
      bar[f][i] \in Int /\ bar[f][i] > 0 /\ Quantized(bar[f][i]) = 0

\* On a bar that traded, only an absent field is stood in for by the close
\* (_validate_bar: "Only an ABSENT field is stood in for").
StandsInForAbsent ==
  (reason = "none" /\ row.volume > 0) =>
    \A f \in Fields :
      \/ \E i \in DOMAIN bar[f] : Storable(bar[f][i])
      \/ \A i \in DOMAIN bar[f] : bar[f][i] = Absent
=============================================================================
