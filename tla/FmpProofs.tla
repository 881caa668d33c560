----------------------------- MODULE FmpProofs -----------------------------
(***************************************************************************)
(* What holds of the FMP path for every bar, ratio, security and calendar: *)
(* first the guards of the daily price loader (BarGuards) and the bars it   *)
(* takes (BarValidation), then the loader of corporate actions and the      *)
(* operator's edits of its rows (CorporateActions).                         *)
(***************************************************************************)
EXTENDS BarGuards, BarValidation, CorporateActions, FiniteSetTheorems,
        WellFoundedInduction, TLAPS

-----------------------------------------------------------------------------
(* Arithmetic *)

(* A greater factor never makes a product of naturals smaller. *)
LEMMA TimesMonotone ==
  ASSUME NEW x \in Nat, NEW n \in Nat, NEW d \in Nat, d <= n
  PROVE  x * d <= x * n
BY SMT

(* A positive factor cancels. *)
LEMMA TimesCancels ==
  ASSUME NEW x \in Int, NEW y \in Int, NEW n \in Nat \ {0}, n * x <= n * y
  PROVE  x <= y
BY SMT

(* No value is a ratio above 1 away from itself (_fold). *)
LEMMA FoldIrreflexive ==
  ASSUME NEW x \in Nat, NEW n \in Nat, NEW d \in Nat, d <= n
  PROVE  ~Fold(x, x, n, d)
BY TimesMonotone DEF Fold

(* A bar is a close and a volume. *)
LEMMA BarFields ==
  ASSUME NEW b \in Bar
  PROVE  b.close \in Nat /\ b.close # 0 /\ b.volume \in Nat
BY GuardAssumption

-----------------------------------------------------------------------------
(* The row written over a stored one *)

(* What is kept has the close served, and the volume served or, for a round lot,   *)
(* the volume stored.                                                              *)
LEMMA KeptFields ==
  ASSUME NEW a \in Bar, NEW b \in Bar
  PROVE  /\ Kept(a, b) \in Bar
         /\ Kept(a, b).close = b.close
         /\ OddLot(a, b) => Kept(a, b).volume = a.volume
         /\ ~OddLot(a, b) => Kept(a, b) = b
<1>1. [close |-> b.close, volume |-> a.volume] \in Bar
  BY GuardAssumption
<1>2. [b EXCEPT !.volume = a.volume] = [close |-> b.close, volume |-> a.volume]
  BY GuardAssumption
<1> QED BY <1>1, <1>2 DEF Kept

(* The exemption for round lots lets nothing through: a bar the restatement guard   *)
(* accepts next to a stored one is written as a bar within both ratios of it, which *)
(* is what PriceLoad assumes of the two tests (odd_lot_rounding, _guard_bars).      *)
THEOREM KeptNeverRestates ==
  ASSUME NEW a \in Bar, NEW b \in Bar, ~Restates(a, b)
  PROVE  /\ Kept(a, b) \in Bar
         /\ ~Restates(a, Kept(a, b))
         /\ ~CloseMoved(a, Kept(a, b)) /\ ~VolumeMoved(a, Kept(a, b))
<1>1. ~CloseMoved(a, Kept(a, b))
  BY KeptFields DEF Restates, CloseMoved
<1>2. ~VolumeMoved(a, Kept(a, b))
  <2>1. CASE OddLot(a, b)
    <3>1. ~Fold(a.volume, a.volume, VolumeRatio, 1)
      BY BarFields, FoldIrreflexive, GuardAssumption
    <3> QED BY <2>1, <3>1, KeptFields DEF VolumeMoved
  <2>2. CASE ~OddLot(a, b)
    BY <2>2, KeptFields DEF Restates
  <2> QED BY <2>1, <2>2
<1> QED BY <1>1, <1>2, KeptFields DEF Restates

-----------------------------------------------------------------------------
(* The invariant *)

(* A row that was just written is the bar served, but for a round lot's volume. *)
AsServed ==
  verdict = "write" =>
    /\ held \in Bar /\ served \in Bar
    /\ held.close = served.close
    /\ held.volume # served.volume => OddLot(held, served)

(* Every variable keeps its type. *)
LEMMA TypeInvariant == GuardSpec => []GuardTypeOK
<1>1. GuardInit => GuardTypeOK
  BY DEF GuardInit, GuardTypeOK
<1>2. GuardTypeOK /\ [GuardNext]_guarded => GuardTypeOK'
  <2> SUFFICES ASSUME GuardTypeOK, [GuardNext]_guarded PROVE GuardTypeOK'
    OBVIOUS
  <2> USE DEF GuardTypeOK, market
  <2>1. ASSUME NEW b \in Bar, FirstRead(b) PROVE GuardTypeOK'
    BY <2>1 DEF FirstRead
  <2>2. ASSUME NEW b \in Bar, NEW explicit \in BOOLEAN, Reread(b, explicit)
        PROVE GuardTypeOK'
    <3>1. held \in Bar /\ Kept(held, b) \in Bar
      BY <2>2, KeptFields DEF Reread
    <3> QED BY <2>2, <3>1 DEF Reread
  <2>3. CASE UNCHANGED guarded
    BY <2>3 DEF guarded
  <2> QED BY <2>1, <2>2, <2>3 DEF GuardNext
<1> QED BY <1>1, <1>2, PTL DEF GuardSpec

(* A written row is the bar served, but for a round lot's volume (_guard_bars). *)
LEMMA AsServedInvariant == GuardSpec => []AsServed
<1>1. GuardInit => AsServed
  BY DEF GuardInit, AsServed
<1>2. GuardTypeOK /\ AsServed /\ [GuardNext]_guarded => AsServed'
  <2> SUFFICES ASSUME GuardTypeOK, AsServed, [GuardNext]_guarded PROVE AsServed'
    OBVIOUS
  <2>1. ASSUME NEW b \in Bar, FirstRead(b) PROVE AsServed'
    BY <2>1 DEF FirstRead, AsServed
  <2>2. ASSUME NEW b \in Bar, NEW explicit \in BOOLEAN, Reread(b, explicit)
        PROVE AsServed'
    <3> SUFFICES ASSUME verdict' = "write" PROVE AsServed'
      BY DEF AsServed
    <3>1. held \in Bar /\ held' = Kept(held, b) /\ served' = b
      BY <2>2 DEF Reread, GuardTypeOK
    <3>2. Kept(held, b).volume # b.volume =>
            Kept(held, b).volume = held.volume /\ OddLot(held, b)
      BY <3>1, KeptFields
    <3>3. Kept(held, b).volume # b.volume => OddLot(Kept(held, b), b)
      BY <3>2 DEF OddLot, VolumeMoved
    <3> QED BY <3>1, <3>3, KeptFields DEF AsServed
  <2>3. CASE UNCHANGED guarded
    BY <2>3 DEF guarded, AsServed
  <2> QED BY <2>1, <2>2, <2>3 DEF GuardNext
<1> QED BY <1>1, <1>2, TypeInvariant, PTL DEF GuardSpec

-----------------------------------------------------------------------------
(* The overlap re-reads a bar *)

(* The bar just written is not a restatement of its row, and keeping it changes     *)
(* nothing.                                                                         *)
LEMMA ServedAgain ==
  ASSUME NEW a \in Bar, NEW b \in Bar, a.close = b.close,
         a.volume # b.volume => OddLot(a, b)
  PROVE  ~Restates(a, b) /\ Kept(a, b) = a
<1>1. ~CloseMoved(a, b)
  BY BarFields, FoldIrreflexive, GuardAssumption DEF CloseMoved
<1>2. ~OddLot(a, b) => a.volume = b.volume
  OBVIOUS
<1>3. a.volume = b.volume => ~VolumeMoved(a, b)
  BY BarFields, FoldIrreflexive, GuardAssumption DEF VolumeMoved
<1>4. a = [close |-> a.close, volume |-> a.volume]
      /\ b = [close |-> b.close, volume |-> b.volume]
  BY GuardAssumption
<1>5. Kept(a, b) = a
  <2>1. CASE OddLot(a, b)
    BY <2>1, <1>4 DEF Kept
  <2>2. CASE ~OddLot(a, b)
    BY <2>2, <1>2, <1>4 DEF Kept
  <2> QED BY <2>1, <2>2
<1> QED BY <1>1, <1>2, <1>3, <1>5 DEF Restates

(* Once written, a bar that is served again changes nothing, on every load (the    *)
(* overlap of overlap_days, odd_lot_rounding).                                     *)
THEOREM RereadsAreQuiet == GuardSpec => RereadIsQuiet
<1>1. GuardTypeOK /\ AsServed /\ [GuardNext]_guarded =>
        [(verdict = "write" /\ served' = served) =>
           (verdict' = "write" /\ held' = held)]_guarded
  <2> SUFFICES ASSUME GuardTypeOK, AsServed, GuardNext, verdict = "write", served' = served
               PROVE  verdict' = "write" /\ held' = held
    BY DEF guarded
  <2>1. held \in Bar /\ held # NoRow
    BY GuardAssumption DEF AsServed
  <2>2. PICK b \in Bar : \E explicit \in BOOLEAN : Reread(b, explicit)
    BY <2>1 DEF GuardNext, FirstRead
  <2>3. b = served
    BY <2>2 DEF Reread
  <2>4. ~Restates(held, b) /\ Kept(held, b) = held
    BY <2>1, <2>3, ServedAgain DEF AsServed
  <2> QED BY <2>2, <2>4 DEF Reread
<1> QED BY <1>1, TypeInvariant, AsServedInvariant, PTL DEF RereadIsQuiet, GuardSpec

(* One nightly load moves neither the close nor the volume of a stored bar by more  *)
(* than its ratio (RESTATEMENTS).                                                   *)
THEOREM NightlyLoadsStayInRatio == GuardSpec => NightlyStaysInRatio
<1>1. GuardTypeOK /\ [GuardNext]_guarded =>
        [Reread(served', FALSE) => /\ ~CloseMoved(held, held')
                                   /\ ~VolumeMoved(held, held')]_guarded
  <2> SUFFICES ASSUME GuardTypeOK, GuardNext, Reread(served', FALSE)
               PROVE  ~CloseMoved(held, held') /\ ~VolumeMoved(held, held')
    BY DEF guarded
  <2>1. held \in Bar /\ served' \in Bar
    BY DEF Reread, GuardTypeOK, GuardNext, FirstRead
  <2>2. CASE Restates(held, served')
    <3>1. held' = held
      BY <2>2 DEF Reread
    <3> QED BY <2>1, <3>1, BarFields, FoldIrreflexive, GuardAssumption
            DEF CloseMoved, VolumeMoved
  <2>3. CASE ~Restates(held, served')
    <3>1. held' = Kept(held, served')
      BY <2>3 DEF Reread
    <3> QED BY <2>1, <2>3, <3>1, KeptNeverRestates
  <2> QED BY <2>2, <2>3
<1> QED BY <1>1, TypeInvariant, PTL DEF NightlyStaysInRatio, GuardSpec

-----------------------------------------------------------------------------
(* The two guards do not overlap *)

(* A close within a tenth of the scale of a split of 3:2 or more, p the close       *)
(* before it, is at least 1.35 times p or at most 11/15 of it.                      *)
LEMMA ScaleIsFar ==
  ASSUME NEW c \in Nat \ {0}, NEW p \in Nat \ {0},
         NEW n \in Nat \ {0}, NEW d \in Nat \ {0},
         Within(c * n, p * d, 1, 10),
         2 * d >= 3 * n \/ 2 * n >= 3 * d
  PROVE  20 * c >= 27 * p \/ 15 * c <= 11 * p
<1>1. c * n \in Nat /\ p * d \in Nat /\ p * n \in Nat /\ c * d \in Nat
  BY SMT
<1>2. 10 * (c * n) >= 9 * (p * d) /\ 10 * (c * n) <= 11 * (p * d)
  BY <1>1 DEF Within, Abs
<1>3. CASE 2 * d >= 3 * n
  <2>1. p * (3 * n) <= p * (2 * d)
    BY <1>3, TimesMonotone
  <2>2. 3 * (p * n) <= 2 * (p * d)
    BY <2>1, SMT
  <2>3. 27 * (p * n) <= 20 * (c * n)
    BY <1>1, <1>2, <2>2
  <2>4. n * (27 * p) <= n * (20 * c)
    BY <2>3, SMT
  <2> QED BY <2>4, TimesCancels
<1>4. CASE 2 * n >= 3 * d
  <2>1. p * (3 * d) <= p * (2 * n)
    BY <1>4, TimesMonotone
  <2>2. 3 * (p * d) <= 2 * (p * n)
    BY <2>1, SMT
  <2>3. 15 * (c * n) <= 11 * (p * n)
    BY <1>1, <1>2, <2>2
  <2>4. n * (15 * c) <= n * (11 * p)
    BY <2>3, SMT
  <2> QED BY <2>4, TimesCancels
<1> QED BY <1>3, <1>4

(* A close that far from p is beyond every ratio below 1.35 from it.               *)
LEMMA FarIsBeyondRatio ==
  ASSUME NEW c \in Nat \ {0}, NEW p \in Nat \ {0},
         20 * c >= 27 * p \/ 15 * c <= 11 * p,
         20 * RatioNum < 27 * RatioDen
  PROVE  Fold(c, p, RatioNum, RatioDen)
<1> DEFINE N == RatioNum
           D == RatioDen
<1>1. N \in Nat /\ D \in Nat \ {0}
  BY GuardAssumption
<1> HIDE DEF N, D
<1>2. 20 * N < 27 * D
  BY DEF N, D
<1>3. CASE 20 * c >= 27 * p
  <2>1. p * (20 * N) < p * (27 * D)
    BY <1>1, <1>2, SMT
  <2>2. D * (27 * p) <= D * (20 * c)
    BY <1>1, <1>3, TimesMonotone
  <2>3. p * N < c * D
    BY <1>1, <2>1, <2>2, SMT
  <2> QED BY <2>3 DEF Fold, N, D
<1>4. CASE 15 * c <= 11 * p
  <2>1. c * (20 * N) < c * (27 * D)
    BY <1>1, <1>2, SMT
  <2>2. D * (15 * c) <= D * (11 * p)
    BY <1>1, <1>4, TimesMonotone
  <2>3. c * N < p * D
    <3>1. 20 * (c * N) < 27 * (c * D) /\ 15 * (c * D) <= 11 * (p * D)
      BY <1>1, <2>1, <2>2, SMT
    <3>2. c * N \in Nat /\ c * D \in Nat /\ p * D \in Nat
      BY <1>1, SMT
    <3> QED BY <3>1, <3>2
  <2> QED BY <2>3 DEF Fold, N, D
<1> QED BY <1>3, <1>4

(* A bar is quarantined as split-scaled only where the restatement guard, at any    *)
(* ratio below 1.35, would call its close another bar's (split_scale_detail).       *)
THEOREM OrdinaryMovesStored ==
  ASSUME 20 * RatioNum < 27 * RatioDen
  PROVE  GuardSpec => []OrdinaryMovesAreStored
<1>1. GuardInit => OrdinaryMovesAreStored
  BY DEF GuardInit, OrdinaryMovesAreStored
<1>2. GuardTypeOK /\ OrdinaryMovesAreStored /\ [GuardNext]_guarded => OrdinaryMovesAreStored'
  <2> SUFFICES ASSUME GuardTypeOK, OrdinaryMovesAreStored, [GuardNext]_guarded
               PROVE  OrdinaryMovesAreStored'
    OBVIOUS
  <2>1. ASSUME NEW b \in Bar, FirstRead(b) PROVE OrdinaryMovesAreStored'
    <3> SUFFICES ASSUME verdict' = "scaled"
                 PROVE  Fold(b.close, prev, RatioNum, RatioDen)
      BY <2>1 DEF FirstRead, OrdinaryMovesAreStored, market
    <3>1. SplitScale(b, prev, median, split)
      BY <2>1 DEF FirstRead
    <3>2. /\ b.close \in Nat \ {0} /\ prev \in Nat \ {0}
          /\ split.num \in Nat \ {0} /\ split.den \in Nat \ {0}
      BY GuardAssumption DEF GuardTypeOK
    <3>3. 20 * b.close >= 27 * prev \/ 15 * b.close <= 11 * prev
      BY <3>1, <3>2, ScaleIsFar DEF SplitScale, Judgeable
    <3> QED BY <3>2, <3>3, FarIsBeyondRatio
  <2>2. ASSUME NEW b \in Bar, NEW explicit \in BOOLEAN, Reread(b, explicit)
        PROVE OrdinaryMovesAreStored'
    BY <2>2 DEF Reread, OrdinaryMovesAreStored
  <2>3. CASE UNCHANGED guarded
    BY <2>3 DEF guarded, market, OrdinaryMovesAreStored
  <2> QED BY <2>1, <2>2, <2>3 DEF GuardNext
<1> QED BY <1>1, <1>2, TypeInvariant, PTL DEF GuardSpec

-----------------------------------------------------------------------------
(* What a bar must be *)

(* A set of naturals that is not empty has a least member. *)
LEMMA LeastMember ==
  ASSUME NEW T, T \subseteq Nat, T # {}
  PROVE  \E x \in T : \A y \in T : ~(y < x)
<1> DEFINE R == OpToRel(<, Nat)
<1>1. IsWellFoundedOn(R, Nat)
  BY NatLessThanWellFounded
<1> HIDE DEF R
<1>2. PICK x \in T : \A y \in T : <<y, x>> \notin R
  BY <1>1, WFMin
<1>3. ASSUME NEW y \in T PROVE ~(y < x)
  <2>1. y < x => <<y, x>> \in R
    BY DEF R, OpToRel
  <2> QED BY <1>2, <2>1
<1> QED BY <1>3

LEMMA PayloadFields ==
  ASSUME NEW b \in Payloads, NEW f \in Fields
  PROVE  b[f] \in Seq(Value) /\ b.close \in Seq(Value)
BY ColumnAssumption DEF Fields

(* The spelling read is one that carries a storable price (_ohlc). *)
LEMMA SourceStorable ==
  ASSUME NEW s \in Seq(Value), Priced(s)
  PROVE  Storable(Source(s))
<1> DEFINE T == {i \in DOMAIN s : Storable(s[i])}
<1>1. T \subseteq Nat /\ T # {}
  BY DEF Priced
<1>2. PICK i \in T : \A j \in T : ~(j < i)
  BY <1>1, LeastMember
<1>3. /\ i \in DOMAIN s /\ Storable(s[i])
      /\ \A j \in DOMAIN s : j < i => ~Storable(s[j])
  BY <1>2
<1> QED BY <1>3 DEF Source

(* A price read is positive and fits the column, rounding included. *)
LEMMA PriceFits ==
  ASSUME NEW s \in Seq(Value), Priced(s)
  PROVE  Price(s) \in 1..(MoneyMax - 1)
<1>1. Storable(Source(s))
  BY SourceStorable
<1>2. Quantized(Source(s)) \in Int
  BY <1>1, ColumnAssumption DEF Storable, Quantized
<1> QED BY <1>1, <1>2, ColumnAssumption DEF Storable, Price

(* A refusal names a reason. *)
LEMMA Reasoned == \A s : FieldReason(s) # "none"
BY DEF FieldReason, RejectReason

(* A bar that is taken has a close, and its other prices are read or are the close. *)
LEMMA TakenPrices ==
  ASSUME NEW b \in Payloads, NEW n \in BOOLEAN, ReasonOf(b, n) = "none", NEW f \in Fields
  PROVE  FieldPrice(b, n, f) \in 1..(MoneyMax - 1)
<1>1. Unpriced(b, n) = {}
  BY Reasoned DEF ReasonOf
<1>2. \A g \in Read(b, n) : Priced(b[g]) \/ StandsIn(b, n, g)
  BY <1>1 DEF Unpriced
<1>3. Priced(b.close)
  BY <1>2 DEF Read, StandsIn, Fields
<1>4. CASE NavStrike(b, n) \/ StandsIn(b, n, f)
  BY <1>3, <1>4, PayloadFields, PriceFits DEF FieldPrice
<1>5. CASE ~NavStrike(b, n) /\ ~StandsIn(b, n, f)
  BY <1>2, <1>5, PayloadFields, PriceFits DEF FieldPrice, Read
<1> QED BY <1>4, <1>5

(* What a judged payload left behind. *)
Judgement ==
  /\ bar \in Payloads /\ nav \in BOOLEAN
  /\ reason = "none" =>
       ReasonOf(bar, nav) = "none" /\ row = RowOf(bar, nav)

LEMMA JudgementAlways == JudgeSpec => []Judgement
<1>1. JudgeInit => Judgement
  BY DEF JudgeInit, Judgement
<1>2. Judgement /\ [JudgeNext]_judged => Judgement'
  <2> SUFFICES ASSUME Judgement, [JudgeNext]_judged PROVE Judgement'
    OBVIOUS
  <2>1. CASE Validate
    <3>1. /\ bar' = bar /\ nav' = nav /\ reason' = ReasonOf(bar, nav)
          /\ reason' = "none" => row' = RowOf(bar, nav)
      BY <2>1 DEF Validate
    <3> QED BY <3>1 DEF Judgement
  <2>2. CASE UNCHANGED judged
    BY <2>2 DEF Judgement, judged
  <2> QED BY <2>1, <2>2 DEF JudgeNext
<1> QED BY <1>1, <1>2, PTL DEF JudgeSpec

(* For every resolution of the column and every payload, a row the validator lets    *)
(* through meets every CHECK and type of core.daily_price (_validate_bar).           *)
THEOREM AcceptedBarsAlwaysFit == JudgeSpec => []AcceptedBarsFit
<1>1. Judgement => AcceptedBarsFit
  <2> SUFFICES ASSUME Judgement, reason = "none"
               PROVE  /\ \A f \in Fields : row[f] \in 1..(MoneyMax - 1)
                      /\ row.high >= row.low /\ row.high >= row.open
                      /\ row.high >= row.close
                      /\ row.low <= row.open /\ row.low <= row.close
                      /\ row.volume \in 0..VolumeMax
    BY DEF AcceptedBarsFit
  <2>1. /\ bar \in Payloads /\ nav \in BOOLEAN
        /\ ReasonOf(bar, nav) = "none" /\ row = RowOf(bar, nav)
    BY DEF Judgement
  <2>2. \A f \in Fields : row[f] = FieldPrice(bar, nav, f)
    BY <2>1 DEF RowOf, Fields
  <2>3. \A f \in Fields : row[f] \in 1..(MoneyMax - 1)
    BY <2>1, <2>2, TakenPrices
  <2>4. /\ RawVolume(bar) \in Int /\ ~Crossed(row)
        /\ ~(row.volume < 0) /\ ~(row.volume > VolumeMax)
    BY <2>1, Reasoned DEF ReasonOf
  <2>5. row.volume \in Int
    <3>1. row.volume = Truncated(RawVolume(bar))
      BY <2>1 DEF RowOf
    <3> QED BY <2>4, <3>1, ColumnAssumption DEF Truncated
  <2>6. /\ row.open \in Int /\ row.high \in Int /\ row.low \in Int /\ row.close \in Int
    BY <2>3, ColumnAssumption DEF Fields
  <2> QED BY <2>3, <2>4, <2>5, <2>6, ColumnAssumption DEF Crossed
<1> QED BY <1>1, JudgementAlways, PTL

-----------------------------------------------------------------------------
(* Rows and keys *)

LEMMA Assumed ==
  /\ None \notin Row /\ Bad \notin Values /\ None \notin Values /\ Bad # None
  /\ Overlap \in Nat /\ MaxRun \in Nat /\ MaxEdits \in Nat /\ MaxOps \in Nat
  /\ MaxDay \in Nat /\ MaxDay # 0
BY ActionsAssumption

LEMMA KeyFields ==
  ASSUME NEW k \in Key
  PROVE  k.sec \in Secs /\ k.type \in Types /\ k.day \in Days
BY DEF Key

LEMMA AtIs ==
  ASSUME NEW k \in Key, NEW d \in Days
  PROVE  At(k, d) \in Key /\ At(k, d).sec = k.sec /\ At(k, d).type = k.type /\ At(k, d).day = d
BY DEF At, Key

(* The key of a security, a type and a day is one. *)
LEMMA SameKey ==
  ASSUME NEW k \in Key, NEW n \in Key, n.sec = k.sec, n.type = k.type
  PROVE  n = At(k, n.day)
BY DEF At, Key

LEMMA RowIs ==
  ASSUME NEW r \in Row
  PROVE  r # None /\ r.src \in {"fmp", "sharadar", "operator"} /\ r.val \in Values /\ r.run \in 0..MaxRun
<1>1. r # None
  BY Assumed
<1> QED BY <1>1 DEF Row

LEMMA RowMade ==
  ASSUME NEW src \in {"fmp", "sharadar", "operator"}, NEW v \in Values, NEW r \in 0..MaxRun
  PROVE  [src |-> src, val |-> v, run |-> r] \in Row /\ [src |-> src, val |-> v, run |-> r] # None
<1>1. [src |-> src, val |-> v, run |-> r] \in Row
  BY DEF Row
<1> QED BY <1>1, Assumed

(* What an upsert leaves: the row as it was, or FMP's, stamped by the run. *)
LEMMA UpsertedIs ==
  ASSUME NEW rows \in [Key -> Row \cup {None}], NEW k \in Key, NEW v \in Values, NEW r \in 0..MaxRun
  PROVE  LET u == Upserted(rows, k, v, r)
         IN /\ u \in Row /\ u # None
            /\ u.src = "fmp" => u.val = v
            /\ u # rows[k] => u.run = r
            /\ rows[k] # None => u.src = rows[k].src \/ u.src = "fmp"
            /\ u.run = r \/ u = rows[k]
<1>1. [src |-> "fmp", val |-> v, run |-> r] \in Row
  BY RowMade
<1>2. CASE rows[k] # None /\ (rows[k].src # "fmp" \/ rows[k].val = v)
  <2>1. Upserted(rows, k, v, r) = rows[k] /\ rows[k] \in Row
    BY <1>2 DEF Upserted
  <2> QED BY <2>1, <1>2
<1>3. CASE ~(rows[k] # None /\ (rows[k].src # "fmp" \/ rows[k].val = v))
  <2>1. Upserted(rows, k, v, r) = [src |-> "fmp", val |-> v, run |-> r]
    BY <1>3 DEF Upserted
  <2> QED BY <2>1, <1>1, Assumed
<1> QED BY <1>2, <1>3

(* What a payload leaves: at a key it stores, an upsert; elsewhere what was there. *)
LEMMA AppliedIs ==
  ASSUME NEW rows \in [Key -> Row \cup {None}], NEW said \in [Key -> Says], NEW supp,
         NEW r \in 0..MaxRun
  PROVE  LET a == Applied(rows, said, supp, r)
         IN /\ a \in [Key -> Row \cup {None}]
            /\ \A k \in Key :
                 /\ ~Stores(said, supp, k) => a[k] = rows[k]
                 /\ Stores(said, supp, k) => a[k] # None /\ (a[k].src = "fmp" => a[k].val = said[k])
                 /\ rows[k] # None => a[k] # None
                 /\ a[k] # rows[k] => a[k].run = r
                 /\ (rows[k] # None /\ rows[k].run = r) => a[k].run = r
<1> DEFINE a == Applied(rows, said, supp, r)
<1>1. a = [k \in Key |-> IF Stores(said, supp, k) THEN Upserted(rows, k, said[k], r) ELSE rows[k]]
  BY DEF Applied
<1>2. ASSUME NEW k \in Key, Stores(said, supp, k)
      PROVE  LET u == Upserted(rows, k, said[k], r)
             IN /\ a[k] = u /\ u \in Row /\ u # None /\ (u.src = "fmp" => u.val = said[k])
                /\ (u # rows[k] => u.run = r) /\ (u.run = r \/ u = rows[k])
  <2>1. said[k] \in Values
    BY <1>2 DEF Stores
  <2> HIDE DEF a
  <2> QED BY <1>1, <1>2, <2>1, UpsertedIs
<1>3. ASSUME NEW k \in Key, ~Stores(said, supp, k) PROVE a[k] = rows[k]
  BY <1>1, <1>3
<1>4. a \in [Key -> Row \cup {None}]
  <2>1. \A k \in Key : a[k] \in Row \cup {None}
    BY <1>2, <1>3
  <2> QED BY <1>1, <2>1
<1> HIDE DEF a
<1>5. \A k \in Key :
        /\ ~Stores(said, supp, k) => a[k] = rows[k]
        /\ Stores(said, supp, k) => a[k] # None /\ (a[k].src = "fmp" => a[k].val = said[k])
        /\ rows[k] # None => a[k] # None
        /\ a[k] # rows[k] => a[k].run = r
        /\ (rows[k] # None /\ rows[k].run = r) => a[k].run = r
  BY <1>2, <1>3
<1> QED BY <1>4, <1>5 DEF a

LEMMA OfIs ==
  ASSUME NEW said \in [Key -> Says], NEW s
  PROVE  /\ Of(said, s) \in [Key -> Says]
         /\ \A k \in Key : k.sec = s => Of(said, s)[k] = said[k]
         /\ \A supp : \A k \in Key : k.sec # s => ~Stores(Of(said, s), supp, k)
         /\ \A supp : \A k \in Key : k.sec = s => (Stores(Of(said, s), supp, k) <=> Stores(said, supp, k))
BY Assumed DEF Of, Stores, Says

-----------------------------------------------------------------------------
(* Types *)

LEMMA ComputedIs ==
  ASSUME TypeOK, NEW S, NEW rows \in [Key -> Row \cup {None}]
  PROVE  /\ Computed(S, rows) \in [Key -> Values \cup {None}]
         /\ \A k \in Key : Computed(S, rows)[k] = IF k.sec \notin S THEN factors[k]
                                                   ELSE IF rows[k] = None THEN None ELSE rows[k].val
<1>1. factors \in [Key -> Values \cup {None}]
  BY DEF TypeOK
<1>2. \A k \in Key : rows[k] # None => rows[k].val \in Values
  BY RowIs
<1> QED BY <1>1, <1>2 DEF Computed

LEMMA RecomputeTyped ==
  ASSUME TypeOK, NEW S, NEW rows \in [Key -> Row \cup {None}], Recompute(S, rows)
  PROVE  factors' \in [Key -> Values \cup {None}] /\ failed' \subseteq Secs /\ missed' \subseteq Secs
<1>1. factors' \in [Key -> Values \cup {None}]
  BY ComputedIs DEF Recompute
<1> QED BY <1>1 DEF Recompute, TypeOK

LEMMA NothingIs == Nothing \in [keys : [Key -> Says], lifted : SUBSET Key]
BY DEF Nothing, Says

LEMMA DeletedIs == Deleted \subseteq Key
BY DEF Deleted

LEMMA TypeInit == Init => TypeOK
<1> SUFFICES ASSUME Init PROVE TypeOK
  OBVIOUS
<1>1. today \in Days /\ swept \in 0..MaxDay /\ lastRun \in 0..MaxRun /\ edits \in 0..MaxEdits /\ ops \in 0..MaxOps
  BY Assumed DEF Init, Days
<1>2. asked \in [keys : [Key -> Says], lifted : SUBSET Key]
  BY NothingIs DEF Init
<1>3. symFeed \in [Key -> Says] /\ calFeed \in [Key -> Says] /\ stored \in [Key -> Row \cup {None}]
      /\ over \in [Key -> SUBSET {"delete", "add"}] /\ factors \in [Key -> Values \cup {None}]
  BY DEF Init, Says
<1> QED BY <1>1, <1>2, <1>3 DEF Init, TypeOK

LEMMA FeedsTyped ==
  ASSUME TypeOK,
         \/ Tomorrow
         \/ \E k \in Key, v \in Says, where \in SUBSET {"symbol", "calendar"} : Publish(k, v, where)
         \/ \E k \in Key, d \in Days, v \in Values : Redeclare(k, d, v)
  PROVE  TypeOK'
<1>1. CASE Tomorrow
  <2>1. today' \in Days
    BY <1>1, Assumed DEF Tomorrow, TypeOK, Days
  <2> QED BY <1>1, <2>1 DEF Tomorrow, TypeOK, feeds, marks, night, hist
<1>2. ASSUME NEW k \in Key, NEW v \in Says, NEW where \in SUBSET {"symbol", "calendar"}, Publish(k, v, where)
      PROVE TypeOK'
  <2>1. edits' \in 0..MaxEdits
    BY <1>2, Assumed DEF Publish, TypeOK
  <2>2. symFeed' \in [Key -> Says] /\ calFeed' \in [Key -> Says]
    BY <1>2 DEF Publish, Published, TypeOK
  <2> QED BY <1>2, <2>1, <2>2 DEF Publish, TypeOK, marks, night
<1>3. ASSUME NEW k \in Key, NEW d \in Days, NEW v \in Values, Redeclare(k, d, v) PROVE TypeOK'
  <2>1. edits' \in 0..MaxEdits
    BY <1>3, Assumed DEF Redeclare, TypeOK
  <2>2. symFeed' \in [Key -> Says]
    BY <1>3 DEF Redeclare, TypeOK, Says
  <2> QED BY <1>3, <2>1, <2>2 DEF Redeclare, TypeOK, marks, night
<1> QED BY <1>1, <1>2, <1>3

LEMMA PulledTyped ==
  ASSUME TypeOK, NEW s \in Secs, NEW r \in 0..MaxRun
  PROVE  Applied(stored, Of(symFeed, s), Deleted, r) \in [Key -> Row \cup {None}]
<1>1. stored \in [Key -> Row \cup {None}] /\ Of(symFeed, s) \in [Key -> Says]
  BY OfIs DEF TypeOK
<1> QED BY <1>1, AppliedIs

LEMMA ReconciledTyped ==
  ASSUME TypeOK, NEW s \in Secs, Reconcile(s)
  PROVE  stored' \in [Key -> Row \cup {None}]
<1>1. Applied(stored, Of(symFeed, s), Deleted, lastRun) \in [Key -> Row \cup {None}]
  BY PulledTyped DEF TypeOK
<1>2. stored' = [k \in Key |-> IF k \in Redated(s) THEN None
                               ELSE Applied(stored, Of(symFeed, s), Deleted, lastRun)[k]]
  BY DEF Reconcile
<1> QED BY <1>1, <1>2

LEMMA SecurityTyped ==
  ASSUME TypeOK, NEW s \in Secs, SecurityStep(s)
  PROVE  TypeOK'
<1>1. CASE PullSecurity(s)
  <2>1. stored' \in [Key -> Row \cup {None}]
    BY <1>1, PulledTyped DEF PullSecurity, TypeOK
  <2> QED BY <1>1, <2>1 DEF PullSecurity, TypeOK, feeds
<1>2. CASE Reconcile(s)
  <2>1. stored' \in [Key -> Row \cup {None}]
    BY <1>2, ReconciledTyped
  <2>2. factors' \in [Key -> Values \cup {None}] /\ failed' \subseteq Secs /\ missed' \subseteq Secs
    <3>1. CASE Redated(s) # {}
      <4>1. Recompute({s}, stored')
        BY <1>2, <3>1 DEF Reconcile
      <4> QED BY <2>1, <4>1, RecomputeTyped
    <3>2. CASE Redated(s) = {}
      BY <1>2, <3>2 DEF Reconcile, TypeOK
    <3> QED BY <3>1, <3>2
  <2>3. agreed' \subseteq Secs /\ todo' \subseteq Secs
    BY <1>2 DEF Reconcile, TypeOK
  <2>4. UNCHANGED <<today, feeds, over, marks, step, mode, asked, ops>>
    BY <1>2 DEF Reconcile
  <2> QED BY <2>1, <2>2, <2>3, <2>4 DEF TypeOK, feeds, marks
<1>3. CASE AdjustOne(s)
  <2>1. stored \in [Key -> Row \cup {None}]
    BY DEF TypeOK
  <2>2. factors' \in [Key -> Values \cup {None}] /\ failed' \subseteq Secs /\ missed' \subseteq Secs
    BY <1>3, <2>1, RecomputeTyped DEF AdjustOne
  <2> QED BY <1>3, <2>2 DEF AdjustOne, TypeOK, feeds, marks
<1>4. CASE StepOver(s)
  BY <1>4 DEF StepOver, TypeOK, feeds, marks, hist
<1> QED BY <1>1, <1>2, <1>3, <1>4 DEF SecurityStep

LEMMA NewRunTyped ==
  ASSUME TypeOK, NewRun
  PROVE  lastRun' \in 0..MaxRun /\ missed' \subseteq Secs
BY Assumed DEF NewRun, TypeOK

LEMMA NightTyped ==
  ASSUME TypeOK, NightStep
  PROVE  TypeOK'
<1>1. ASSUME NEW m \in Modes, StartNight(m) PROVE TypeOK'
  <2>1. lastRun' \in 0..MaxRun /\ missed' \subseteq Secs
    BY <1>1, NewRunTyped DEF StartNight
  <2>2. Pending(m) \subseteq Secs
    BY ActionsAssumption DEF Pending
  <2> QED BY <1>1, <2>1, <2>2 DEF StartNight, TypeOK, feeds
<1>2. ASSUME NEW s \in Secs, SecurityStep(s) PROVE TypeOK'
  BY <1>2, SecurityTyped
<1>3. CASE EndLoad
  BY <1>3 DEF EndLoad, TypeOK, feeds, marks, hist
<1>4. CASE ReadSweep
  <2>1. asked' \in [keys : [Key -> Says], lifted : SUBSET Key]
    <3>1. asked' = [keys |-> [k \in Key |-> IF k.day \in WindowStart..today
                                            THEN calFeed[k] ELSE None], lifted |-> Deleted]
      BY <1>4 DEF ReadSweep
    <3>2. [k \in Key |-> IF k.day \in WindowStart..today THEN calFeed[k] ELSE None] \in [Key -> Says]
      BY DEF TypeOK, Says
    <3> QED BY <3>1, <3>2, DeletedIs
  <2> QED BY <1>4, <2>1 DEF ReadSweep, TypeOK, feeds, marks, hist
<1>5. CASE WriteSweep
  <2>1. stored' \in [Key -> Row \cup {None}]
    BY <1>5, AppliedIs DEF WriteSweep, TypeOK
  <2>2. asked' \in [keys : [Key -> Says], lifted : SUBSET Key]
    BY <1>5, NothingIs DEF WriteSweep
  <2>3. swept' \in 0..MaxDay
    BY <1>5, Assumed DEF WriteSweep, TypeOK, Days
  <2>4. todo' \subseteq Secs /\ agreed' \subseteq Secs
    BY <1>5 DEF WriteSweep, TypeOK
  <2>5. step' = "check" /\ UNCHANGED <<today, feeds, over, pulled, lastRun, factors, failed, mode, ops, missed>>
    BY <1>5 DEF WriteSweep
  <2> QED BY <2>1, <2>2, <2>3, <2>4, <2>5 DEF TypeOK, feeds
<1>6. CASE EndCheck
  BY <1>6 DEF EndCheck, TypeOK, feeds, marks, hist
<1>7. CASE StartAdjust
  <2>1. ChangedBy(lastRun) \subseteq Secs
    BY DEF ChangedBy
  <2> QED BY <1>7, <2>1 DEF StartAdjust, TypeOK, feeds, marks, hist
<1>8. CASE EndNight
  BY <1>8 DEF EndNight, TypeOK, feeds, marks, hist
<1>9. CASE Stop
  BY <1>9, NothingIs DEF Stop, TypeOK, feeds, marks, hist
<1> QED BY <1>1, <1>2, <1>3, <1>4, <1>5, <1>6, <1>7, <1>8, <1>9 DEF NightStep

LEMMA OperatorRow ==
  ASSUME NEW k, NEW v \in Values
  PROVE  Operator(k, v) \in Row /\ Operator(k, v) # None /\ Operator(k, v).src = "operator"
<1>1. Operator(k, v) \in Row
  BY RowMade, Assumed DEF Operator
<1> QED BY <1>1, Assumed DEF Operator

(* An edit of another party: what it writes is rows and overrides, and the factors of
   its security are recomputed with it. *)
EditOf(s) ==
  \/ \E k \in KeysOf(s) : DeletedByOperator(k)
  \/ \E k \in KeysOf(s), v \in Values : AddedByOperator(k, v)
  \/ \E k \in KeysOf(s), d \in Days : RedatedByOperator(k, d)
  \/ \E k \in KeysOf(s), op \in {"delete", "add"} : RevokedOverride(k, op)
  \/ \E k \in KeysOf(s), v \in Values : FilledFrom(k, v)

LEMMA EditIs ==
  ASSUME TypeOK, NEW s \in Secs, EditOf(s)
  PROVE  /\ stored' \in [Key -> Row \cup {None}]
         /\ over' \in [Key -> SUBSET {"delete", "add"}]
         /\ \A k \in Key : k.sec # s => stored'[k] = stored[k] /\ over'[k] = over[k]
<1> DEFINE P == /\ stored' \in [Key -> Row \cup {None}]
                /\ over' \in [Key -> SUBSET {"delete", "add"}]
                /\ \A k \in Key : k.sec # s => stored'[k] = stored[k] /\ over'[k] = over[k]
<1>t. stored \in [Key -> Row \cup {None}] /\ over \in [Key -> SUBSET {"delete", "add"}]
  BY DEF TypeOK
<1>1. ASSUME NEW k \in KeysOf(s), DeletedByOperator(k) PROVE P
  BY <1>t, <1>1 DEF DeletedByOperator, KeysOf
<1>2. ASSUME NEW k \in KeysOf(s), NEW v \in Values, AddedByOperator(k, v) PROVE P
  BY <1>t, <1>2, OperatorRow DEF AddedByOperator, KeysOf
<1>3. ASSUME NEW k \in KeysOf(s), NEW d \in Days, RedatedByOperator(k, d) PROVE P
  <2>1. At(k, d) \in Key /\ At(k, d).sec = s /\ k \in Key /\ k.sec = s
    BY AtIs DEF KeysOf
  <2>2. stored[k] \in Row /\ stored[k].val \in Values
    BY <1>t, <1>3, <2>1, RowIs DEF RedatedByOperator
  <2>3. Operator(At(k, d), stored[k].val) \in Row
    BY <2>2, OperatorRow
  <2> QED BY <1>t, <1>3, <2>1, <2>3 DEF RedatedByOperator
<1>4. ASSUME NEW k \in KeysOf(s), NEW op \in {"delete", "add"}, RevokedOverride(k, op) PROVE P
  BY <1>t, <1>4 DEF RevokedOverride, KeysOf
<1>5. ASSUME NEW k \in KeysOf(s), NEW v \in Values, FilledFrom(k, v) PROVE P
  <2>1. [src |-> "sharadar", val |-> v, run |-> 0] \in Row
    BY RowMade, Assumed
  <2> QED BY <1>t, <1>5, <2>1 DEF FilledFrom, KeysOf
<1> HIDE DEF P
<1>6. P
  BY <1>1, <1>2, <1>3, <1>4, <1>5 DEF EditOf
<1> QED BY <1>6 DEF P

(* Every action of another party is such an edit of one security, or a pull. *)
LEMMA ByHandIs ==
  ASSUME TypeOK, ByHand
  PROVE  \/ AdjustAll
         \/ \E s \in Secs : ExplicitPull(s)
         \/ \E s \in Secs : EditOf(s) /\ Edited(s) /\ ops' \in 0..MaxOps
<1> DEFINE Q == \E s \in Secs : EditOf(s) /\ Edited(s) /\ ops' \in 0..MaxOps
<1>t. ops \in 0..MaxOps
  BY DEF TypeOK
<1>o. ASSUME Operates PROVE ops' \in 0..MaxOps
  BY <1>t, <1>o, Assumed DEF Operates
<1>k. ASSUME NEW k \in Key PROVE k.sec \in Secs /\ k \in KeysOf(k.sec)
  BY KeyFields DEF KeysOf
<1>1. ASSUME NEW k \in Key, Delete(k) PROVE Q
  BY <1>1, <1>o, <1>k DEF Delete, EditOf
<1>2. ASSUME NEW k \in Key, NEW v \in Values, Add(k, v) PROVE Q
  BY <1>2, <1>o, <1>k DEF Add, EditOf
<1>3. ASSUME NEW k \in Key, NEW d \in Days, RedateAction(k, d) PROVE Q
  BY <1>3, <1>o, <1>k DEF RedateAction, EditOf
<1>4. ASSUME NEW k \in Key, NEW op \in {"delete", "add"}, Revoke(k, op) PROVE Q
  BY <1>4, <1>t, <1>k DEF Revoke, EditOf
<1>5. ASSUME NEW k \in Key, NEW v \in Values, SharadarFill(k, v) PROVE Q
  BY <1>5, <1>o, <1>k DEF SharadarFill, EditOf
<1> HIDE DEF Q
<1>6. AdjustAll \/ (\E s \in Secs : ExplicitPull(s)) \/ Q
  BY <1>1, <1>2, <1>3, <1>4, <1>5 DEF ByHand, IngestActions, IngestSharadarActions
<1> QED BY <1>6 DEF Q

LEMMA ByHandTyped ==
  ASSUME TypeOK, ByHand
  PROVE  TypeOK'
<1>t. stored \in [Key -> Row \cup {None}]
  BY DEF TypeOK
<1>1. CASE AdjustAll
  <2>1. factors' \in [Key -> Values \cup {None}] /\ failed' \subseteq Secs /\ missed' \subseteq Secs
    BY <1>t, <1>1, RecomputeTyped DEF AdjustAll
  <2> QED BY <1>1, <2>1 DEF AdjustAll, TypeOK, feeds, marks, night
<1>2. ASSUME NEW s \in Secs, ExplicitPull(s) PROVE TypeOK'
  <2>1. lastRun' \in 0..MaxRun /\ missed' \subseteq Secs
    BY <1>2, NewRunTyped DEF ExplicitPull
  <2>2. stored' \in [Key -> Row \cup {None}]
    BY <1>2, <2>1, PulledTyped DEF ExplicitPull
  <2>3. ops' \in 0..MaxOps
    BY <1>2, Assumed DEF ExplicitPull, TypeOK
  <2> QED BY <1>2, <2>1, <2>2, <2>3 DEF ExplicitPull, TypeOK, feeds, night
<1>3. ASSUME NEW s \in Secs, EditOf(s), Edited(s), ops' \in 0..MaxOps PROVE TypeOK'
  <2>1. stored' \in [Key -> Row \cup {None}] /\ over' \in [Key -> SUBSET {"delete", "add"}]
    BY <1>3, EditIs
  <2>2. factors' \in [Key -> Values \cup {None}] /\ failed' \subseteq Secs /\ missed' \subseteq Secs
    BY <1>3, <2>1, RecomputeTyped DEF Edited
  <2>3. agreed' \subseteq Secs /\ UNCHANGED <<today, feeds, marks, night>>
    BY <1>3 DEF Edited, TypeOK
  <2> QED BY <1>3, <2>1, <2>2, <2>3 DEF TypeOK, feeds, marks, night
<1> QED BY <1>1, <1>2, <1>3, ByHandIs

LEMMA TypeStep ==
  ASSUME TypeOK, [Next]_vars
  PROVE  TypeOK'
<1>1. CASE UNCHANGED vars
  BY <1>1 DEF vars, TypeOK, feeds, marks, night, hist
<1>2. CASE Next
  BY <1>2, FeedsTyped, NightTyped, ByHandTyped DEF Next
<1> QED BY <1>1, <1>2

(* Every state of the loader is well typed: tables over all keys, runs and marks in       *)
(* their bounds, and a night that is where its step says.                               *)
THEOREM ActionsTypeCorrect == Spec => []TypeOK
<1> QED BY TypeInit, TypeStep, PTL DEF Spec

-----------------------------------------------------------------------------
(* `adjust --changed` finds what is stale *)

ValueOf(r) == IF r = None THEN None ELSE r.val

LEMMA StaleMeans ==
  ASSUME NEW s \in Secs
  PROVE  Stale(s) <=> \E k \in KeysOf(s) : ValueOf(stored[k]) # factors[k]
BY DEF Stale, Computed, ValueOf, KeysOf

LEMMA StaleMeansNext ==
  ASSUME NEW s \in Secs
  PROVE  Stale(s)' <=> \E k \in KeysOf(s) : ValueOf(stored'[k]) # factors'[k]
BY DEF Stale, Computed, ValueOf, KeysOf

(* A security of which nothing is written is as stale as it was. *)
Untouched(s) == \A k \in KeysOf(s) : stored'[k] = stored[k] /\ factors'[k] = factors[k]

LEMMA StaleStays ==
  ASSUME NEW s \in Secs, Untouched(s)
  PROVE  Stale(s)' <=> Stale(s)
BY StaleMeans, StaleMeansNext DEF Untouched

(* One security's share of StaleIsKnown. *)
StaleFound(s) == Stale(s) => s \in ChangedBy(lastRun) \cup failed \cup missed

LEMMA FoundIs == (StaleIsKnown <=> \A s \in Secs : StaleFound(s)) /\ (StaleIsKnown' <=> \A s \in Secs : StaleFound(s)')
BY DEF StaleIsKnown, StaleFound

LEMMA FoundStays ==
  ASSUME NEW s \in Secs, Untouched(s), StaleFound(s), lastRun' = lastRun,
         s \in failed => s \in failed', s \in missed => s \in missed'
  PROVE  StaleFound(s)'
<1>1. s \in ChangedBy(lastRun) => s \in ChangedBy(lastRun)'
  BY DEF ChangedBy, Untouched
<1> QED BY <1>1, StaleStays DEF StaleFound

LEMMA FoundFrame ==
  ASSUME StaleIsKnown, UNCHANGED <<stored, factors, failed, lastRun, missed>>
  PROVE  StaleIsKnown'
<1>1. ASSUME NEW s \in Secs PROVE StaleFound(s)'
  <2>1. StaleFound(s) /\ Untouched(s)
    BY FoundIs DEF Untouched
  <2> QED BY <2>1, FoundStays
<1> QED BY <1>1, FoundIs

(* A new run gathers what is stale before it is the newest. *)
LEMMA FoundByNewRun ==
  ASSUME NewRun, UNCHANGED failed, NEW s \in Secs, Untouched(s)
  PROVE  StaleFound(s)'
BY StaleStays DEF NewRun, StaleFound

(* The rows of a payload are stamped where they change, and the stamp is the newest
   run's: the security is among what it changed. *)
LEMMA UpsertsFound ==
  ASSUME TypeOK, StaleIsKnown, NEW said \in [Key -> Says], NEW supp, lastRun' \in 0..MaxRun,
         stored' = Applied(stored, said, supp, lastRun'), UNCHANGED <<factors, failed>>,
         NewRun \/ UNCHANGED <<lastRun, missed>>
  PROVE  StaleIsKnown'
<1>t. stored \in [Key -> Row \cup {None}]
  BY DEF TypeOK
<1>1. ASSUME NEW s \in Secs PROVE StaleFound(s)'
  <2>1. CASE Untouched(s)
    <3>1. CASE NewRun
      BY <2>1, <3>1, FoundByNewRun
    <3>2. CASE UNCHANGED <<lastRun, missed>>
      <4>1. StaleFound(s)
        BY FoundIs
      <4> QED BY <2>1, <3>2, <4>1, FoundStays
    <3> QED BY <3>1, <3>2
  <2>2. CASE ~Untouched(s)
    <3>1. PICK k \in KeysOf(s) : stored'[k] # stored[k]
      BY <2>2 DEF Untouched
    <3>2. k \in Key
      BY DEF KeysOf
    <3>3. stored'[k].run = lastRun' /\ stored'[k] # None
      BY <1>t, <3>1, <3>2, AppliedIs
    <3>4. s \in ChangedBy(lastRun)'
      BY <3>1, <3>3 DEF ChangedBy
    <3> QED BY <3>4 DEF StaleFound
  <2> QED BY <2>1, <2>2
<1> QED BY <1>1, FoundIs

(* A recompute leaves its securities current, and the others as they were. *)
LEMMA RecomputeFound ==
  ASSUME TypeOK, StaleIsKnown, NEW S, Recompute(S, stored'), stored' \in [Key -> Row \cup {None}],
         lastRun' = lastRun, \A k \in Key : k.sec \notin S => stored'[k] = stored[k]
  PROVE  StaleIsKnown'
<1>1. \A k \in Key : factors'[k] = IF k.sec \notin S THEN factors[k] ELSE ValueOf(stored'[k])
  BY ComputedIs DEF Recompute, ValueOf
<1>2. ASSUME NEW s \in Secs PROVE StaleFound(s)'
  <2>1. CASE s \in S
    <3>1. \A k \in KeysOf(s) : factors'[k] = ValueOf(stored'[k])
      BY <1>1, <2>1 DEF KeysOf
    <3> QED BY <3>1, StaleMeansNext DEF StaleFound
  <2>2. CASE s \notin S
    <3>1. Untouched(s)
      BY <1>1, <2>2 DEF Untouched, KeysOf
    <3>2. StaleFound(s)
      BY FoundIs
    <3>3. (s \in failed => s \in failed') /\ (s \in missed => s \in missed')
      BY <2>2 DEF Recompute
    <3> QED BY <3>1, <3>2, <3>3, FoundStays
  <2> QED BY <2>1, <2>2
<1> QED BY <1>2, FoundIs

(* A reconciliation writes its own security alone. *)
LEMMA ReconcileWrites ==
  ASSUME TypeOK, NEW s \in Secs, Reconcile(s)
  PROVE  LET a == Applied(stored, Of(symFeed, s), Deleted, lastRun)
         IN /\ a \in [Key -> Row \cup {None}]
            /\ \A k \in Key : stored'[k] = IF k \in Redated(s) THEN None ELSE a[k]
            /\ \A k \in Key : k.sec # s => k \notin Redated(s) /\ a[k] = stored[k]
            /\ Redated(s) = {} => stored' = a
<1> DEFINE a == Applied(stored, Of(symFeed, s), Deleted, lastRun)
<1>t. stored \in [Key -> Row \cup {None}] /\ symFeed \in [Key -> Says] /\ lastRun \in 0..MaxRun
  BY DEF TypeOK
<1>1. a \in [Key -> Row \cup {None}]
  BY <1>t, PulledTyped
<1>2. stored' = [k \in Key |-> IF k \in Redated(s) THEN None ELSE a[k]]
  BY DEF Reconcile
<1>3. \A k \in Key : k.sec # s => k \notin Redated(s)
  BY DEF Redated, Gone, Own, KeysOf
<1>4. \A k \in Key : k.sec # s => a[k] = stored[k]
  BY <1>t, OfIs, AppliedIs
<1> HIDE DEF a
<1>5. Redated(s) = {} => stored' = a
  BY <1>1, <1>2
<1> QED BY <1>1, <1>2, <1>3, <1>4, <1>5 DEF a

LEMMA SecurityFound ==
  ASSUME TypeOK, StaleIsKnown, NEW s \in Secs, SecurityStep(s)
  PROVE  StaleIsKnown'
<1>t. /\ stored \in [Key -> Row \cup {None}] /\ Of(symFeed, s) \in [Key -> Says]
      /\ lastRun \in 0..MaxRun
  BY OfIs DEF TypeOK
<1>1. CASE PullSecurity(s)
  <2>1. stored' = Applied(stored, Of(symFeed, s), Deleted, lastRun) /\ UNCHANGED <<lastRun, factors, failed, missed>>
    BY <1>1 DEF PullSecurity
  <2> QED BY <1>t, <2>1, UpsertsFound
<1>2. CASE Reconcile(s)
  <2>1. lastRun' = lastRun
    BY <1>2 DEF Reconcile, marks
  <2>2. CASE Redated(s) = {}
    <3>1. stored' = Applied(stored, Of(symFeed, s), Deleted, lastRun)
      BY <1>2, <2>2, ReconcileWrites
    <3>2. UNCHANGED <<factors, failed, missed>>
      BY <1>2, <2>2 DEF Reconcile
    <3> QED BY <1>t, <2>1, <3>1, <3>2, UpsertsFound
  <2>3. CASE Redated(s) # {}
    <3>1. Recompute({s}, stored')
      BY <1>2, <2>3 DEF Reconcile
    <3>2. \A k \in Key : k.sec \notin {s} => stored'[k] = stored[k]
      BY <1>2, ReconcileWrites
    <3>3. stored' \in [Key -> Row \cup {None}]
      BY <1>2, ReconciledTyped
    <3> QED BY <2>1, <3>1, <3>2, <3>3, RecomputeFound
  <2> QED BY <2>2, <2>3
<1>3. CASE AdjustOne(s)
  <2>1. Recompute({s}, stored') /\ stored' = stored /\ lastRun' = lastRun
    BY <1>3 DEF AdjustOne, marks
  <2> QED BY <1>t, <2>1, RecomputeFound
<1>4. CASE StepOver(s)
  <2>1. UNCHANGED <<stored, factors, lastRun, missed>> /\ failed' = failed \cup {s}
    BY <1>4 DEF StepOver, marks, hist
  <2>2. ASSUME NEW t \in Secs PROVE StaleFound(t)'
    <3>1. Untouched(t) /\ StaleFound(t)
      BY <2>1, FoundIs DEF Untouched
    <3> QED BY <2>1, <3>1, FoundStays
  <2> QED BY <2>2, FoundIs
<1> QED BY <1>1, <1>2, <1>3, <1>4 DEF SecurityStep

LEMMA NightFound ==
  ASSUME TypeOK, StaleIsKnown, NightStep
  PROVE  StaleIsKnown'
<1>t. /\ stored \in [Key -> Row \cup {None}] /\ asked.keys \in [Key -> Says] /\ lastRun \in 0..MaxRun
  BY DEF TypeOK
<1>1. ASSUME NEW m \in Modes, StartNight(m) PROVE StaleIsKnown'
  <2>1. NewRun /\ UNCHANGED <<stored, factors, failed>>
    BY <1>1 DEF StartNight
  <2>2. ASSUME NEW s \in Secs PROVE StaleFound(s)'
    <3>1. Untouched(s)
      BY <2>1 DEF Untouched
    <3> QED BY <2>1, <3>1, FoundByNewRun
  <2> QED BY <2>2, FoundIs
<1>2. ASSUME NEW s \in Secs, SecurityStep(s) PROVE StaleIsKnown'
  BY <1>2, SecurityFound
<1>3. CASE WriteSweep
  <2>1. stored' = Applied(stored, asked.keys, asked.lifted, lastRun) /\ UNCHANGED <<lastRun, factors, failed, missed>>
    BY <1>3 DEF WriteSweep
  <2> QED BY <1>t, <2>1, UpsertsFound
<1>4. CASE EndLoad \/ ReadSweep \/ EndCheck \/ StartAdjust \/ EndNight \/ Stop
  <2>1. UNCHANGED <<stored, factors, failed, lastRun, missed>>
    BY <1>4 DEF EndLoad, ReadSweep, EndCheck, StartAdjust, EndNight, Stop, marks, hist
  <2> QED BY <2>1, FoundFrame
<1> QED BY <1>1, <1>2, <1>3, <1>4 DEF NightStep

LEMMA ByHandFound ==
  ASSUME TypeOK, StaleIsKnown, ByHand
  PROVE  StaleIsKnown'
<1>t. stored \in [Key -> Row \cup {None}] /\ symFeed \in [Key -> Says]
  BY DEF TypeOK
<1>1. CASE AdjustAll
  <2>1. /\ Recompute({s \in Secs : \E k \in KeysOf(s) : stored[k] # None}, stored')
        /\ stored' = stored /\ lastRun' = lastRun
    BY <1>1 DEF AdjustAll, marks
  <2> QED BY <1>t, <2>1, RecomputeFound
<1>2. ASSUME NEW s \in Secs, ExplicitPull(s) PROVE StaleIsKnown'
  <2>1. /\ NewRun /\ stored' = Applied(stored, Of(symFeed, s), Deleted, lastRun')
        /\ UNCHANGED <<factors, failed>>
    BY <1>2 DEF ExplicitPull
  <2>2. lastRun' \in 0..MaxRun /\ Of(symFeed, s) \in [Key -> Says]
    BY <1>t, <2>1, NewRunTyped, OfIs
  <2> QED BY <2>1, <2>2, UpsertsFound
<1>3. ASSUME NEW s \in Secs, EditOf(s), Edited(s), ops' \in 0..MaxOps PROVE StaleIsKnown'
  <2>1. stored' \in [Key -> Row \cup {None}] /\ \A k \in Key : k.sec \notin {s} => stored'[k] = stored[k]
    BY <1>3, EditIs
  <2>2. Recompute({s}, stored') /\ lastRun' = lastRun
    BY <1>3 DEF Edited, marks
  <2> QED BY <2>1, <2>2, RecomputeFound
<1> QED BY <1>1, <1>2, <1>3, ByHandIs

LEMMA FoundStep ==
  ASSUME TypeOK, StaleIsKnown, [Next]_vars
  PROVE  StaleIsKnown'
<1>1. CASE \/ UNCHANGED vars
           \/ Tomorrow
           \/ \E k \in Key, v \in Says, where \in SUBSET {"symbol", "calendar"} : Publish(k, v, where)
           \/ \E k \in Key, d \in Days, v \in Values : Redeclare(k, d, v)
  <2>1. UNCHANGED <<stored, factors, failed, lastRun, missed>>
    BY <1>1 DEF vars, Tomorrow, Publish, Redeclare, marks, hist
  <2> QED BY <2>1, FoundFrame
<1>2. CASE NightStep
  BY <1>2, NightFound
<1>3. CASE ByHand
  BY <1>3, ByHandFound
<1> QED BY <1>1, <1>2, <1>3 DEF Next

LEMMA FoundInit == Init => StaleIsKnown
<1> SUFFICES ASSUME Init, NEW s \in Secs PROVE ~Stale(s)
  BY DEF StaleIsKnown
<1> QED BY StaleMeans DEF Init, KeysOf, ValueOf

(* Whoever changed the actions of a security left `adjust --changed` a way to find it      *)
(* (StaleIsKnown), for any calendar, overlap, buckets and modes: it is kept by every step *)
(* by itself, since what a step leaves stale it stamps, flags or inherits.               *)
THEOREM StaleIsAlwaysKnown == Spec => []StaleIsKnown
<1>1. Init => TypeOK /\ StaleIsKnown
  BY TypeInit, FoundInit
<1>2. TypeOK /\ StaleIsKnown /\ [Next]_vars => (TypeOK /\ StaleIsKnown)'
  BY TypeStep, FoundStep
<1> QED BY <1>1, <1>2, PTL DEF Spec

-----------------------------------------------------------------------------
(* What was pulled agrees with its feed *)

(* One key's share of AgreesWithFeed, on the rows given. *)
Matches(rows, k) == rows[k] # None /\ (rows[k].src = "fmp" => rows[k].val = symFeed[k])

Matched(s) == \A k \in OnFeed(s) : Matches(stored, k)

LEMMA AgreesIs == (AgreesWithFeed <=> \A s \in agreed : Matched(s)) /\ (AgreesWithFeed' <=> \A s \in agreed' : Matched(s)')
BY DEF AgreesWithFeed, Matched, Matches

(* The same records, deletions and rows of a security: it matches as it did. *)
LEMMA MatchedStays ==
  ASSUME NEW s, Matched(s), today' = today,
         \A k \in KeysOf(s) : stored'[k] = stored[k] /\ over'[k] = over[k] /\ symFeed'[k] = symFeed[k]
  PROVE  Matched(s)'
<1>1. ASSUME NEW k \in KeysOf(s), k \in OnFeed(s)' PROVE k \in OnFeed(s)
  BY <1>1 DEF OnFeed, Stores, Deleted, KeysOf
<1>2. ASSUME NEW k \in OnFeed(s)' PROVE Matches(stored, k)'
  <2>1. k \in KeysOf(s)
    BY DEF OnFeed, KeysOf
  <2>2. Matches(stored, k)
    BY <1>1, <2>1 DEF Matched
  <2> QED BY <2>1, <2>2 DEF Matches
<1> QED BY <1>2 DEF Matched

LEMMA AgreesFrame ==
  ASSUME AgreesWithFeed, today' = today, agreed' \subseteq agreed,
         \A s \in agreed' : \A k \in KeysOf(s) :
            stored'[k] = stored[k] /\ over'[k] = over[k] /\ symFeed'[k] = symFeed[k]
  PROVE  AgreesWithFeed'
<1>1. ASSUME NEW s \in agreed' PROVE Matched(s)'
  <2>1. Matched(s)
    BY AgreesIs
  <2> QED BY <2>1, MatchedStays
<1> QED BY <1>1, AgreesIs

(* A pull of one security, its own moved rows withdrawn: nothing its feed still
   carries is withdrawn, and the other securities are as they were. *)
LEMMA PullAgrees ==
  ASSUME TypeOK, AgreesWithFeed, NEW s \in Secs, NEW out, NEW r \in 0..MaxRun,
         out \cap OnFeed(s) = {}, agreed' = agreed \cup {s}, UNCHANGED <<today, over, symFeed>>,
         \A k \in Key : (k.sec # s => k \notin out)
                        /\ stored'[k] = IF k \in out THEN None
                                         ELSE Applied(stored, Of(symFeed, s), Deleted, r)[k]
  PROVE  AgreesWithFeed'
<1>t. /\ stored \in [Key -> Row \cup {None}] /\ symFeed \in [Key -> Says]
      /\ Of(symFeed, s) \in [Key -> Says]
  BY OfIs DEF TypeOK
<1> DEFINE a == Applied(stored, Of(symFeed, s), Deleted, r)
<1>1. \A k \in Key : k.sec # s => stored'[k] = stored[k]
  <2>1. \A k \in Key : k.sec # s => a[k] = stored[k]
    BY <1>t, OfIs, AppliedIs
  <2> QED BY <2>1
<1>2. \A k \in OnFeed(s) : k \in Key /\ k.sec = s /\ Stores(Of(symFeed, s), Deleted, k)
  BY <1>t, OfIs DEF OnFeed, KeysOf
<1>3. OnFeed(s)' = OnFeed(s)
  BY DEF OnFeed, Stores, Deleted
<1>4. Matched(s)'
  <2>1. ASSUME NEW k \in OnFeed(s) PROVE Matches(stored, k)'
    <3>1. stored'[k] = a[k]
      BY <1>2
    <3>2. a[k] # None /\ (a[k].src = "fmp" => a[k].val = Of(symFeed, s)[k])
      BY <1>t, <1>2, AppliedIs
    <3>3. Of(symFeed, s)[k] = symFeed[k]
      BY <1>t, <1>2, OfIs
    <3> HIDE DEF a
    <3> QED BY <3>1, <3>2, <3>3 DEF Matches
  <2> QED BY <1>3, <2>1 DEF Matched
<1>5. ASSUME NEW t \in agreed', t # s PROVE Matched(t)'
  <2>1. Matched(t)
    BY <1>5, AgreesIs
  <2>2. \A k \in KeysOf(t) : stored'[k] = stored[k]
    BY <1>1, <1>5 DEF KeysOf
  <2> QED BY <2>1, <2>2, MatchedStays
<1> QED BY <1>4, <1>5, AgreesIs

LEMMA PlainPullAgrees ==
  ASSUME TypeOK, AgreesWithFeed, NEW s \in Secs, NEW r \in 0..MaxRun,
         agreed' = agreed \cup {s}, UNCHANGED <<today, over, symFeed>>,
         stored' = Applied(stored, Of(symFeed, s), Deleted, r)
  PROVE  AgreesWithFeed'
<1>1. {} \cap OnFeed(s) = {}
  OBVIOUS
<1>2. \A k \in Key : (k.sec # s => k \notin {})
                      /\ stored'[k] = IF k \in {} THEN None
                                       ELSE Applied(stored, Of(symFeed, s), Deleted, r)[k]
  OBVIOUS
<1> QED BY <1>1, <1>2, PullAgrees

LEMMA SecurityAgrees ==
  ASSUME TypeOK, AgreesWithFeed, NEW s \in Secs, SecurityStep(s)
  PROVE  AgreesWithFeed'
<1>r. lastRun \in 0..MaxRun
  BY DEF TypeOK
<1>1. CASE PullSecurity(s)
  <2>1. /\ stored' = Applied(stored, Of(symFeed, s), Deleted, lastRun)
        /\ agreed' = agreed \cup {s} /\ UNCHANGED <<today, over, symFeed>>
    BY <1>1 DEF PullSecurity, feeds
  <2> QED BY <1>r, <2>1, PlainPullAgrees
<1>2. CASE Reconcile(s)
  <2>1. agreed' = agreed \cup {s} /\ UNCHANGED <<today, over, symFeed>>
    BY <1>2 DEF Reconcile, feeds
  <2>2. Redated(s) \cap OnFeed(s) = {}
    BY DEF Redated, Gone
  <2>3. \A k \in Key : (k.sec # s => k \notin Redated(s))
                        /\ stored'[k] = IF k \in Redated(s) THEN None
                                         ELSE Applied(stored, Of(symFeed, s), Deleted, lastRun)[k]
    BY <1>2, ReconcileWrites
  <2> QED BY <1>r, <2>1, <2>2, <2>3, PullAgrees
<1>3. CASE AdjustOne(s) \/ StepOver(s)
  <2>1. UNCHANGED <<today, symFeed, stored, over, agreed>>
    BY <1>3 DEF AdjustOne, StepOver, feeds, hist
  <2> QED BY <2>1, AgreesFrame
<1> QED BY <1>1, <1>2, <1>3 DEF SecurityStep

LEMMA NightAgrees ==
  ASSUME TypeOK, AgreesWithFeed, NightStep
  PROVE  AgreesWithFeed'
<1>1. CASE \/ \E m \in Modes : StartNight(m)
           \/ EndLoad \/ ReadSweep \/ EndCheck \/ StartAdjust \/ EndNight \/ Stop
  <2>1. UNCHANGED <<today, symFeed, stored, over, agreed>>
    BY <1>1 DEF StartNight, EndLoad, ReadSweep, EndCheck, StartAdjust, EndNight, Stop, feeds, hist
  <2> QED BY <2>1, AgreesFrame
<1>2. ASSUME NEW s \in Secs, SecurityStep(s) PROVE AgreesWithFeed'
  BY <1>2, SecurityAgrees
<1>3. CASE WriteSweep
  <2>1. agreed' = agreed \ Touched(stored') /\ UNCHANGED <<today, over, symFeed>>
    BY <1>3 DEF WriteSweep, feeds
  <2>2. \A s \in agreed' : \A k \in KeysOf(s) : stored'[k] = stored[k]
    BY <2>1 DEF Touched, TypeOK
  <2> QED BY <2>1, <2>2, AgreesFrame
<1> QED BY <1>1, <1>2, <1>3 DEF NightStep

LEMMA ByHandAgrees ==
  ASSUME TypeOK, AgreesWithFeed, ByHand
  PROVE  AgreesWithFeed'
<1>1. CASE AdjustAll
  <2>1. UNCHANGED <<today, symFeed, stored, over, agreed>>
    BY <1>1 DEF AdjustAll, feeds
  <2> QED BY <2>1, AgreesFrame
<1>2. ASSUME NEW s \in Secs, ExplicitPull(s) PROVE AgreesWithFeed'
  <2>1. /\ stored' = Applied(stored, Of(symFeed, s), Deleted, lastRun')
        /\ agreed' = agreed \cup {s} /\ UNCHANGED <<today, over, symFeed>> /\ NewRun
    BY <1>2 DEF ExplicitPull, feeds
  <2>2. lastRun' \in 0..MaxRun
    BY <2>1, NewRunTyped
  <2> QED BY <2>1, <2>2, PlainPullAgrees
<1>3. ASSUME NEW s \in Secs, EditOf(s), Edited(s), ops' \in 0..MaxOps PROVE AgreesWithFeed'
  <2>1. agreed' = agreed \ {s} /\ UNCHANGED <<today, symFeed>>
    BY <1>3 DEF Edited, feeds
  <2>2. \A k \in Key : k.sec # s => stored'[k] = stored[k] /\ over'[k] = over[k]
    BY <1>3, EditIs
  <2>3. \A t \in agreed' : \A k \in KeysOf(t) : stored'[k] = stored[k] /\ over'[k] = over[k]
    BY <2>1, <2>2 DEF KeysOf
  <2> QED BY <2>1, <2>3, AgreesFrame
<1> QED BY <1>1, <1>2, <1>3, ByHandIs

LEMMA AgreesStep ==
  ASSUME TypeOK, AgreesWithFeed, [Next]_vars
  PROVE  AgreesWithFeed'
<1>1. CASE UNCHANGED vars
  <2>1. UNCHANGED <<today, symFeed, stored, over, agreed>>
    BY <1>1 DEF vars, feeds, hist
  <2> QED BY <2>1, AgreesFrame
<1>2. CASE Tomorrow
  BY <1>2 DEF Tomorrow, AgreesWithFeed
<1>3. ASSUME NEW k \in Key, NEW v \in Says, NEW where \in SUBSET {"symbol", "calendar"}, Publish(k, v, where)
      PROVE AgreesWithFeed'
  <2>1. agreed' = agreed \ {k.sec} /\ UNCHANGED <<today, stored, over>>
    BY <1>3 DEF Publish
  <2>2. \A n \in Key : n # k => symFeed'[n] = symFeed[n]
    BY <1>3 DEF Publish, Published, TypeOK
  <2>3. \A t \in agreed' : \A n \in KeysOf(t) : symFeed'[n] = symFeed[n]
    BY <2>1, <2>2 DEF KeysOf
  <2> QED BY <2>1, <2>3, AgreesFrame
<1>4. ASSUME NEW k \in Key, NEW d \in Days, NEW v \in Values, Redeclare(k, d, v) PROVE AgreesWithFeed'
  <2>1. agreed' = agreed \ {k.sec} /\ UNCHANGED <<today, stored, over>>
    BY <1>4 DEF Redeclare
  <2>2. \A n \in Key : n # k /\ n # At(k, d) => symFeed'[n] = symFeed[n]
    BY <1>4 DEF Redeclare, TypeOK
  <2>3. At(k, d).sec = k.sec
    BY AtIs
  <2>4. \A t \in agreed' : \A n \in KeysOf(t) : symFeed'[n] = symFeed[n]
    BY <2>1, <2>2, <2>3 DEF KeysOf
  <2> QED BY <2>1, <2>4, AgreesFrame
<1>5. CASE NightStep
  BY <1>5, NightAgrees
<1>6. CASE ByHand
  BY <1>6, ByHandAgrees
<1> QED BY <1>1, <1>2, <1>3, <1>4, <1>5, <1>6 DEF Next

(* A security once pulled or reconciled has every valid record of its feed stored as       *)
(* reported, as long as feed, operator and calendar leave it alone (AgreesWithFeed).     *)
THEOREM PulledAgrees == Spec => []AgreesWithFeed
<1>1. Init => TypeOK /\ AgreesWithFeed
  BY TypeInit DEF Init, AgreesWithFeed
<1>2. TypeOK /\ AgreesWithFeed /\ [Next]_vars => (TypeOK /\ AgreesWithFeed)'
  BY TypeStep, AgreesStep
<1> QED BY <1>1, <1>2, PTL DEF Spec

-----------------------------------------------------------------------------
(* What a reconciliation deletes is on the feed on another day *)

MovedTo(k, d) ==
  /\ Apart(d, k.day) <= Redate
  /\ stored'[At(k, d)] # None
  /\ stored[k].val = symFeed[At(k, d)]

LostAt(k) == stored[k] # None /\ stored'[k] = None /\ over' = over

LEMMA NotLost ==
  ASSUME \A k \in Key : ~LostAt(k)
  PROVE  \A k \in Key : LostAt(k) => \E d \in Days \ {k.day} : MovedTo(k, d)
OBVIOUS

(* A payload deletes nothing. *)
LEMMA UpsertsLose ==
  ASSUME TypeOK, NEW said \in [Key -> Says], NEW supp, NEW r \in 0..MaxRun,
         stored' = Applied(stored, said, supp, r)
  PROVE  \A k \in Key : ~LostAt(k)
<1>1. stored \in [Key -> Row \cup {None}]
  BY DEF TypeOK
<1> QED BY <1>1, AppliedIs DEF LostAt

(* An edit that takes a row away changes the overrides of its key. *)
LEMMA EditLoses ==
  ASSUME TypeOK, NEW s \in Secs, EditOf(s)
  PROVE  \A k \in Key : ~LostAt(k)
<1> DEFINE P == \A k \in Key : ~LostAt(k)
<1>t. stored \in [Key -> Row \cup {None}] /\ over \in [Key -> SUBSET {"delete", "add"}]
  BY DEF TypeOK
<1>k. \A k \in KeysOf(s) : k \in Key
  BY DEF KeysOf
<1>1. ASSUME NEW k \in KeysOf(s), DeletedByOperator(k) PROVE P
  <2>1. over'[k] # over[k]
    BY <1>t, <1>k, <1>1 DEF DeletedByOperator
  <2> QED BY <2>1 DEF LostAt
<1>2. ASSUME NEW k \in KeysOf(s), NEW v \in Values, AddedByOperator(k, v) PROVE P
  <2>1. \A n \in Key : stored'[n] = stored[n] \/ stored'[n] = Operator(k, v)
    BY <1>t, <1>2 DEF AddedByOperator
  <2> QED BY <2>1, OperatorRow DEF LostAt
<1>3. ASSUME NEW k \in KeysOf(s), NEW d \in Days, RedatedByOperator(k, d) PROVE P
  <2>1. k # At(k, d)
    BY <1>3, <1>k, AtIs DEF RedatedByOperator
  <2>2. "delete" \in over'[k] /\ "delete" \notin over[k]
    BY <1>t, <1>k, <1>3, <2>1 DEF RedatedByOperator
  <2> QED BY <2>2 DEF LostAt
<1>4. ASSUME NEW k \in KeysOf(s), NEW op \in {"delete", "add"}, RevokedOverride(k, op) PROVE P
  <2>1. op \in over[k] /\ op \notin over'[k]
    BY <1>t, <1>k, <1>4 DEF RevokedOverride
  <2> QED BY <2>1 DEF LostAt
<1>5. ASSUME NEW k \in KeysOf(s), NEW v \in Values, FilledFrom(k, v) PROVE P
  <2>1. [src |-> "sharadar", val |-> v, run |-> 0] # None
    BY RowMade, Assumed
  <2>2. \A n \in Key : stored'[n] = stored[n] \/ stored'[n] = [src |-> "sharadar", val |-> v, run |-> 0]
    BY <1>t, <1>5 DEF FilledFrom
  <2> QED BY <2>1, <2>2 DEF LostAt
<1> HIDE DEF P
<1>6. P
  BY <1>1, <1>2, <1>3, <1>4, <1>5 DEF EditOf
<1> QED BY <1>6 DEF P

(* The one candidate of a moved dividend. *)
Near1(s, k) == {n \in OnFeed(s) : /\ n.type = k.type /\ n # k
                                  /\ Apart(n.day, k.day) <= Redate
                                  /\ symFeed[n] = stored[k].val}

LEMMA MovedIs ==
  ASSUME NEW s, NEW k, Moved(s, k)
  PROVE  \E n \in OnFeed(s) : /\ n.type = k.type /\ n # k
                              /\ Apart(n.day, k.day) <= Redate
                              /\ symFeed[n] = stored[k].val
<1>1. Cardinality(Near1(s, k)) = 1
  BY DEF Moved, Near1
<1>2. Near1(s, k) # {}
  BY <1>1, FS_EmptySet
<1> QED BY <1>2 DEF Near1

LEMMA ReconcileLoses ==
  ASSUME TypeOK, NEW s \in Secs, Reconcile(s), NEW k \in Key, LostAt(k)
  PROVE  \E d \in Days \ {k.day} : MovedTo(k, d)
<1> DEFINE a == Applied(stored, Of(symFeed, s), Deleted, lastRun)
<1>t. /\ stored \in [Key -> Row \cup {None}] /\ symFeed \in [Key -> Says]
      /\ Of(symFeed, s) \in [Key -> Says] /\ lastRun \in 0..MaxRun
  BY OfIs DEF TypeOK
<1>1. stored[k] # None => a[k] # None
  BY <1>t, AppliedIs
<1>2. \A n \in Key : stored'[n] = IF n \in Redated(s) THEN None ELSE a[n]
  BY ReconcileWrites
<1>3. k \in Redated(s)
  BY <1>1, <1>2 DEF LostAt
<1>4. k \in KeysOf(s) /\ Moved(s, k)
  BY <1>3 DEF Redated, Gone, Own
<1>5. PICK n \in OnFeed(s) : /\ n.type = k.type /\ n # k
                             /\ Apart(n.day, k.day) <= Redate
                             /\ symFeed[n] = stored[k].val
  BY <1>4, MovedIs
<1>6. n \in Key /\ n.sec = s /\ k.sec = s /\ Stores(Of(symFeed, s), Deleted, n)
  BY <1>t, <1>4, OfIs DEF OnFeed, KeysOf
<1>7. n = At(k, n.day) /\ n.day \in Days
  BY <1>5, <1>6, SameKey, KeyFields
<1>8. n.day # k.day
  BY <1>5, <1>6 DEF Key
<1>9. n \notin Redated(s)
  BY DEF Redated, Gone
<1>10. stored'[n] # None
  <2>1. a[n] # None
    BY <1>t, <1>6, AppliedIs
  <2> QED BY <1>2, <1>6, <1>9, <2>1
<1>11. MovedTo(k, n.day)
  BY <1>5, <1>7, <1>10 DEF MovedTo
<1> QED BY <1>7, <1>8, <1>11

LEMMA StepLoses ==
  ASSUME TypeOK, [Next]_vars
  PROVE  \A k \in Key : LostAt(k) => \E d \in Days \ {k.day} : MovedTo(k, d)
<1> DEFINE Left == \A k \in Key : LostAt(k) => \E d \in Days \ {k.day} : MovedTo(k, d)
<1>t. /\ symFeed \in [Key -> Says] /\ asked.keys \in [Key -> Says] /\ lastRun \in 0..MaxRun
      /\ \A s \in Secs : Of(symFeed, s) \in [Key -> Says]
  BY OfIs DEF TypeOK
<1>1. ASSUME UNCHANGED stored PROVE Left
  BY <1>1 DEF LostAt
<1>2. ASSUME NEW s \in Secs, PullSecurity(s) PROVE Left
  <2>1. stored' = Applied(stored, Of(symFeed, s), Deleted, lastRun)
    BY <1>2 DEF PullSecurity
  <2> QED BY <1>t, <2>1, UpsertsLose, NotLost
<1>3. ASSUME NEW s \in Secs, Reconcile(s) PROVE Left
  BY <1>3, ReconcileLoses
<1>4. ASSUME WriteSweep PROVE Left
  <2>1. stored' = Applied(stored, asked.keys, asked.lifted, lastRun)
    BY <1>4 DEF WriteSweep
  <2> QED BY <1>t, <2>1, UpsertsLose, NotLost
<1>5. ASSUME NEW s \in Secs, ExplicitPull(s) PROVE Left
  <2>1. stored' = Applied(stored, Of(symFeed, s), Deleted, lastRun') /\ NewRun
    BY <1>5 DEF ExplicitPull
  <2> QED BY <1>t, <2>1, NewRunTyped, UpsertsLose, NotLost
<1>6. ASSUME NEW s \in Secs, EditOf(s) PROVE Left
  BY <1>6, EditLoses, NotLost
<1> HIDE DEF Left
<1>7. ASSUME \/ UNCHANGED vars
             \/ Tomorrow
             \/ \E k \in Key, v \in Says, where \in SUBSET {"symbol", "calendar"} : Publish(k, v, where)
             \/ \E k \in Key, d \in Days, v \in Values : Redeclare(k, d, v)
      PROVE  Left
  <2>1. UNCHANGED stored
    BY <1>7 DEF vars, Tomorrow, Publish, Redeclare
  <2> QED BY <1>1, <2>1
<1>8. ASSUME NightStep PROVE Left
  <2>1. \/ UNCHANGED stored \/ WriteSweep
        \/ \E s \in Secs : PullSecurity(s)
        \/ \E s \in Secs : Reconcile(s)
    BY <1>8 DEF NightStep, SecurityStep, StartNight, AdjustOne, StepOver, EndLoad, ReadSweep,
                EndCheck, StartAdjust, EndNight, Stop
  <2> QED BY <1>1, <1>2, <1>3, <1>4, <2>1
<1>9. ASSUME ByHand PROVE Left
  <2>1. UNCHANGED stored \/ (\E s \in Secs : ExplicitPull(s)) \/ \E s \in Secs : EditOf(s)
    BY <1>9, ByHandIs DEF AdjustAll
  <2> QED BY <1>1, <1>5, <1>6, <2>1
<1>10. Left
  BY <1>7, <1>8, <1>9 DEF Next
<1> QED BY <1>10 DEF Left

(* No loader takes a row out but one its feed carries on a nearby day that is stored       *)
(* (NothingLost): an absence on its own is evidence of nothing.                          *)
THEOREM NothingIsLost == Spec => NothingLost
<1>1. TypeOK /\ [Next]_vars =>
        [\A k \in Key :
           (stored[k] # None /\ stored'[k] = None /\ over' = over)
           => \E d \in Days \ {k.day} : /\ Apart(d, k.day) <= Redate
                                        /\ stored'[At(k, d)] # None
                                        /\ stored[k].val = symFeed[At(k, d)]]_vars
  BY StepLoses DEF LostAt, MovedTo
<1> QED BY <1>1, ActionsTypeCorrect, PTL DEF Spec, NothingLost

-----------------------------------------------------------------------------
(* What the operator deleted stays out, as long as no edit falls between a sweep's
   read and its write *)

(* What a sweep has read of the deletions is still all of them. *)
LiftedIsCurrent == step = "write" => asked.lifted = Deleted

OutAt(rows, k) == rows[k] = None \/ rows[k].src = "operator"

LEMMA OutIs ==
  /\ DeletedStaysOut <=> \A k \in Key : "delete" \in over[k] => OutAt(stored, k)
  /\ DeletedStaysOut' <=> \A k \in Key : "delete" \in over'[k] => OutAt(stored', k)
BY DEF DeletedStaysOut, OutAt

LEMMA OutFrame ==
  ASSUME DeletedStaysOut, UNCHANGED <<stored, over>>
  PROVE  DeletedStaysOut'
BY DEF DeletedStaysOut

(* A payload that knows every deletion brings none of them back. *)
LEMMA UpsertsStayOut ==
  ASSUME TypeOK, DeletedStaysOut, NEW said \in [Key -> Says], NEW r \in 0..MaxRun,
         \A k \in Key : stored'[k] \in {None, Applied(stored, said, Deleted, r)[k]}, over' = over
  PROVE  DeletedStaysOut'
<1>t. stored \in [Key -> Row \cup {None}]
  BY DEF TypeOK
<1>1. ASSUME NEW k \in Key, "delete" \in over'[k] PROVE OutAt(stored', k)
  <2>1. k \in Deleted /\ OutAt(stored, k)
    BY <1>1, OutIs DEF Deleted
  <2>2. ~Stores(said, Deleted, k)
    BY <2>1 DEF Stores
  <2>3. Applied(stored, said, Deleted, r)[k] = stored[k]
    BY <1>t, <2>2, AppliedIs
  <2> QED BY <2>1, <2>3 DEF OutAt
<1> QED BY <1>1, OutIs

LEMMA EditStaysOut ==
  ASSUME TypeOK, DeletedStaysOut, NEW s \in Secs, EditOf(s)
  PROVE  DeletedStaysOut'
<1>t. stored \in [Key -> Row \cup {None}] /\ over \in [Key -> SUBSET {"delete", "add"}]
  BY DEF TypeOK
<1>k. \A k \in KeysOf(s) : k \in Key
  BY DEF KeysOf
<1>o. \A n \in Key : "delete" \in over[n] => OutAt(stored, n)
  BY OutIs
<1> DEFINE P == \A n \in Key : "delete" \in over'[n] => OutAt(stored', n)
<1>1. ASSUME NEW k \in KeysOf(s), DeletedByOperator(k) PROVE P
  BY <1>t, <1>k, <1>o, <1>1 DEF DeletedByOperator, OutAt
<1>2. ASSUME NEW k \in KeysOf(s), NEW v \in Values, AddedByOperator(k, v) PROVE P
  <2>1. \A n \in Key : /\ stored'[n] = stored[n] \/ stored'[n] = Operator(k, v)
                       /\ "delete" \in over'[n] => "delete" \in over[n]
    BY <1>t, <1>k, <1>2 DEF AddedByOperator
  <2> QED BY <1>o, <2>1, OperatorRow DEF OutAt
<1>3. ASSUME NEW k \in KeysOf(s), NEW d \in Days, RedatedByOperator(k, d) PROVE P
  <2>1. k # At(k, d) /\ At(k, d) \in Key /\ k \in Key
    BY <1>3, <1>k, AtIs DEF RedatedByOperator
  <2>2. stored[k].val \in Values
    BY <1>t, <1>3, <2>1, RowIs DEF RedatedByOperator
  <2>3. Operator(At(k, d), stored[k].val).src = "operator"
    BY <2>2, OperatorRow
  <2>4. /\ stored'[k] = None /\ stored'[At(k, d)] = Operator(At(k, d), stored[k].val)
        /\ \A n \in Key \ {k, At(k, d)} : stored'[n] = stored[n] /\ over'[n] = over[n]
    BY <1>t, <1>3, <2>1 DEF RedatedByOperator
  <2> QED BY <1>o, <2>3, <2>4 DEF OutAt
<1>4. ASSUME NEW k \in KeysOf(s), NEW op \in {"delete", "add"}, RevokedOverride(k, op) PROVE P
  <2>1. \A n \in Key : /\ stored'[n] = stored[n] \/ stored'[n] = None
                       /\ "delete" \in over'[n] => "delete" \in over[n]
    BY <1>t, <1>k, <1>4 DEF RevokedOverride
  <2> QED BY <1>o, <2>1 DEF OutAt
<1>5. ASSUME NEW k \in KeysOf(s), NEW v \in Values, FilledFrom(k, v) PROVE P
  <2>1. \A n \in Key : n # k => stored'[n] = stored[n]
    BY <1>t, <1>5 DEF FilledFrom
  <2>2. over' = over /\ "delete" \notin over[k]
    BY <1>k, <1>5 DEF FilledFrom, Deleted
  <2> QED BY <1>o, <2>1, <2>2 DEF OutAt
<1> HIDE DEF P
<1>6. P
  BY <1>1, <1>2, <1>3, <1>4, <1>5 DEF EditOf
<1> QED BY <1>6, OutIs DEF P

LEMMA LiftedFrame ==
  ASSUME LiftedIsCurrent, over' = over, step' # "write" \/ UNCHANGED <<step, asked>>
  PROVE  LiftedIsCurrent'
BY DEF LiftedIsCurrent, Deleted

LEMMA LiftedStep ==
  ASSUME Quiet, TypeOK, LiftedIsCurrent, [Next]_vars
  PROVE  LiftedIsCurrent'
<1>1. ASSUME \/ UNCHANGED vars
             \/ Tomorrow
             \/ \E k \in Key, v \in Says, where \in SUBSET {"symbol", "calendar"} : Publish(k, v, where)
             \/ \E k \in Key, d \in Days, v \in Values : Redeclare(k, d, v)
      PROVE  LiftedIsCurrent'
  <2>1. over' = over /\ UNCHANGED <<step, asked>>
    BY <1>1 DEF vars, Tomorrow, Publish, Redeclare, night
  <2> QED BY <2>1, LiftedFrame
<1>2. CASE ReadSweep
  BY <1>2 DEF ReadSweep, LiftedIsCurrent, Deleted
<1>3. ASSUME NightStep, ~ReadSweep PROVE LiftedIsCurrent'
  <2>1. over' = over
    BY <1>3 DEF NightStep, SecurityStep, StartNight, PullSecurity, Reconcile, AdjustOne, StepOver,
                EndLoad, WriteSweep, EndCheck, StartAdjust, EndNight, Stop
  <2>2. step' # "write" \/ UNCHANGED <<step, asked>>
    BY <1>3 DEF NightStep, SecurityStep, StartNight, PullSecurity, Reconcile, AdjustOne, StepOver,
                EndLoad, WriteSweep, EndCheck, StartAdjust, EndNight, Stop
  <2> QED BY <2>1, <2>2, LiftedFrame
<1>4. CASE ByHand
  <2>1. CASE AdjustAll \/ \E s \in Secs : ExplicitPull(s)
    <3>1. over' = over /\ UNCHANGED <<step, asked>>
      BY <2>1 DEF AdjustAll, ExplicitPull, night
    <3> QED BY <3>1, LiftedFrame
  <2>2. ASSUME NEW s \in Secs, Edited(s) PROVE LiftedIsCurrent'
    <3>1. step' = step /\ step # "write"
      BY <2>2 DEF Edited, night
    <3> QED BY <3>1 DEF LiftedIsCurrent
  <2> QED BY <1>4, <2>1, <2>2, ByHandIs
<1> QED BY <1>1, <1>2, <1>3, <1>4 DEF Next

LEMMA OutStep ==
  ASSUME TypeOK, LiftedIsCurrent, DeletedStaysOut, [Next]_vars
  PROVE  DeletedStaysOut'
<1>t. /\ stored \in [Key -> Row \cup {None}] /\ asked.keys \in [Key -> Says] /\ lastRun \in 0..MaxRun
      /\ \A s \in Secs : Of(symFeed, s) \in [Key -> Says]
  BY OfIs DEF TypeOK
<1>1. ASSUME UNCHANGED <<stored, over>> PROVE DeletedStaysOut'
  BY <1>1, OutFrame
<1>2. ASSUME NEW s \in Secs, PullSecurity(s) PROVE DeletedStaysOut'
  <2>1. stored' = Applied(stored, Of(symFeed, s), Deleted, lastRun) /\ over' = over
    BY <1>2 DEF PullSecurity
  <2> QED BY <1>t, <2>1, UpsertsStayOut
<1>3. ASSUME NEW s \in Secs, Reconcile(s) PROVE DeletedStaysOut'
  <2>1. over' = over
    BY <1>3 DEF Reconcile
  <2>2. \A k \in Key : stored'[k] \in {None, Applied(stored, Of(symFeed, s), Deleted, lastRun)[k]}
    BY <1>3, ReconcileWrites
  <2> QED BY <1>t, <2>1, <2>2, UpsertsStayOut
<1>4. CASE WriteSweep
  <2>1. stored' = Applied(stored, asked.keys, Deleted, lastRun) /\ over' = over
    BY <1>4 DEF WriteSweep, LiftedIsCurrent
  <2> QED BY <1>t, <2>1, UpsertsStayOut
<1>5. ASSUME NEW s \in Secs, ExplicitPull(s) PROVE DeletedStaysOut'
  <2>1. stored' = Applied(stored, Of(symFeed, s), Deleted, lastRun') /\ NewRun /\ over' = over
    BY <1>5 DEF ExplicitPull
  <2>2. lastRun' \in 0..MaxRun
    BY <2>1, NewRunTyped
  <2> QED BY <1>t, <2>1, <2>2, UpsertsStayOut
<1>6. CASE \/ UNCHANGED vars
           \/ Tomorrow
           \/ \E k \in Key, v \in Says, where \in SUBSET {"symbol", "calendar"} : Publish(k, v, where)
           \/ \E k \in Key, d \in Days, v \in Values : Redeclare(k, d, v)
  <2>1. UNCHANGED <<stored, over>>
    BY <1>6 DEF vars, Tomorrow, Publish, Redeclare
  <2> QED BY <1>1, <2>1
<1>7. CASE NightStep
  <2>1. \/ UNCHANGED <<stored, over>> \/ WriteSweep
        \/ \E s \in Secs : PullSecurity(s)
        \/ \E s \in Secs : Reconcile(s)
    BY <1>7 DEF NightStep, SecurityStep, StartNight, AdjustOne, StepOver, EndLoad, ReadSweep,
                EndCheck, StartAdjust, EndNight, Stop
  <2> QED BY <1>1, <1>2, <1>3, <1>4, <2>1
<1>8. CASE ByHand
  <2>1. \/ UNCHANGED <<stored, over>>
        \/ \E s \in Secs : ExplicitPull(s)
        \/ \E s \in Secs : EditOf(s)
    BY <1>8, ByHandIs DEF AdjustAll
  <2> QED BY <1>1, <1>5, <2>1, EditStaysOut
<1> QED BY <1>6, <1>7, <1>8 DEF Next

(* Where no edit falls between a sweep's read and its write, no loader brings back what    *)
(* the operator deleted (suppressed_action_keys).  The code does not keep the operator   *)
(* out of that gap: with Quiet false the sweep may write what was deleted meanwhile.     *)
THEOREM DeletedStaysOutWhenQuiet ==
  ASSUME Quiet
  PROVE  Spec => []DeletedStaysOut
<1>1. Init => TypeOK /\ LiftedIsCurrent /\ DeletedStaysOut
  BY TypeInit DEF Init, LiftedIsCurrent, DeletedStaysOut
<1>2. TypeOK /\ LiftedIsCurrent /\ DeletedStaysOut /\ [Next]_vars
      => (TypeOK /\ LiftedIsCurrent /\ DeletedStaysOut)'
  BY TypeStep, LiftedStep, OutStep
<1> QED BY <1>1, <1>2, PTL DEF Spec
==========================================================================
