------------------------------ MODULE MCParts ------------------------------
(* Parts that share no state, side by side: each behaviour follows one of BarGuards,  *)
(* BarValidation, Adjustments, Detectors, StatementChecks and Universe while the     *)
(* others stay idle.                                                               *)
(*                                                                                *)
(* For the judgements about bars: prices around both ratios of the guards and the   *)
(* factors of a 1:6, a 2:1, a 3:2 and a 5:4 split, volumes around a round lot;       *)
(* payloads on, between and around the values the column holds, one field with two  *)
(* spellings; an ex-date after a closed day and a split written in two ways.         *)
(* For the universe: a company that the cutover left in one of nine situations, and *)
(* another one that lists later.                                                  *)
EXTENDS BarGuards, BarValidation, Detectors, MCStatements, Universe

CONSTANTS
  PriceValues, VolumeValues,
  Shut, Prices, Ratios, Amounts, ExDates, DuplicateSessions

VARIABLES
  part,
  closes, splits, dividends, factors, flagged, suspects, fresh

derived == <<closes, splits, dividends, factors, flagged, suspects, fresh>>

A == INSTANCE Adjustments

MCBar == [close : {5, 8, 10, 13, 15, 60}, volume : {0, 3, 10, 30, 60}]
MCSplits == {[num |-> 1, den |-> 6], [num |-> 2, den |-> 1],
             [num |-> 3, den |-> 2], [num |-> 5, den |-> 4]}
Spellings == {<<v>> : v \in PriceValues}
TwoSpellings == {<<v, u>> : v, u \in PriceValues}
Volumes == {<<v>> : v \in VolumeValues} \cup {<<Absent, v>> : v \in VolumeValues}
MCPayloads ==
  [open : TwoSpellings, high : Spellings, low : Spellings, close : Spellings,
   volume : {<<Absent>>, <<3>>}]
    \cup [open : {<<Junk>>, <<1>>, <<3>>}, high : {<<Absent>>, <<3>>, <<5>>}, low : {<<1>>, <<3>>},
          close : {<<1>>, <<3>>}, volume : Volumes]
MCRatios == {<<2, 1>>, <<4, 2>>, <<1, 2>>}

MCMaster(fund) == [act |-> TRUE, off |-> FALSE, nav |-> fund, classified |-> TRUE,
                  fmp |-> TRUE, sym |-> 1]
MCWarehouses ==
  {[bars |-> [s \in {1, 2} |-> IF s = 1 THEN own ELSE other], calendar |-> open,
    split |-> {}, cash |-> {<<1, 2>>},
    master |-> [s \in {1, 2} |-> IF s = 1 THEN MCMaster(fund)
                                 ELSE [MCMaster(FALSE) EXCEPT !.sym = 2]]]
     : own \in [1..LastDay -> CloseValues \cup {NoClose}],
       other \in {[d \in 1..LastDay |-> IF d \in {1, LastDay} THEN 10 ELSE NoClose]},
       open \in {1..LastDay, (1..LastDay) \ {3}}, fund \in BOOLEAN}

\* Key 1 trades on ticker 1, or renamed to 2 on day 2.
K1(t) == [tick |-> t, first |-> 1, until |-> 0]
K2    == [tick |-> 3, first |-> 0, until |-> 0]

FmpRow(t, act, off, of, first, last) ==
  [sym |-> t, src |-> "fmp", act |-> act, off |-> off, name |-> 1, of |-> of,
   first |-> first, last |-> last]

P(t, s, from, to) == [sym |-> t, sec |-> s, from |-> from, to |-> to]

State(secs, xref) ==
  [secs |-> secs, xref |-> xref,
   link |-> [k \in Keys |-> IF k = 1 THEN [sec |-> 1, from |-> 1] ELSE None],
   minted |-> 2, recorded |-> {}, conflicts |-> {}, judged |-> {}, inactive |-> {},
   declared |-> {}, names |-> [s \in Ids |-> None], sound |-> TRUE, opened |-> TRUE]

Secs(r1, r2) == [s \in Ids |-> IF s = 1 THEN r1 ELSE IF s = 2 THEN r2 ELSE None]

Moved == {[key |-> 1, act |-> "from", day |-> 2, contra |-> 1, filed |-> 2],
          [key |-> 1, act |-> "to", day |-> 2, contra |-> 2, filed |-> 2]}

MCCutover ==
  LET v(t) == [k \in Keys |-> IF k = 1 THEN K1(t) ELSE K2]
      trading == FmpRow(1, TRUE, 0, {1}, 1, 2)
      still   == FmpRow(1, FALSE, 0, {1}, 1, 2)
      stamped == FmpRow(1, FALSE, 1, {1}, 1, 2)
      empty(t)  == FmpRow(t, TRUE, 0, {}, 0, 0)
      warrant == [empty(3) EXCEPT !.name = 2]
      remint  == FmpRow(2, TRUE, 0, {1}, 1, 2)
      S(t, es, r1, r2, x) == [vendor |-> v(t), events |-> es, db |-> State(Secs(r1, r2), x)]
  IN {S(1, {}, trading, None, {P(1, 1, 0, Open)}),
      S(1, {}, trading, warrant, {P(1, 1, 0, Open), P(3, 2, 0, Open)}),
      S(1, {}, still, None, {P(1, 1, 0, Open)}),
      S(1, {}, stamped, None, {P(1, 1, 0, 1)}),
      S(1, {}, stamped, empty(1), {P(1, 1, 0, 1), P(1, 2, 2, Open)}),
      S(2, Moved, stamped, None, {P(1, 1, 0, 1)}),
      S(2, Moved, stamped, empty(2), {P(1, 1, 0, 1), P(2, 2, 0, Open)}),
      S(2, Moved, stamped, remint, {P(1, 1, 0, 1), P(2, 2, 0, Open)}),
      S(2, Moved, still, remint, {P(1, 1, 0, Open), P(2, 2, 0, Open)})}

GuardsIdle ==
  /\ prev = None /\ median = None /\ split = None
  /\ held = NoRow /\ served = NoBar /\ verdict = "none"
ValidationIdle ==
  bar = None /\ nav = FALSE /\ row = None /\ reason = "unread" /\ collapse = FALSE
FactorsIdle ==
  /\ closes = None /\ splits = None /\ dividends = None
  /\ factors = None /\ flagged = {} /\ suspects = {} /\ fresh = FALSE

DetectorsIdle ==
  /\ barOf = <<>> /\ calendar = {} /\ splitOn = {} /\ cashOn = {} /\ master = <<>>
  /\ queue = {} /\ changes = 0

StatementsIdle == books = Bare /\ flags = {} /\ amended = 0

UniverseIdle ==
  /\ today = 0 /\ phase = "idle" /\ vendorSec = [k \in Keys |-> K2] /\ pending = {}
  /\ events = {} /\ anchor = 0 /\ plan = None /\ count = [events |-> 0, ops |-> 0, fails |-> 0]
  /\ db = [State(Secs(None, None), {}) EXCEPT !.link = [k \in Keys |-> None]]

MCInit ==
  \/ /\ part = "guards" /\ GuardInit
     /\ ValidationIdle /\ FactorsIdle /\ DetectorsIdle
     /\ StatementsIdle /\ UniverseIdle
  \/ /\ part = "validation" /\ JudgeInit
     /\ GuardsIdle /\ FactorsIdle /\ DetectorsIdle
     /\ StatementsIdle /\ UniverseIdle
  \/ /\ part = "factors" /\ A!Init
     /\ GuardsIdle /\ ValidationIdle /\ DetectorsIdle
     /\ StatementsIdle /\ UniverseIdle
  \/ /\ part = "detectors" /\ DetectInit
     /\ GuardsIdle /\ ValidationIdle /\ FactorsIdle
     /\ StatementsIdle /\ UniverseIdle
  \/ /\ part = "statements" /\ StatementInit
     /\ GuardsIdle /\ ValidationIdle /\ FactorsIdle
     /\ DetectorsIdle /\ UniverseIdle
  \/ /\ part = "universe" /\ AtCutover
     /\ GuardsIdle /\ ValidationIdle /\ FactorsIdle
     /\ DetectorsIdle /\ StatementsIdle

all == <<part, guarded, judged, derived, checked, statements, everything>>

MCNext ==
  /\ UNCHANGED part
  /\ \/ /\ part = "guards" /\ GuardNext
        /\ UNCHANGED <<judged, derived, checked, statements, everything>>
     \/ /\ part = "validation" /\ JudgeNext
        /\ UNCHANGED <<guarded, derived, checked, statements, everything>>
     \/ /\ part = "factors" /\ A!Next
        /\ UNCHANGED <<guarded, judged, checked, statements, everything>>
     \/ /\ part = "detectors" /\ DetectNext
        /\ UNCHANGED <<guarded, judged, derived, statements, everything>>
     \/ /\ part = "statements" /\ StatementNext
        /\ UNCHANGED <<guarded, judged, derived, checked, everything>>
     \/ /\ part = "universe" /\ UniverseNext
        /\ UNCHANGED <<guarded, judged, derived, checked, statements>>

MCSpec == MCInit /\ [][MCNext]_all

\* See Adjustments.
ReturnOverExDate == A!ReturnOverExDate
=============================================================================
