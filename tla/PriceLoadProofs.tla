--------------------------- MODULE PriceLoadProofs ---------------------------
(* What PriceLoad guarantees for every number of dates, sessions and changes: *)
(* type correctness, the record of operator rows, and, for one session that   *)
(* loads nightly, that a quarantined date is read again while its budget      *)
(* lasts.  And that what the checks over the stored bars flag, a recheck       *)
(* closes exactly when they would not flag it any more (Detectors).           *)
EXTENDS PriceLoad, Detectors, FiniteSetTheorems, TLAPS, WellFoundedInduction

-----------------------------------------------------------------------------
(* Extremal elements *)

(* Every non-empty set of naturals has a least element, by the well-foundedness of < *)
(* on Nat, the one inductive fact used here.                                         *)
LEMMA LeastElement ==
  ASSUME NEW T, T \subseteq Nat, T # {}
  PROVE  \E x \in T : \A y \in T : x <= y
<1> DEFINE R == OpToRel(<, Nat)
<1>1. IsWellFoundedOn(R, Nat)
  BY NatLessThanWellFounded
<1> HIDE DEF R
<1>2. \E x \in T : \A y \in T : <<y, x>> \notin R
  BY <1>1, WFMin
<1>3. \A x, y \in T : <<y, x>> \notin R => x <= y
  <2>1. SUFFICES ASSUME NEW x \in T, NEW y \in T, y < x PROVE <<y, x>> \in R
    BY SMT
  <2>2. <<y, x>> \in Nat \X Nat /\ <<y,x>>[1] < <<y,x>>[2]
    BY <2>1
  <2> QED BY <2>2 DEF R, OpToRel
<1> QED BY <1>2, <1>3

(* Every non-empty set of naturals with an upper bound has a greatest element. *)
LEMMA GreatestElement ==
  ASSUME NEW n \in Nat, NEW S, S \subseteq 0..n, S # {}
  PROVE  \E x \in S : \A y \in S : y <= x
<1> DEFINE T == {n - d : d \in S}
<1>1. T \subseteq Nat
  <2>1. \A d \in S : n - d \in Nat
    OBVIOUS
  <2> QED BY <2>1
<1>2. T # {}
  BY Zenon
<1>3. PICK x \in T : \A y \in T : x <= y
  <2> HIDE DEF T
  <2> QED BY <1>1, <1>2, LeastElement
<1>4. PICK m \in S : x = n - m
  BY <1>3
<1>5. \A d \in S : n - m <= n - d
  BY <1>3, <1>4
<1>6. \A d \in S : d <= m
  BY <1>5, SMT
<1> QED BY <1>6

-----------------------------------------------------------------------------
(* The greatest element of a non-empty set of dates is what MaxOf chooses. *)
LEMMA MaxOfDates ==
  ASSUME NEW S, S \subseteq Days, S # {}
  PROVE  MaxOf(S) \in S /\ \A d \in S : d <= MaxOf(S)
<1>1. S \subseteq 0..MaxDay /\ MaxDay \in Nat
  BY BoundsAssumption DEF Days
<1>2. \E x \in S : \A y \in S : y <= x
  BY <1>1, GreatestElement
<1> QED BY <1>2 DEF MaxOf

(* A bar that a load is about to write is a storable bar. *)
OutStorable ==
  \A l \in Loaders, d \in Days :
    verdict[l][d] \in {"write", "foreign"} => out[l][d] \in Bar

TypeInv == TypeOK /\ OutStorable

(* The verdict and the row of one date have their types, for any answer the *)
(* vendor gives.                                                            *)
LEMMA VerdictTypes ==
  ASSUME TypeOK, NEW d \in Days, NEW served \in Served, NEW e \in BOOLEAN
  PROVE  /\ VerdictOf(d, served, e) \in Verdicts
         /\ RowOf(d, served) \in Bar \cup {NoBar}
         /\ VerdictOf(d, served, e) \in {"write", "foreign"} => RowOf(d, served) \in Bar
<1>1. bars[d] # NoRow => bars[d].bar \in Bar
  BY DEF TypeOK, Stored, Row
<1>2. CASE served = NoBar
  BY <1>2, BarAssumption DEF VerdictOf, RowOf, Verdicts
<1>3. CASE served = BadBar
  BY <1>3, BarAssumption DEF VerdictOf, RowOf, Verdicts
<1>4. CASE served \in Bar
  <2>1. RowOf(d, served) \in Bar
    BY <1>1, <1>4, BarAssumption DEF RowOf, HeldBy
  <2>2. served # NoBar /\ served # BadBar
    BY <1>4, BarAssumption
  <2>3. VerdictOf(d, served, e) \in Verdicts
    BY <1>4, <2>2 DEF VerdictOf, Verdicts
  <2> QED BY <2>1, <2>3
<1> QED BY <1>2, <1>3, <1>4 DEF Served

(* A commit moves the watermark forward, to a date or not at all. *)
LEMMA WatermarkGrows ==
  ASSUME TypeOK, NEW l \in Loaders
  PROVE  NextWatermark(l) \in 0..MaxDay /\ NextWatermark(l) >= wm
<1>1. SafeDates(l) \subseteq Days /\ Quarantined(l) \subseteq Days
  BY DEF SafeDates, Judged, Quarantined
<1>2. MaxDay \in Nat /\ wm \in 0..MaxDay
  BY BoundsAssumption DEF TypeOK
<1>3. CASE SafeDates(l) # {}
  BY <1>1, <1>2, <1>3, MaxOfDates DEF NextWatermark, Greatest, Days
<1>4. CASE SafeDates(l) = {} /\ Quarantined(l) # {} /\ Holding(l) = {}
  BY <1>1, <1>2, <1>4, MaxOfDates DEF NextWatermark, Greatest, Days
<1>5. CASE SafeDates(l) = {} /\ ~(Quarantined(l) # {} /\ Holding(l) = {})
  BY <1>2, <1>5 DEF NextWatermark
<1> QED BY <1>3, <1>4, <1>5

LEMMA InitTypes == Init => TypeInv
<1> SUFFICES ASSUME Init PROVE TypeInv
  OBVIOUS
<1> USE BoundsAssumption, SetsAssumption, BarAssumption
<1>1. TypeOK
  BY DEF Init, TypeOK, Nothing, NoVerdict, Verdicts, Served, Stored, Days
<1>2. OutStorable
  BY DEF Init, OutStorable, NoVerdict
<1> QED BY <1>1, <1>2 DEF TypeInv

LEMMA ResetTypes ==
  ASSUME TypeInv, NEW l \in Loaders, Reset(l)
  PROVE  /\ pc' \in [Loaders -> {"idle", "fetched", "filtered", "judged"}]
         /\ explicit' \in [Loaders -> BOOLEAN]
         /\ lo' \in [Loaders -> Days] /\ hi' \in [Loaders -> Days]
         /\ payload' \in [Loaders -> [Days -> Served]]
         /\ verdict' \in [Loaders -> [Days -> Verdicts]]
         /\ out' \in [Loaders -> [Days -> Bar \cup {NoBar}]]
         /\ OutStorable'
<1>1. 1 \in Days /\ Nothing \in [Days -> Served] /\ NoVerdict \in [Days -> Verdicts]
  BY BoundsAssumption DEF Days, Nothing, Served, NoVerdict, Verdicts
<1>2. Nothing \in [Days -> Bar \cup {NoBar}]
  BY DEF Nothing
<1>3. OutStorable'
  BY DEF TypeInv, TypeOK, OutStorable, Reset, NoVerdict
<1> QED BY <1>1, <1>2, <1>3 DEF TypeInv, TypeOK, Reset

LEMMA FetchTypes ==
  ASSUME TypeInv, NEW l \in Loaders, NEW from \in Days, NEW to \in Days,
         NEW e \in BOOLEAN, FetchWindow(l, from, to, e)
  PROVE  TypeInv'
<1>1. Answer(from, to) \in [Days -> Served]
  BY DEF TypeInv, TypeOK, Answer, Served
<1>2. TypeOK'
  BY <1>1 DEF TypeInv, TypeOK, FetchWindow, env, table, operator, history
<1>3. OutStorable'
  BY DEF TypeInv, OutStorable, FetchWindow
<1> QED BY <1>2, <1>3 DEF TypeInv

LEMMA CommitTypes ==
  ASSUME TypeInv, NEW l \in Loaders, Commit(l)
  PROVE  TypeInv'
<1>1. bars' \in [Days -> Stored]
  <2>1. \A d \in Upserted(l) : d \in Days /\ out[l][d] \in Bar
    BY DEF TypeInv, OutStorable, Upserted, Judged
  <2>2. \A d \in Upserted(l) : [src |-> "fmp", bar |-> out[l][d]] \in Stored
    BY <2>1 DEF Stored, Row, Sources
  <2> QED BY <2>2 DEF TypeInv, TypeOK, Commit
<1>2. quar' \in [Days -> 0..MaxHolds]
  BY BoundsAssumption DEF TypeInv, TypeOK, Commit, FlagCount
<1>3. conflict' \in SUBSET Days /\ pending' \in SUBSET Days /\ lifted' \in SUBSET Days
  BY DEF TypeInv, TypeOK, Commit, Judged, Quarantined
<1>4. wm' \in 0..MaxDay
  BY WatermarkGrows DEF TypeInv, Commit
<1>5. Reset(l)
  BY DEF Commit
<1>6. UNCHANGED <<feed, edits, cleared, splits, over, saved>>
  BY DEF Commit, env, operator
<1> QED BY <1>1, <1>2, <1>3, <1>4, <1>5, <1>6, ResetTypes DEF TypeInv, TypeOK

(* Every step of the system keeps the types. *)
LEMMA NextTypes == TypeInv /\ [Next]_vars => TypeInv'
<1> SUFFICES ASSUME TypeInv, [Next]_vars PROVE TypeInv'
  OBVIOUS
<1>1. ASSUME NEW l \in Loaders, NightlyFetch(l) PROVE TypeInv'
  <2>1. WindowStart \in Days /\ MaxDay \in Days /\ FALSE \in BOOLEAN
    BY BoundsAssumption DEF TypeInv, TypeOK, WindowStart, Days
  <2>2. FetchWindow(l, WindowStart, MaxDay, FALSE)
    BY <1>1 DEF NightlyFetch
  <2> QED BY <2>1, <2>2, FetchTypes
<1>2. ASSUME NEW l \in Loaders, ExplicitFetch(l) PROVE TypeInv'
  <2>1. PICK from \in Days : \E to \in from..MaxDay : FetchWindow(l, from, to, TRUE)
    BY <1>2 DEF ExplicitFetch
  <2>2. PICK to \in from..MaxDay : FetchWindow(l, from, to, TRUE)
    BY <2>1
  <2>3. to \in Days
    BY BoundsAssumption DEF Days
  <2> QED BY <2>2, <2>3, FetchTypes
<1>3. ASSUME NEW l \in Loaders, ReadOverrides(l) PROVE TypeInv'
  <2>1. payload' \in [Loaders -> [Days -> Served]]
    BY <1>3 DEF TypeInv, TypeOK, ReadOverrides, Served
  <2>2. pc' \in [Loaders -> {"idle", "fetched", "filtered", "judged"}]
    BY <1>3 DEF TypeInv, TypeOK, ReadOverrides
  <2> QED BY <1>3, <2>1, <2>2
          DEF TypeInv, TypeOK, OutStorable, ReadOverrides, env, table, operator, history
<1>4. ASSUME NEW l \in Loaders, Judge(l) PROVE TypeInv'
  <2>1. \A d \in Days : payload[l][d] \in Served /\ explicit[l] \in BOOLEAN
    BY DEF TypeInv, TypeOK
  <2>2. \A d \in Days :
          /\ VerdictOf(d, payload[l][d], explicit[l]) \in Verdicts
          /\ RowOf(d, payload[l][d]) \in Bar \cup {NoBar}
          /\ VerdictOf(d, payload[l][d], explicit[l]) \in {"write", "foreign"}
             => RowOf(d, payload[l][d]) \in Bar
    BY <2>1, VerdictTypes DEF TypeInv
  <2>3. verdict' \in [Loaders -> [Days -> Verdicts]]
        /\ out' \in [Loaders -> [Days -> Bar \cup {NoBar}]]
        /\ OutStorable'
    BY <1>4, <2>2 DEF TypeInv, TypeOK, OutStorable, Judge
  <2>4. Nothing \in [Days -> Served]
    BY DEF Nothing, Served
  <2>5. payload' \in [Loaders -> [Days -> Served]]
        /\ pc' \in [Loaders -> {"idle", "fetched", "filtered", "judged"}]
    BY <1>4, <2>4 DEF TypeInv, TypeOK, Judge
  <2> QED BY <1>4, <2>3, <2>5
          DEF TypeInv, TypeOK, Judge, env, table, operator, history
<1>5. ASSUME NEW l \in Loaders, Commit(l) PROVE TypeInv'
  BY <1>5, CommitTypes
<1>6. ASSUME NEW l \in Loaders, Fail(l) PROVE TypeInv'
  <2>1. Reset(l) /\ UNCHANGED <<env, table, splits, operator, history>>
    BY <1>6 DEF Fail
  <2> QED BY <2>1, ResetTypes DEF TypeInv, TypeOK, env, table, operator, history
<1>7. ASSUME NEW d \in Days, OtherStep(d) PROVE TypeInv'
  <2>1. Edit => edits' \in 0..MaxEdits
    BY BoundsAssumption DEF TypeInv, TypeOK, Edit
  <2>2. CASE \E v \in Served : VendorChanges(d, v)
    BY <2>1, <2>2 DEF TypeInv, TypeOK, OutStorable, VendorChanges, table, operator,
                      session, history
  <2>3. CASE \E b \in Bar : SharadarWrites(d, b)
    <3>1. PICK b \in Bar : SharadarWrites(d, b)
      BY <2>3
    <3>2. [src |-> "sharadar", bar |-> b] \in Stored
      BY DEF Stored, Row, Sources
    <3> QED BY <2>1, <3>1, <3>2 DEF TypeInv, TypeOK, OutStorable, SharadarWrites,
                                    operator, session
  <2>4. CASE \E b \in Bar : EditBar(d, b)
    <3>1. PICK b \in Bar : EditBar(d, b)
      BY <2>4
    <3>2. [src |-> "operator", bar |-> b] \in Stored
      BY DEF Stored, Row, Sources
    <3> QED BY <2>1, <3>1, <3>2 DEF TypeInv, TypeOK, OutStorable, EditBar, session
  <2>5. CASE DeleteBar(d)
    BY <2>1, <2>5 DEF TypeInv, TypeOK, OutStorable, DeleteBar, session, Stored
  <2>6. CASE RevokeDelete(d)
    BY <2>1, <2>6 DEF TypeInv, TypeOK, OutStorable, RevokeDelete, table, session
  <2>7. CASE RevokeEdit(d)
    BY <2>1, <2>7 DEF TypeInv, TypeOK, OutStorable, RevokeEdit, session, history, Stored
  <2>8. CASE SharadarGate(d)
    BY <2>8 DEF TypeInv, TypeOK, OutStorable, SharadarGate, table, operator, session, history
  <2>9. CASE SharadarQuarantines(d)
    <3>1. quar' \in [Days -> 0..MaxHolds]
      BY <2>9, BoundsAssumption DEF TypeInv, TypeOK, SharadarQuarantines
    <3> QED BY <2>1, <2>9, <3>1 DEF TypeInv, TypeOK, OutStorable, SharadarQuarantines,
                                    operator, session, history
  <2> QED BY <1>7, <2>2, <2>3, <2>4, <2>5, <2>6, <2>7, <2>8, <2>9 DEF OtherStep
<1>8. ASSUME NEW s \in SplitDates, SplitOnFile(s) PROVE TypeInv'
  BY <1>8 DEF TypeInv, TypeOK, OutStorable, SplitOnFile, env, table, operator,
              session, history
<1>9. CASE UNCHANGED vars
  BY <1>9 DEF TypeInv, TypeOK, OutStorable, vars, env, table, operator, session, history
<1>10. CASE SharadarStops
  BY <1>10 DEF TypeInv, TypeOK, OutStorable, SharadarStops, table, operator, session, history
<1> QED BY <1>1, <1>2, <1>3, <1>4, <1>5, <1>6, <1>7, <1>8, <1>9, <1>10 DEF Next, LoadStep

(* Every variable keeps its type: above all, a load never writes a row that is *)
(* not a storable bar, whatever the vendor serves it.                          *)
THEOREM TypeCorrect == Spec => []TypeOK
<1>1. TypeInv => TypeOK
  BY DEF TypeInv
<1> QED BY <1>1, InitTypes, NextTypes, PTL DEF Spec

-----------------------------------------------------------------------------
(* Operator rows and other parties' rows *)

(* The row an edit keeps for its undo is a vendor's, never another edit's. *)
SavedIsVendors == \A d \in Days : saved[d] # NoRow => saved[d].src # "operator"

RecordInv == TypeInv /\ OperatorRowsRecorded /\ SavedIsVendors

(* What a commit leaves in the table: FMP's bar where it upserted, the old row *)
(* elsewhere, and it upserts over FMP's own rows and empty dates only.         *)
LEMMA CommitWrites ==
  ASSUME TypeInv, NEW l \in Loaders, Commit(l), NEW d \in Days
  PROVE  \/ bars'[d] = bars[d]
         \/ /\ ~HeldBy(d, "sharadar") /\ ~HeldBy(d, "operator")
            /\ bars'[d] # NoRow /\ bars'[d].src = "fmp"
<1>1. CASE d \in Upserted(l)
  <2>1. bars'[d] = [src |-> "fmp", bar |-> out[l][d]] /\ out[l][d] \in Bar
    BY <1>1 DEF Commit, Upserted, Judged, TypeInv, OutStorable
  <2>2. bars'[d] \in [src : {"fmp", "sharadar", "operator"}, bar : Bar]
    BY <2>1
  <2> QED BY <1>1, <2>1, <2>2, BarAssumption DEF Upserted
<1>2. CASE d \notin Upserted(l)
  BY <1>2 DEF Commit
<1> QED BY <1>1, <1>2

(* A loader's own steps other than Commit leave rows and overrides alone. *)
LEMMA LoaderLeavesRows ==
  ASSUME NEW l \in Loaders,
         NightlyFetch(l) \/ ExplicitFetch(l) \/ ReadOverrides(l) \/ Judge(l) \/ Fail(l)
  PROVE  UNCHANGED <<bars, over, saved>>
BY DEF NightlyFetch, ExplicitFetch, FetchWindow, ReadOverrides, Judge, Fail, table, operator

LEMMA InitRecord == Init => RecordInv
<1> SUFFICES ASSUME Init PROVE OperatorRowsRecorded /\ SavedIsVendors
  BY InitTypes DEF RecordInv
<1> QED BY DEF Init, OperatorRowsRecorded, SavedIsVendors, HeldBy

LEMMA NextRecord == RecordInv /\ [Next]_vars => RecordInv'
<1> SUFFICES ASSUME RecordInv, [Next]_vars
             PROVE  OperatorRowsRecorded' /\ SavedIsVendors'
  BY NextTypes DEF RecordInv
<1>1. ASSUME UNCHANGED <<bars, over, saved>>
      PROVE  OperatorRowsRecorded' /\ SavedIsVendors'
  BY <1>1 DEF RecordInv, OperatorRowsRecorded, SavedIsVendors, HeldBy
<1>2. ASSUME NEW l \in Loaders, LoadStep(l)
      PROVE  OperatorRowsRecorded' /\ SavedIsVendors'
  <2>1. CASE Commit(l)
    <3>1. UNCHANGED <<over, saved>>
      BY <2>1 DEF Commit, operator
    <3>2. \A d \in Days : HeldBy(d, "operator")' <=> HeldBy(d, "operator")
      BY <2>1, CommitWrites DEF RecordInv, HeldBy
    <3> QED BY <3>1, <3>2 DEF RecordInv, OperatorRowsRecorded, SavedIsVendors
  <2>2. CASE ~Commit(l)
    BY <1>1, <1>2, <2>2, LoaderLeavesRows DEF LoadStep
  <2> QED BY <2>1, <2>2
<1>3. ASSUME NEW d \in Days, OtherStep(d)
      PROVE  OperatorRowsRecorded' /\ SavedIsVendors'
  <2> USE DEF RecordInv, TypeInv, TypeOK
  <2>1. CASE \E v \in Served : VendorChanges(d, v)
    BY <1>1, <2>1 DEF VendorChanges, table, operator
  <2>2. ASSUME NEW b \in Bar, SharadarWrites(d, b)
        PROVE  OperatorRowsRecorded' /\ SavedIsVendors'
    BY <2>2 DEF SharadarWrites, operator, OperatorRowsRecorded, SavedIsVendors, HeldBy
  <2>3. ASSUME NEW b \in Bar, EditBar(d, b)
        PROVE  OperatorRowsRecorded' /\ SavedIsVendors'
    <3>1. [src |-> "operator", bar |-> b] # NoRow
      BY BarAssumption
    <3> QED BY <2>3, <3>1 DEF EditBar, OperatorRowsRecorded, SavedIsVendors, HeldBy
  <2>4. CASE DeleteBar(d)
    BY <2>4 DEF DeleteBar, OperatorRowsRecorded, SavedIsVendors, HeldBy
  <2>5. CASE RevokeDelete(d)
    BY <2>5 DEF RevokeDelete, table, OperatorRowsRecorded, SavedIsVendors, HeldBy
  <2>6. CASE RevokeEdit(d)
    BY <2>6 DEF RevokeEdit, OperatorRowsRecorded, SavedIsVendors, HeldBy
  <2>7. CASE SharadarGate(d) \/ SharadarQuarantines(d)
    BY <1>1, <2>7 DEF SharadarGate, SharadarQuarantines, table, operator
  <2> QED BY <1>3, <2>1, <2>2, <2>3, <2>4, <2>5, <2>6, <2>7 DEF OtherStep
<1>4. ASSUME SharadarStops \/ \E s \in SplitDates : SplitOnFile(s)
      PROVE  OperatorRowsRecorded' /\ SavedIsVendors'
  BY <1>1, <1>4 DEF SharadarStops, SplitOnFile, table, operator
<1>5. CASE UNCHANGED vars
  BY <1>1, <1>5 DEF vars, table, operator
<1> QED BY <1>2, <1>3, <1>4, <1>5 DEF Next

(* Whatever sessions are in flight, an operator's bar is on file exactly while *)
(* an active edit records it, and that edit still holds the row to put back.   *)
THEOREM OperatorRowsAreRecorded == Spec => []OperatorRowsRecorded
<1>1. RecordInv => OperatorRowsRecorded
  BY DEF RecordInv
<1> QED BY <1>1, InitRecord, NextRecord, PTL DEF Spec

LEMMA ForeignStep ==
  ASSUME RecordInv, [Next]_vars, NEW d \in Days,
         HeldBy(d, "sharadar") \/ HeldBy(d, "operator"), HeldBy(d, "fmp")'
  PROVE  over[d] = "edit" /\ over'[d] = "none" /\ bars'[d] = saved[d]
<1>1. bars'[d] # bars[d] /\ bars[d].src # "fmp"
  BY DEF HeldBy
<1>2. ASSUME NEW l \in Loaders, LoadStep(l) PROVE FALSE
  <2>1. CASE Commit(l)
    BY <1>1, <2>1, CommitWrites DEF RecordInv
  <2>2. CASE ~Commit(l)
    BY <1>1, <1>2, <2>2, LoaderLeavesRows DEF LoadStep
  <2> QED BY <2>1, <2>2
<1>3. ASSUME NEW e \in Days, OtherStep(e)
      PROVE  over[d] = "edit" /\ over'[d] = "none" /\ bars'[d] = saved[d]
  <2> USE DEF RecordInv, TypeInv, TypeOK
  <2>1. CASE \E v \in Served : VendorChanges(e, v)
    BY <1>1, <2>1 DEF VendorChanges, table
  <2>2. CASE \E b \in Bar : SharadarWrites(e, b)
    BY <1>1, <2>2 DEF SharadarWrites, HeldBy
  <2>3. CASE \E b \in Bar : EditBar(e, b)
    BY <1>1, <2>3 DEF EditBar, HeldBy
  <2>4. CASE DeleteBar(e)
    BY <1>1, <2>4 DEF DeleteBar, HeldBy
  <2>5. CASE RevokeDelete(e)
    BY <1>1, <2>5 DEF RevokeDelete, table
  <2>6. CASE RevokeEdit(e)
    BY <1>1, <2>6 DEF RevokeEdit
  <2>7. CASE SharadarGate(e) \/ SharadarQuarantines(e)
    BY <1>1, <2>7 DEF SharadarGate, SharadarQuarantines, table
  <2> QED BY <1>3, <2>1, <2>2, <2>3, <2>4, <2>5, <2>6, <2>7 DEF OtherStep
<1>4. CASE SharadarStops \/ \E s \in SplitDates : SplitOnFile(s)
  BY <1>1, <1>4 DEF SharadarStops, SplitOnFile, table
<1>5. CASE UNCHANGED vars
  BY <1>1, <1>5 DEF vars, table
<1> QED BY <1>2, <1>3, <1>4, <1>5 DEF Next

(* No load, in whatever state of the table it commits, turns another party's *)
(* row into FMP's: only undoing an operator's edit does, and it puts back    *)
(* exactly the row that the edit replaced.                                   *)
THEOREM ForeignRowsAreKept == Spec => ForeignRowsKept
<1>1. RecordInv /\ [Next]_vars =>
        [\A d \in Days :
           (/\ HeldBy(d, "sharadar") \/ HeldBy(d, "operator")
            /\ HeldBy(d, "fmp")')
           => over[d] = "edit" /\ over'[d] = "none" /\ bars'[d] = saved[d]]_vars
  BY ForeignStep
<1> QED BY <1>1, InitRecord, NextRecord, PTL DEF Spec, ForeignRowsKept

-----------------------------------------------------------------------------
(* The watermark of a security that one session loads nightly *)

(* A load in flight read the window of the current watermark, and everything it *)
(* carries lies in that window.                                                 *)
WindowCurrent ==
  \A l \in Loaders : pc[l] # "idle" => lo[l] = WindowStart /\ hi[l] = MaxDay
WindowCarried ==
  \A l \in Loaders, d \in Days :
    /\ payload[l][d] # NoBar => pc[l] # "idle" /\ lo[l] <= d /\ d <= hi[l]
    /\ verdict[l][d] # "skip" => pc[l] = "judged" /\ lo[l] <= d /\ d <= hi[l]

(* Before the first watermark every read started at the backfill date. *)
PendingBackfilled == wm = 0 => \A d \in pending : d >= BackfillStart

HeldInv ==
  /\ TypeInv /\ WindowCurrent /\ WindowCarried /\ PendingBackfilled
  /\ HeldDatesRefetched

LEMMA InitHeld == Init => HeldInv
<1> SUFFICES ASSUME Init PROVE HeldInv
  OBVIOUS
<1>1. WindowCurrent
  BY DEF Init, WindowCurrent
<1>2. WindowCarried
  BY DEF Init, WindowCarried, Nothing, NoVerdict
<1>3. PendingBackfilled /\ HeldDatesRefetched
  BY DEF Init, PendingBackfilled, HeldDatesRefetched
<1> QED BY <1>1, <1>2, <1>3, InitTypes DEF HeldInv

(* A commit either leaves the watermark, or moves it to a date below every date *)
(* that still holds it, or finds no date holding it.                            *)
LEMMA WatermarkBelowHolds ==
  ASSUME TypeOK, NEW l \in Loaders, NEW d \in Holding(l)
  PROVE  NextWatermark(l) = wm \/ NextWatermark(l) < d
<1>1. d \in Quarantined(l) /\ d \in Days
  BY DEF Holding, Quarantined, Judged
<1>2. CASE SafeDates(l) # {}
  <2>1. SafeDates(l) \subseteq Days
    BY DEF SafeDates, Judged
  <2>2. MaxOf(SafeDates(l)) < d
    BY <1>2, <2>1, MaxOfDates DEF SafeDates
  <2> QED BY <1>2, <2>2 DEF NextWatermark, Greatest
<1>3. CASE SafeDates(l) = {}
  BY <1>1, <1>3 DEF NextWatermark
<1> QED BY <1>2, <1>3

LEMMA CommitHeld ==
  ASSUME HeldInv, \A j, k \in Loaders : j = k, NEW l \in Loaders, Commit(l)
  PROVE  HeldInv'
<1> USE DEF HeldInv, TypeInv
<1>1. TypeInv'
  BY CommitTypes
<1>2. pc[l] = "judged" /\ lo[l] = WindowStart /\ hi[l] = MaxDay
  BY DEF Commit, WindowCurrent
<1>3. wm \in 0..MaxDay /\ wm' \in 0..MaxDay /\ wm' >= wm /\ wm' = NextWatermark(l)
  BY WatermarkGrows DEF TypeOK, Commit
<1>4. Overlap \in Nat /\ MaxDay \in Nat /\ BackfillStart \in 1..MaxDay
  BY BoundsAssumption
<1>5. \A d \in Quarantined(l) : d \in Days /\ WindowStart <= d
  BY <1>2 DEF Quarantined, Judged, WindowCarried
<1>6. pending' = (pending \ (WindowStart..MaxDay)) \cup Quarantined(l)
  BY <1>2 DEF Commit
<1>7. WindowCurrent'
  BY DEF Commit, Reset, WindowCurrent, TypeOK
<1>8. WindowCarried'
  <2>1. \A k \in Loaders, d \in Days : payload'[k][d] = NoBar /\ verdict'[k][d] = "skip"
    BY DEF Commit, Reset, Nothing, NoVerdict, TypeOK
  <2> QED BY <2>1 DEF WindowCarried
<1>9. PendingBackfilled'
  BY <1>3, <1>4, <1>5, <1>6 DEF PendingBackfilled, WindowStart
<1>10. HeldDatesRefetched'
  <2>1. SUFFICES ASSUME NEW d \in pending', quar'[d] < MaxHolds
                 PROVE  wm' = 0 \/ d >= wm' - Overlap
    BY DEF HeldDatesRefetched
  <2>2. d \in Days
    BY <1>1 DEF TypeOK
  <2>3. quar'[d] = FlagCount(l, d)
    BY <2>2 DEF Commit
  <2>4. CASE d \in Quarantined(l)
    <3>1. d \in Holding(l)
      BY <2>1, <2>3, <2>4 DEF Holding
    <3>2. wm' = wm \/ wm' < d
      BY <1>3, <3>1, WatermarkBelowHolds
    <3> QED BY <1>3, <1>4, <1>5, <2>2, <2>4, <3>2 DEF WindowStart, Days
  <2>5. CASE d \notin Quarantined(l)
    <3>1. d \in pending /\ d < WindowStart
      BY <1>6, <2>2, <2>5, <1>3, <1>4 DEF Days, WindowStart
    <3>2. quar[d] < MaxHolds
      BY <2>1, <2>3, <2>5 DEF FlagCount
    <3>3. wm = 0 \/ d >= wm - Overlap
      BY <3>1, <3>2 DEF HeldDatesRefetched
    <3> QED BY <1>3, <1>4, <2>2, <3>1, <3>3 DEF WindowStart, Days, PendingBackfilled
  <2> QED BY <2>4, <2>5
<1> QED BY <1>1, <1>7, <1>8, <1>9, <1>10

LEMMA NextHeld ==
  ASSUME ~ExplicitLoads, \A j, k \in Loaders : j = k
  PROVE  HeldInv /\ [Next]_vars => HeldInv'
<1> SUFFICES ASSUME HeldInv, [Next]_vars PROVE HeldInv'
  OBVIOUS
<1> USE DEF HeldInv
<1>1. TypeInv'
  BY NextTypes
<1>2. ASSUME UNCHANGED <<quar, wm, pending>>
      PROVE  PendingBackfilled' /\ HeldDatesRefetched' /\ WindowStart' = WindowStart
  BY <1>2 DEF PendingBackfilled, HeldDatesRefetched, WindowStart
<1>3. ASSUME UNCHANGED <<quar, wm, pending, session>>
      PROVE  HeldInv'
  BY <1>1, <1>2, <1>3 DEF WindowCurrent, WindowCarried, session
<1>4. ASSUME NEW l \in Loaders, NightlyFetch(l) PROVE HeldInv'
  <2>1. UNCHANGED <<quar, wm, pending, verdict>>
    BY <1>4 DEF NightlyFetch, FetchWindow, table, history
  <2>2. FetchWindow(l, WindowStart, MaxDay, FALSE)
    BY <1>4 DEF NightlyFetch
  <2>3. WindowCurrent'
    BY <1>2, <2>1, <2>2 DEF FetchWindow, WindowCurrent, TypeInv, TypeOK
  <2>4. \A d \in Days : Answer(WindowStart, MaxDay)[d] # NoBar
                        => WindowStart <= d /\ d <= MaxDay
    BY BoundsAssumption DEF Answer, WindowStart, Days, TypeInv, TypeOK
  <2>5. WindowCarried'
    BY <2>1, <2>2, <2>4 DEF FetchWindow, WindowCarried, TypeInv, TypeOK
  <2> QED BY <1>1, <1>2, <2>1, <2>3, <2>5
<1>5. ASSUME NEW l \in Loaders, ReadOverrides(l) PROVE HeldInv'
  <2>1. UNCHANGED <<quar, wm, pending, verdict, lo, hi>>
    BY <1>5 DEF ReadOverrides, table, history
  <2>2. WindowCurrent' /\ WindowCarried'
    BY <1>2, <1>5, <2>1 DEF ReadOverrides, WindowCurrent, WindowCarried, TypeInv, TypeOK
  <2> QED BY <1>1, <1>2, <2>1, <2>2
<1>6. ASSUME NEW l \in Loaders, Judge(l) PROVE HeldInv'
  <2>1. UNCHANGED <<quar, wm, pending, lo, hi>>
    BY <1>6 DEF Judge, table, history
  <2>2. \A d \in Days : verdict'[l][d] # "skip" => payload[l][d] # NoBar
    <3>1. \A d \in Days : VerdictOf(d, NoBar, explicit[l]) = "skip"
      BY BarAssumption DEF VerdictOf
    <3> QED BY <1>6, <3>1 DEF Judge, TypeInv, TypeOK
  <2>3. WindowCarried'
    BY <1>6, <2>1, <2>2 DEF Judge, Nothing, WindowCarried, TypeInv, TypeOK
  <2>4. WindowCurrent'
    BY <1>2, <1>6, <2>1 DEF Judge, WindowCurrent, TypeInv, TypeOK
  <2> QED BY <1>1, <1>2, <2>1, <2>3, <2>4
<1>7. ASSUME NEW l \in Loaders, Fail(l) PROVE HeldInv'
  <2>1. UNCHANGED <<quar, wm, pending>>
    BY <1>7 DEF Fail, table, history
  <2>2. WindowCurrent'
    BY <1>2, <1>7, <2>1 DEF Fail, Reset, WindowCurrent, TypeInv, TypeOK
  <2>3. WindowCarried'
    BY <1>7 DEF Fail, Reset, Nothing, NoVerdict, WindowCarried, TypeInv, TypeOK
  <2> QED BY <1>1, <1>2, <2>1, <2>2, <2>3
<1>8. ASSUME NEW d \in Days, OtherStep(d) PROVE HeldInv'
  <2>1. CASE SharadarQuarantines(d)
    <3>1. UNCHANGED <<wm, pending, session>> /\ \A e \in Days : quar'[e] >= quar[e]
      BY <2>1, BoundsAssumption DEF SharadarQuarantines, history, TypeInv, TypeOK
    <3>2. PendingBackfilled' /\ WindowStart' = WindowStart
      BY <3>1 DEF PendingBackfilled, WindowStart
    <3>3. HeldDatesRefetched'
      <4>1. \A e \in pending : e \in Days /\ quar[e] \in Nat /\ quar'[e] \in Nat
        BY <1>1, <3>1, BoundsAssumption DEF TypeInv, TypeOK
      <4>2. \A e \in pending : quar'[e] < MaxHolds => quar[e] < MaxHolds
        BY <3>1, <4>1, BoundsAssumption
      <4> QED BY <3>1, <4>2 DEF HeldDatesRefetched
    <3> QED BY <1>1, <3>1, <3>2, <3>3 DEF WindowCurrent, WindowCarried, session
  <2>2. CASE ~SharadarQuarantines(d)
    BY <1>3, <1>8, <2>2 DEF OtherStep, VendorChanges, SharadarGate, SharadarWrites, EditBar,
                            DeleteBar, RevokeDelete, RevokeEdit, table, history
  <2> QED BY <2>1, <2>2
<1>9. ASSUME SharadarStops \/ \E s \in SplitDates : SplitOnFile(s) PROVE HeldInv'
  BY <1>3, <1>9 DEF SharadarStops, SplitOnFile, table, history
<1>10. CASE UNCHANGED vars
  BY <1>3, <1>10 DEF vars, table, history
<1>11. ASSUME NEW l \in Loaders, Commit(l) PROVE HeldInv'
  BY <1>11, CommitHeld
<1> QED BY <1>4, <1>5, <1>6, <1>7, <1>8, <1>9, <1>10, <1>11
        DEF Next, LoadStep, ExplicitFetch

(* One session that loads nightly leaves no permanent gap: a date whose latest  *)
(* read was quarantined stays inside the next load's window until its budget of *)
(* holds is spent.  Both assumptions are needed: price loads of an explicit     *)
(* window, or of two sessions at a time, move the watermark past such a date.   *)
THEOREM QuarantinedDatesAreRefetched ==
  ASSUME ~ExplicitLoads, \A j, k \in Loaders : j = k
  PROVE  Spec => []HeldDatesRefetched
<1>1. HeldInv => HeldDatesRefetched
  BY DEF HeldInv
<1>2. HeldInv /\ [Next]_vars => HeldInv'
  BY NextHeld
<1> QED BY <1>1, <1>2, InitHeld, PTL DEF Spec

-----------------------------------------------------------------------------
(* Stored prints under one session and no operator *)

(* What a judged load is about to write over FMP's own row, that row having been *)
(* in the table when it was judged, the guard has let pass.                      *)
GuardCurrent ==
  \A l \in Loaders, d \in Days :
    verdict[l][d] \in {"write", "foreign"} /\ HeldBy(d, "fmp")
      => explicit[l] \/ ~Restates(bars[d].bar, out[l][d])
SessionIdle ==
  \A l \in Loaders, d \in Days : verdict[l][d] # "skip" => pc[l] = "judged"

PrintInv == TypeInv /\ SessionIdle /\ GuardCurrent

LEMMA JudgeGuards ==
  ASSUME TypeInv, NEW d \in Days, NEW served \in Served, NEW e \in BOOLEAN,
         VerdictOf(d, served, e) \in {"write", "foreign"}, HeldBy(d, "fmp")
  PROVE  e \/ ~Restates(bars[d].bar, RowOf(d, served))
<1>1. bars[d].bar \in Bar
  BY DEF TypeInv, TypeOK, Stored, Row, HeldBy
<1>2. served \in Bar /\ (Restates(bars[d].bar, served) => e)
  <2>1. served # NoBar /\ served # BadBar
    BY BarAssumption DEF VerdictOf
  <2>2. served \in Bar
    BY <2>1 DEF Served
  <2> QED BY <2>1, <2>2 DEF VerdictOf, HeldBy
<1>3. RowOf(d, served) = Kept(bars[d].bar, served)
  BY <1>2 DEF RowOf
<1> QED BY <1>1, <1>2, <1>3, BarAssumption

LEMMA NextPrint ==
  ASSUME ~OperatorEdits, \A j, k \in Loaders : j = k
  PROVE  PrintInv /\ [Next]_vars => PrintInv'
<1> SUFFICES ASSUME PrintInv, [Next]_vars PROVE SessionIdle' /\ GuardCurrent'
  BY NextTypes DEF PrintInv
<1> USE DEF PrintInv, TypeInv, TypeOK
<1>1. ASSUME UNCHANGED <<bars, session>> PROVE SessionIdle' /\ GuardCurrent'
  BY <1>1 DEF SessionIdle, GuardCurrent, HeldBy, session
<1>2. ASSUME NEW l \in Loaders, NEW from, NEW to, NEW e, FetchWindow(l, from, to, e)
      PROVE  SessionIdle' /\ GuardCurrent'
  <2>1. UNCHANGED <<bars, verdict, out>> /\ \A d \in Days : verdict[l][d] = "skip"
    BY <1>2 DEF FetchWindow, table, SessionIdle
  <2> QED BY <1>2, <2>1 DEF FetchWindow, SessionIdle, GuardCurrent, HeldBy
<1>3. ASSUME NEW l \in Loaders, ReadOverrides(l) PROVE SessionIdle' /\ GuardCurrent'
  BY <1>3 DEF ReadOverrides, table, SessionIdle, GuardCurrent, HeldBy
<1>4. ASSUME NEW l \in Loaders, Judge(l) PROVE SessionIdle' /\ GuardCurrent'
  <2>1. UNCHANGED <<bars, explicit>> /\ pc'[l] = "judged"
    BY <1>4 DEF Judge, table
  <2>2. \A d \in Days :
          /\ verdict'[l][d] = VerdictOf(d, payload[l][d], explicit[l])
          /\ out'[l][d] = RowOf(d, payload[l][d])
          /\ payload[l][d] \in Served /\ explicit[l] \in BOOLEAN
    BY <1>4 DEF Judge
  <2>3. \A d \in Days :
          verdict'[l][d] \in {"write", "foreign"} /\ HeldBy(d, "fmp")
          => explicit[l] \/ ~Restates(bars[d].bar, out'[l][d])
    BY <2>2, JudgeGuards
  <2>4. \A d \in Days : HeldBy(d, "fmp")' = HeldBy(d, "fmp")
    BY <2>1 DEF HeldBy
  <2> QED BY <2>1, <2>3, <2>4 DEF SessionIdle, GuardCurrent
<1>5. ASSUME NEW l \in Loaders, Reset(l) PROVE SessionIdle' /\ GuardCurrent'
  <2>1. \A k \in Loaders, d \in Days : verdict'[k][d] = "skip"
    BY <1>5 DEF Reset, NoVerdict
  <2> QED BY <2>1 DEF SessionIdle, GuardCurrent
<1>6. ASSUME NEW d \in Days, NEW b \in Bar, SharadarWrites(d, b)
      PROVE  SessionIdle' /\ GuardCurrent'
  BY <1>6 DEF SharadarWrites, session, SessionIdle, GuardCurrent, HeldBy
<1>7. ASSUME NEW d \in Days, OtherStep(d) PROVE SessionIdle' /\ GuardCurrent'
  <2>1. CASE \E v \in Served : VendorChanges(d, v)
    BY <1>1, <2>1 DEF VendorChanges, table
  <2>2. CASE \E b \in Bar : SharadarWrites(d, b)
    BY <1>6, <2>2
  <2>3. CASE RevokeDelete(d) \/ DeleteBar(d) \/ RevokeEdit(d) \/ \E b \in Bar : EditBar(d, b)
    BY <2>3 DEF RevokeDelete, DeleteBar, RevokeEdit, EditBar
  <2>4. CASE SharadarGate(d) \/ SharadarQuarantines(d)
    BY <1>1, <2>4 DEF SharadarGate, SharadarQuarantines, table
  <2> QED BY <1>7, <2>1, <2>2, <2>3, <2>4 DEF OtherStep
<1>8. ASSUME SharadarStops \/ \E s \in SplitDates : SplitOnFile(s)
      PROVE  SessionIdle' /\ GuardCurrent'
  BY <1>1, <1>8 DEF SharadarStops, SplitOnFile, table
<1>9. CASE UNCHANGED vars
  BY <1>1, <1>9 DEF vars, table
<1> QED BY <1>2, <1>3, <1>4, <1>5, <1>7, <1>8, <1>9
        DEF Next, LoadStep, NightlyFetch, ExplicitFetch, Commit, Fail

LEMMA PrintStep ==
  ASSUME ~OperatorEdits, PrintInv, [Next]_vars, NEW d \in Days,
         HeldBy(d, "fmp"), HeldBy(d, "fmp")', Restates(bars[d].bar, bars'[d].bar),
         \A a \in Bar : ~Restates(a, a)
  PROVE  \E l \in Loaders : explicit[l] /\ pc[l] = "judged" /\ pc'[l] = "idle"
<1> USE DEF PrintInv, TypeInv, TypeOK
<1>1. bars'[d] # bars[d]
  <2>1. bars[d].bar \in Bar
    BY DEF HeldBy, Stored, Row
  <2> QED BY <2>1
<1>2. ASSUME NEW l \in Loaders, Commit(l)
      PROVE  explicit[l] /\ pc[l] = "judged" /\ pc'[l] = "idle"
  <2>1. d \in Upserted(l) /\ bars'[d].bar = out[l][d]
    BY <1>1, <1>2 DEF Commit
  <2>2. explicit[l]
    BY <2>1 DEF Upserted, Judged, GuardCurrent
  <2> QED BY <1>2, <2>2 DEF Commit, Reset
<1>3. ASSUME NEW l \in Loaders, LoadStep(l), ~Commit(l) PROVE FALSE
  BY <1>1, <1>3, LoaderLeavesRows DEF LoadStep
<1>4. ASSUME NEW e \in Days, OtherStep(e) PROVE FALSE
  BY <1>1, <1>4 DEF OtherStep, VendorChanges, SharadarGate, SharadarWrites,
                    SharadarQuarantines, EditBar, DeleteBar, RevokeDelete, RevokeEdit,
                    HeldBy, table
<1>5. CASE SharadarStops \/ \E s \in SplitDates : SplitOnFile(s)
  BY <1>1, <1>5 DEF SharadarStops, SplitOnFile, table
<1>6. CASE UNCHANGED vars
  BY <1>1, <1>6 DEF vars, table
<1> QED BY <1>2, <1>3, <1>4, <1>5, <1>6 DEF Next

(* While one session loads and no operator edits, no load but an explicit one  *)
(* replaces a stored print by a bar that restates it, for any guard under      *)
(* which a bar does not restate itself, and whatever is kept of the old row.   *)
THEOREM FirstPrintsAreKept ==
  ASSUME ~OperatorEdits, \A j, k \in Loaders : j = k, \A a \in Bar : ~Restates(a, a)
  PROVE  Spec => FirstPrintKept
<1>1. Init => PrintInv
  BY InitTypes DEF Init, PrintInv, SessionIdle, GuardCurrent, NoVerdict
<1>2. PrintInv /\ [Next]_vars => PrintInv'
  BY NextPrint
<1>3. PrintInv /\ [Next]_vars =>
        [\A d \in Days :
           (/\ HeldBy(d, "fmp") /\ HeldBy(d, "fmp")'
            /\ Restates(bars[d].bar, bars'[d].bar))
           => \E l \in Loaders : explicit[l] /\ pc[l] = "judged" /\ pc'[l] = "idle"]_vars
  BY PrintStep
<1> QED BY <1>1, <1>2, <1>3, PTL DEF Spec, FirstPrintKept

-----------------------------------------------------------------------------
(* The checks over the stored bars and their rechecks (Detectors) *)

LEMMA DayBounds == Day \subseteq 1..LastDay /\ Day \subseteq Nat /\ LastDay \in Nat /\ 0 \notin Day
BY DetectorsAssumption DEF Day

(* A set of days that is not empty has a first and a last one. *)
LEMMA DayExtremes ==
  ASSUME NEW S, S \subseteq Day, S # {}
  PROVE  /\ \E d \in S : \A e \in S : d <= e
         /\ \E d \in S : \A e \in S : e <= d
<1>1. S \subseteq 0..LastDay /\ S \subseteq Nat
  BY DayBounds DEF Day
<1> QED BY <1>1, DayBounds, LeastElement, GreatestElement

(* A set of days is finite, and the days of one can be counted. *)
LEMMA DaysCount ==
  ASSUME NEW S, S \subseteq Day
  PROVE  IsFiniteSet(S) /\ Cardinality(S) \in Nat /\ (S = {} => Cardinality(S) = 0)
<1>1. IsFiniteSet(Day)
  BY DetectorsAssumption, FS_Interval DEF Day
<1>2. IsFiniteSet(S)
  BY <1>1, FS_Subset
<1> QED BY <1>2, FS_CardinalityType, FS_EmptySet

(* The ends of a security's own bars. *)
LEMMA Ends ==
  ASSUME NEW s \in Watched, Bars(s) # {}
  PROVE  /\ FirstBar(s) \in Bars(s) /\ LastBar(s) \in Bars(s)
         /\ FirstBar(s) \in Day /\ LastBar(s) \in Day
         /\ \A d \in Bars(s) : FirstBar(s) <= d /\ d <= LastBar(s)
<1>1. Bars(s) \subseteq Day
  BY DEF Bars
<1>2. /\ \E d \in Bars(s) : \A e \in Bars(s) : d <= e
      /\ \E d \in Bars(s) : \A e \in Bars(s) : e <= d
  BY <1>1, DayExtremes
<1>3. FirstBar(s) \in Bars(s) /\ \A e \in Bars(s) : FirstBar(s) <= e
  BY <1>2 DEF FirstBar
<1>4. LastBar(s) \in Bars(s) /\ \A e \in Bars(s) : e <= LastBar(s)
  BY <1>2 DEF LastBar
<1> QED BY <1>1, <1>3, <1>4

(* Once a session was dealt on, the cutoff is a day: there are sessions up to the      *)
(* newest, and the last n of them have a first.                                       *)
LEMMA CutoffIsDay ==
  ASSUME calendar \subseteq Day, Dealt # {}, NEW n \in Nat \ {0}
  PROVE  Cutoff(n) \in Day
<1> DEFINE after(d) == {e \in Past : d < e}
           last == {d \in Past : Cardinality(after(d)) < n}
<1>1. Dealt \subseteq Day /\ Dealt \subseteq calendar
  BY DEF Dealt
<1>2. Latest \in Dealt
  <2>1. \E d \in Dealt : \A e \in Dealt : e <= d
    BY <1>1, DayExtremes
  <2> QED BY <2>1 DEF Latest
<1>3. Latest \in Past /\ Past \subseteq Day /\ \A e \in Past : e <= Latest
  <2>1. Latest \in Day /\ Latest \in calendar
    BY <1>1, <1>2
  <2>2. Latest <= Latest
    BY <2>1, DayBounds
  <2> QED BY <2>1, <2>2 DEF Past
<1>4. after(Latest) = {}
  <2> SUFFICES ASSUME NEW e \in Past, Latest < e PROVE FALSE
    OBVIOUS
  <2> QED BY <1>3, DayBounds
<1>5. Cardinality(after(Latest)) = 0
  <2>1. {} \subseteq Day
    OBVIOUS
  <2> QED BY <1>4, <2>1, DaysCount
<1>6. Latest \in last /\ last \subseteq Day
  BY <1>3, <1>5
<1>7. \E d \in last : \A e \in last : d <= e
  <2> HIDE DEF last
  <2> QED BY <1>6, DayExtremes
<1>8. \E d \in Past : /\ Cardinality(after(d)) < n
                      /\ \A e \in Past : Cardinality(after(e)) < n => d <= e
  <2>1. PICK d \in last : \A e \in last : d <= e
    BY <1>7
  <2>2. \A e \in Past : Cardinality(after(e)) < n => d <= e
    BY <2>1
  <2> QED BY <2>1, <2>2
<1>9. Cutoff(n) \in Past
  BY <1>8 DEF Cutoff
<1> QED BY <1>3, <1>9

LEMMA RequiredIs == \A s \in Watched : Required(s) \in Nat \ {0}
BY DetectorsAssumption DEF Required

(* What each check finds is its own. *)
LEMMA EmittedIs ==
  ASSUME NEW c \in Emitted
  PROVE  /\ c.check = "gap" <=> c \in GapsFound
         /\ c.check = "sparse_coverage" <=> c \in SparseFound
         /\ c.check = "outlier" <=> c \in OutliersFound
         /\ c.check = "stale" <=> c \in StaleFound
         /\ c.check = "security_missing_classification" <=> c \in UnclassifiedFound
         /\ c.check = "security_duplicate_identity" <=> c \in ForksFound
         /\ c.check = "dividend_no_prior_close" <=> c \in UnpricedDividends
<1>1. /\ c \in GapsFound => c.check = "gap"
      /\ c \in SparseFound => c.check = "sparse_coverage"
      /\ c \in OutliersFound => c.check = "outlier"
      /\ c \in StaleFound => c.check = "stale"
      /\ c \in UnclassifiedFound => c.check = "security_missing_classification"
      /\ c \in ForksFound => c.check = "security_duplicate_identity"
      /\ c \in UnpricedDividends => c.check = "dividend_no_prior_close"
  BY DEF GapsFound, Gaps, SparseFound, OutliersFound, StaleFound, UnclassifiedFound,
         ForksFound, UnpricedDividends, Of
<1> QED BY <1>1 DEF Emitted, RunFinds

(* A flag is its check, its security and its key. *)
LEMMA FlagIs ==
  ASSUME DetectTypeOK, NEW f \in queue
  PROVE  /\ f = Of(f.check, f.sec, f.key)
         /\ f.sec \in Watched /\ f.check \in Checks
BY DEF DetectTypeOK, Condition, Of

LEMMA OfFields ==
  \A c, s, k : Of(c, s, k).check = c /\ Of(c, s, k).sec = s /\ Of(c, s, k).key = k
BY DEF Of

LEMMA OfSame ==
  \A c, s, k, a, b, d : Of(c, s, k) = Of(a, b, d) <=> (c = a /\ s = b /\ k = d)
BY OfFields

LEMMA WindowCount ==
  ASSUME calendar \subseteq Day, NEW s
  PROVE  /\ SessionsOf(s) \subseteq Day /\ Cardinality(SessionsOf(s)) \in Nat
         /\ SessionsOf(s) = {} => Cardinality(SessionsOf(s)) = 0
<1>1. SessionsOf(s) \subseteq Day
  BY DEF SessionsOf
<1> QED BY <1>1, DaysCount

(* check_gaps and _GAP_SQL. *)
LEMMA GapRecheck ==
  ASSUME DetectTypeOK, NEW f \in queue, f.check = "gap"
  PROVE  f \in GapsFound <=> ~GapGone(f)
<1> DEFINE s == f.sec
           d == f.key
<1>1. s \in Watched /\ d \in Day /\ f = Of("gap", s, d) /\ calendar \subseteq Day
  BY FlagIs DEF DetectTypeOK
<1>2. f \in GapsFound <=> /\ s \in Covered /\ Dense(s)
                          /\ d \in SessionsOf(s) /\ barOf[s][d] = NoClose
  <2>1. f \in Gaps <=> s \in Covered /\ Dense(s)
    BY <1>1, OfSame DEF Gaps, Covered
  <2> QED BY <2>1 DEF GapsFound
<1>3. Cardinality(SessionsOf(s)) \in Nat /\ MinSessions \in Nat
  BY <1>1, WindowCount, DetectorsAssumption
<1>4. Dense(s) <=> ~(Cardinality(SessionsOf(s)) >= MinSessions /\ Thin(s))
  BY <1>3 DEF Dense
<1>5. d \in Bars(s) <=> barOf[s][d] # NoClose
  BY <1>1 DEF Bars
<1>6. s \in Covered <=> Bars(s) # {} /\ SessionsOf(s) # {}
  BY <1>1 DEF Covered
<1>7. CASE Bars(s) = {}
  BY <1>2, <1>6, <1>7 DEF GapGone
<1>8. CASE Bars(s) # {}
  <2>1. FirstBar(s) \in Nat /\ LastBar(s) \in Nat /\ d \in Nat
    BY <1>1, <1>8, Ends, DayBounds
  <2>2. d \in SessionsOf(s) <=> d \in calendar /\ ~(d < FirstBar(s)) /\ ~(d > LastBar(s))
    BY <2>1 DEF SessionsOf
  <2> QED BY <1>2, <1>4, <1>5, <1>6, <1>8, <2>2 DEF GapGone
<1> QED BY <1>7, <1>8

(* check_gaps and _SPARSE_SQL: but for a security without bars, which the recheck's    *)
(* join leaves out.                                                                   *)
LEMMA SparseRecheck ==
  ASSUME DetectTypeOK, NEW f \in queue, f.check = "sparse_coverage"
  PROVE  f \in SparseFound <=> ~SparseGone(f) /\ Bars(f.sec) # {}
<1> DEFINE s == f.sec
<1>1. s \in Watched /\ f = Of("sparse_coverage", s, NoKey) /\ calendar \subseteq Day
  BY FlagIs DEF DetectTypeOK
<1>2. f \in SparseFound <=> /\ Bars(s) # {} /\ SessionsOf(s) # {}
                            /\ Cardinality(SessionsOf(s)) >= MinSessions /\ Thin(s)
  BY <1>1, OfSame DEF SparseFound, Covered
<1>3. /\ Cardinality(SessionsOf(s)) \in Nat /\ MinSessions \in Nat /\ MinSessions # 0
      /\ SessionsOf(s) = {} => Cardinality(SessionsOf(s)) = 0
  BY <1>1, WindowCount, DetectorsAssumption
<1>4. Cardinality(SessionsOf(s)) < MinSessions <=> ~(Cardinality(SessionsOf(s)) >= MinSessions)
  BY <1>3
<1>5. SessionsOf(s) = {} => Cardinality(SessionsOf(s)) < MinSessions
  BY <1>3
<1> QED BY <1>2, <1>4, <1>5 DEF SparseGone

(* check_outliers and _OUTLIER_SQL: the bar before in the order of the dates is the   *)
(* last one before the date.                                                          *)
LEMMA OutlierRecheck ==
  ASSUME DetectTypeOK, NEW f \in queue, f.check = "outlier"
  PROVE  f \in OutliersFound <=> ~OutlierGone(f)
<1> DEFINE s == f.sec
           d == f.key
           before == {e \in Bars(s) : e < d}
           prior == CHOOSE e \in before : \A c \in before : c <= e
<1>1. s \in Watched /\ d \in Day /\ f = Of("outlier", s, d)
  BY FlagIs DEF DetectTypeOK
<1>2. f \in OutliersFound <=>
        /\ \E p \in Adjacent(s) : p[2] = d /\ Jumps(barOf[s][p[1]], barOf[s][p[2]])
        /\ <<s, d>> \notin splitOn
  BY <1>1 DEF OutliersFound
<1>3. Bars(s) \subseteq Day /\ before \subseteq Day
  BY DEF Bars
<1>4. \A e \in Bars(s) : <<e, d>> \in Adjacent(s) <=> /\ d \in Bars(s) /\ e \in before
                                                       /\ \A c \in before : c <= e
  <2> SUFFICES ASSUME NEW e \in Bars(s)
               PROVE  <<e, d>> \in Adjacent(s) <=> /\ d \in Bars(s) /\ e \in before
                                                   /\ \A c \in before : c <= e
    OBVIOUS
  <2>1. e \in Nat /\ \A c \in Bars(s) : c \in Nat
    BY <1>3, DayBounds
  <2>2. (\A c \in Bars(s) : ~(e < c /\ c < d)) <=> (\A c \in before : c <= e)
    BY <2>1
  <2> QED BY <2>2 DEF Adjacent
<1>5. before # {} => prior \in before /\ \A c \in before : c <= prior
  <2> HIDE DEF before
  <2>1. before # {} => \E e \in before : \A c \in before : c <= e
    BY <1>3, DayExtremes
  <2> QED BY <2>1
<1>6. \A e, c \in before : e <= c /\ c <= e => e = c
  <2>1. before \subseteq Nat
    BY <1>3, DayBounds
  <2> HIDE DEF before
  <2> QED BY <2>1
<1>7. (\E p \in Adjacent(s) : p[2] = d /\ Jumps(barOf[s][p[1]], barOf[s][p[2]]))
        <=> d \in Bars(s) /\ before # {} /\ Jumps(barOf[s][prior], barOf[s][d])
  <2>1. ASSUME NEW p \in Adjacent(s), p[2] = d, Jumps(barOf[s][p[1]], barOf[s][p[2]])
        PROVE  d \in Bars(s) /\ before # {} /\ Jumps(barOf[s][prior], barOf[s][d])
    <3>1. p[1] \in Bars(s) /\ p = <<p[1], d>>
      BY <2>1 DEF Adjacent
    <3>2. <<p[1], d>> \in Adjacent(s)
      BY <2>1, <3>1
    <3>3. d \in Bars(s) /\ p[1] \in before /\ \A c \in before : c <= p[1]
      BY <1>4, <3>1, <3>2
    <3> HIDE DEF before, prior
    <3>4. p[1] = prior
      BY <1>5, <1>6, <3>3
    <3> QED BY <2>1, <3>3, <3>4
  <2>2. ASSUME d \in Bars(s), before # {}, Jumps(barOf[s][prior], barOf[s][d])
        PROVE  \E p \in Adjacent(s) : p[2] = d /\ Jumps(barOf[s][p[1]], barOf[s][p[2]])
    <3>1. prior \in before /\ \A c \in before : c <= prior
      BY <1>5, <2>2
    <3>2. prior \in Bars(s)
      BY <3>1
    <3> HIDE DEF prior
    <3>3. <<prior, d>> \in Adjacent(s)
      BY <1>4, <2>2, <3>1, <3>2
    <3> WITNESS <<prior, d>> \in Adjacent(s)
    <3> QED BY <2>2
  <2> HIDE DEF before, prior
  <2> QED BY <2>1, <2>2
<1>8. OutlierGone(f) <=> \/ d \notin Bars(s) \/ before = {}
                         \/ ~Jumps(barOf[s][prior], barOf[s][d]) \/ <<s, d>> \in splitOn
  BY DEF OutlierGone
<1> HIDE DEF before, prior
<1> QED BY <1>2, <1>7, <1>8

(* check_freshness and _STALE_SQL: but for a security that lost its bars or whose last *)
(* one went back, and a market without a session.                                     *)
LEMMA StaleRecheck ==
  ASSUME DetectTypeOK, NEW f \in queue, f.check = "stale"
  PROVE  /\ f \in StaleFound => ~StaleGone(f)
         /\ f \notin StaleFound => StaleGone(f) \/ Dealt = {} \/ LastOrNone(f.sec) < f.key
<1> DEFINE s == f.sec
           d == f.key
           cut == Cutoff(Required(s))
<1>1. s \in Watched /\ d \in Day /\ f = Of("stale", s, d) /\ calendar \subseteq Day
  BY FlagIs DEF DetectTypeOK
<1>2. f \in StaleFound <=> /\ master[s].act /\ Bars(s) # {} /\ d = LastBar(s)
                           /\ Dealt # {} /\ LastBar(s) < cut
  BY <1>1 DEF StaleFound
<1>3. d \in Nat /\ d # 0
  BY <1>1, DayBounds
<1>4. Dealt # {} => cut \in Nat
  BY <1>1, RequiredIs, CutoffIsDay, DayBounds
<1>5. /\ LastOrNone(s) \in Nat
      /\ Bars(s) # {} => LastOrNone(s) = LastBar(s)
      /\ Bars(s) = {} => LastOrNone(s) = 0
  BY <1>1, Ends, DayBounds DEF LastOrNone
<1> HIDE DEF cut
<1>6. StaleGone(f) <=> \/ ~master[s].act \/ LastOrNone(s) > d
                       \/ Dealt # {} /\ LastOrNone(s) >= cut
  BY DEF StaleGone, cut
<1>7. ASSUME f \in StaleFound PROVE ~StaleGone(f)
  BY <1>2, <1>3, <1>4, <1>5, <1>6, <1>7
<1>8. ASSUME f \notin StaleFound, ~StaleGone(f), Dealt # {}, ~(LastOrNone(s) < d) PROVE FALSE
  <2>1. master[s].act /\ LastOrNone(s) = d /\ LastOrNone(s) < cut
    BY <1>3, <1>4, <1>5, <1>6, <1>8
  <2>2. Bars(s) # {}
    BY <1>3, <1>5, <2>1
  <2> QED BY <1>2, <1>5, <1>8, <2>1, <2>2
<1> QED BY <1>7, <1>8

LEMMA ClassificationRecheck ==
  ASSUME DetectTypeOK, NEW f \in queue, f.check = "security_missing_classification"
  PROVE  f \in UnclassifiedFound <=> ~ClassificationGone(f)
<1>1. f.sec \in Watched /\ f = Of("security_missing_classification", f.sec, NoKey)
  BY FlagIs DEF DetectTypeOK
<1> QED BY <1>1, OfSame DEF UnclassifiedFound, ClassificationGone

(* compute_adjustments and _DIVIDEND_SQL: but for a dividend no longer on file. *)
LEMMA DividendRecheck ==
  ASSUME DetectTypeOK, NEW f \in queue, f.check = "dividend_no_prior_close"
  PROVE  f \in UnpricedDividends <=> ~DividendGone(f) /\ <<f.sec, f.key>> \in cashOn
<1>1. /\ f.sec \in Watched /\ f = Of("dividend_no_prior_close", f.sec, f.key)
      /\ cashOn \subseteq Watched \X Day
  BY FlagIs DEF DetectTypeOK
<1>2. \A p \in cashOn : Of("dividend_no_prior_close", p[1], p[2]) = f
                          <=> p = <<f.sec, f.key>>
  BY <1>1, OfSame
<1>3. f \in UnpricedDividends <=> /\ <<f.sec, f.key>> \in cashOn
                                  /\ \A d \in Bars(f.sec) : ~(d < f.key)
  BY <1>1, <1>2 DEF UnpricedDividends
<1> QED BY <1>3 DEF DividendGone

(* A recheck closes exactly what its check would not write any more, but for what it  *)
(* overlooks.                                                                         *)
LEMMA RechecksAgree ==
  ASSUME DetectTypeOK
  PROVE  RecheckAgrees
<1> SUFFICES ASSUME NEW f \in queue, f.check # "security_duplicate_identity"
             PROVE  /\ ConditionGone(f) => f \notin Emitted
                    /\ f \notin Emitted => ConditionGone(f) \/ Overlooked(f)
  BY DEF RecheckAgrees
<1>1. f.check \in Checks
  BY FlagIs
<1>2. CASE f.check = "gap"
  <2>1. f \in Emitted <=> f \in GapsFound
    BY <1>2, EmittedIs DEF Emitted, RunFinds
  <2>2. ConditionGone(f) <=> GapGone(f)
    BY <1>2 DEF ConditionGone
  <2> QED BY <1>2, <2>1, <2>2, GapRecheck
<1>3. CASE f.check = "sparse_coverage"
  <2>1. f \in Emitted <=> f \in SparseFound
    BY <1>3, EmittedIs DEF Emitted, RunFinds
  <2>2. ConditionGone(f) <=> SparseGone(f)
    BY <1>3 DEF ConditionGone
  <2> QED BY <1>3, <2>1, <2>2, SparseRecheck DEF Overlooked
<1>4. CASE f.check = "outlier"
  <2>1. f \in Emitted <=> f \in OutliersFound
    BY <1>4, EmittedIs DEF Emitted, RunFinds
  <2>2. ConditionGone(f) <=> OutlierGone(f)
    BY <1>4 DEF ConditionGone
  <2> QED BY <1>4, <2>1, <2>2, OutlierRecheck
<1>5. CASE f.check = "stale"
  <2>1. f \in Emitted <=> f \in StaleFound
    BY <1>5, EmittedIs DEF Emitted, RunFinds
  <2>2. ConditionGone(f) <=> StaleGone(f)
    BY <1>5 DEF ConditionGone
  <2> QED BY <1>5, <2>1, <2>2, StaleRecheck DEF Overlooked
<1>6. CASE f.check = "dividend_no_prior_close"
  <2>1. f \in Emitted <=> f \in UnpricedDividends
    BY <1>6, EmittedIs DEF Emitted, RunFinds
  <2>2. ConditionGone(f) <=> DividendGone(f)
    BY <1>6 DEF ConditionGone
  <2> QED BY <1>6, <2>1, <2>2, DividendRecheck DEF Overlooked
<1>7. CASE f.check = "security_missing_classification"
  <2>1. f \in Emitted <=> f \in UnclassifiedFound
    BY <1>7, EmittedIs DEF Emitted, RunFinds
  <2>2. ConditionGone(f) <=> ClassificationGone(f)
    BY <1>7 DEF ConditionGone
  <2> QED BY <1>7, <2>1, <2>2, ClassificationRecheck
<1> QED BY <1>1, <1>2, <1>3, <1>4, <1>5, <1>6, <1>7 DEF Checks

LEMMA EndsOfFork ==
  ASSUME NEW T, T \subseteq Watched, Cardinality(T) > 1
  PROVE  Min(T) \in Watched
<1>1. T # {}
  BY FS_EmptySet
<1>2. T \subseteq Nat
  BY DetectorsAssumption
<1>3. \E x \in T : \A y \in T : x <= y
  BY <1>1, <1>2, LeastElement
<1> QED BY <1>3 DEF Min

(* What the checks find are conditions, each keyed as its check keys it. *)
LEMMA FoundTyped ==
  ASSUME DetectTypeOK, NEW c \in Emitted
  PROVE  /\ c \in Condition
         /\ c.check \in {"gap", "outlier", "stale", "dividend_no_prior_close"} => c.key \in Day
         /\ c.check \in {"sparse_coverage", "security_missing_classification"} => c.key = NoKey
<1>1. \A k \in Checks, s \in Watched, y \in Day \cup Symbols \cup {NoKey} :
        Of(k, s, y) \in Condition
  BY DEF Of, Condition
<1>2. CASE c \in GapsFound
  <2>1. PICK s \in Watched, d \in Day : c = Of("gap", s, d)
    BY <1>2 DEF GapsFound, Gaps, Covered
  <2> QED BY <1>1, <2>1, OfFields DEF Checks
<1>3. CASE c \in SparseFound
  <2>1. PICK s \in Watched : c = Of("sparse_coverage", s, NoKey)
    BY <1>3 DEF SparseFound, Covered
  <2> QED BY <1>1, <2>1, OfFields DEF Checks
<1>4. CASE c \in OutliersFound
  <2>1. PICK s \in Watched, d \in Day : c = Of("outlier", s, d)
    BY <1>4 DEF OutliersFound
  <2> QED BY <1>1, <2>1, OfFields DEF Checks
<1>5. CASE c \in StaleFound
  <2>1. PICK s \in Watched, d \in Day : c = Of("stale", s, d)
    BY <1>5 DEF StaleFound
  <2> QED BY <1>1, <2>1, OfFields DEF Checks
<1>6. CASE c \in UnclassifiedFound
  <2>1. PICK s \in Watched : c = Of("security_missing_classification", s, NoKey)
    BY <1>6 DEF UnclassifiedFound
  <2> QED BY <1>1, <2>1, OfFields DEF Checks
<1>7. CASE c \in ForksFound
  <2>1. PICK y \in Symbols : /\ Cardinality(Forked(y)) > 1
                             /\ c = Of("security_duplicate_identity", Min(Forked(y)), y)
    BY <1>7 DEF ForksFound
  <2>2. Min(Forked(y)) \in Watched
    BY <2>1, EndsOfFork DEF Forked
  <2> QED BY <1>1, <2>1, <2>2, OfFields DEF Checks
<1>8. CASE c \in UnpricedDividends
  <2>1. PICK p \in cashOn : c = Of("dividend_no_prior_close", p[1], p[2])
    BY <1>8 DEF UnpricedDividends
  <2>2. p[1] \in Watched /\ p[2] \in Day /\ p = <<p[1], p[2]>>
    BY <2>1 DEF DetectTypeOK
  <2> QED BY <1>1, <2>1, <2>2, OfFields DEF Checks
<1> QED BY <1>2, <1>3, <1>4, <1>5, <1>6, <1>7, <1>8 DEF Emitted, RunFinds

LEMMA DetectStart == DetectInit => DetectTypeOK
BY DetectorsAssumption DEF DetectInit, DetectTypeOK

(* A step that writes flags writes what its checks find. *)
LEMMA FlagsWritten ==
  ASSUME DetectTypeOK, NEW left, left \subseteq queue, NEW found, found \subseteq Emitted,
         queue' = left \cup Fresh(found), cashOn' \subseteq cashOn, changes' \in Nat,
         UNCHANGED <<barOf, calendar, splitOn, master>>
  PROVE  DetectTypeOK'
<1>1. \A c \in queue' :
        /\ c \in Condition
        /\ c.check \in {"gap", "outlier", "stale", "dividend_no_prior_close"} => c.key \in Day
        /\ c.check \in {"sparse_coverage", "security_missing_classification"} => c.key = NoKey
  <2>1. \A c \in queue' : c \in queue \/ c \in Emitted
    BY DEF Fresh
  <2> QED BY <2>1, FoundTyped DEF DetectTypeOK
<1> QED BY <1>1 DEF DetectTypeOK

LEMMA DetectStep == DetectTypeOK /\ [DetectNext]_checked => DetectTypeOK'
<1> SUFFICES ASSUME DetectTypeOK, [DetectNext]_checked PROVE DetectTypeOK'
  OBVIOUS
<1> USE DEF Changed
<1>1. CASE DqRun
  <2>1. /\ queue' = queue \cup Fresh(RunFinds) /\ RunFinds \subseteq Emitted
        /\ UNCHANGED <<barOf, calendar, splitOn, cashOn, master, changes>>
    BY <1>1 DEF DqRun, warehouse, Emitted
  <2>2. changes' \in Nat
    BY <2>1 DEF DetectTypeOK
  <2> QED BY <2>1, <2>2, FlagsWritten
<1>2. ASSUME NEW T \in SUBSET Watched, Adjust(T) PROVE DetectTypeOK'
  <2> DEFINE found == {c \in UnpricedDividends : c.sec \in T}
  <2>1. /\ queue' = queue \cup Fresh(found) /\ found \subseteq Emitted
        /\ UNCHANGED <<barOf, calendar, splitOn, cashOn, master, changes>>
    BY <1>2 DEF Adjust, warehouse, Emitted
  <2>2. changes' \in Nat
    BY <2>1 DEF DetectTypeOK
  <2> HIDE DEF found
  <2> QED BY <2>1, <2>2, FlagsWritten
<1>3. CASE Recheck
  <2>1. queue' \subseteq queue /\ UNCHANGED <<barOf, calendar, splitOn, cashOn, master, changes>>
    BY <1>3 DEF Recheck, warehouse
  <2> QED BY <2>1 DEF DetectTypeOK
<1>4. ASSUME NEW s \in Watched, NEW d \in Day, NEW v \in CloseValues \cup {NoClose},
             BarChanges(s, d, v)
      PROVE  DetectTypeOK'
  <2>1. barOf' = [barOf EXCEPT ![s][d] = v] /\ changes' \in Nat
        /\ UNCHANGED <<calendar, splitOn, cashOn, master, queue>>
    BY <1>4 DEF BarChanges, DetectTypeOK
  <2>2. barOf' \in [Watched -> [Day -> CloseValues \cup {NoClose}]]
    BY <2>1 DEF DetectTypeOK
  <2> QED BY <2>1, <2>2 DEF DetectTypeOK
<1>5. ASSUME NEW s \in Watched, NEW d \in Day, SplitChanges(s, d) PROVE DetectTypeOK'
  <2>1. splitOn' \subseteq Watched \X Day /\ changes' \in Nat
        /\ UNCHANGED <<barOf, calendar, cashOn, master, queue>>
    BY <1>5 DEF SplitChanges, DetectTypeOK
  <2> QED BY <2>1 DEF DetectTypeOK
<1>6. ASSUME NEW s \in Watched, NEW d \in Day, DividendChanges(s, d) PROVE DetectTypeOK'
  <2>1. /\ cashOn' \subseteq Watched \X Day /\ changes' \in Nat
        /\ UNCHANGED <<barOf, calendar, splitOn, master, queue>>
    BY <1>6 DEF DividendChanges, DetectTypeOK
  <2> QED BY <2>1 DEF DetectTypeOK
<1>7. ASSUME NEW s \in Watched, NEW d \in Day, DividendPruned(s, d) PROVE DetectTypeOK'
  <2> DEFINE left == queue \ {Of("dividend_no_prior_close", s, d)}
             found == {c \in UnpricedDividends : c.sec = s /\ c.key # d /\ Bars(s) # {}}
  <2>1. /\ queue' = left \cup Fresh(found) /\ found \subseteq Emitted /\ left \subseteq queue
        /\ cashOn' \subseteq cashOn /\ changes' \in Nat
        /\ UNCHANGED <<barOf, calendar, splitOn, master>>
    BY <1>7 DEF DividendPruned, Emitted, DetectTypeOK
  <2> HIDE DEF left, found
  <2> QED BY <2>1, FlagsWritten
<1>8. ASSUME NEW d \in Day, CalendarChanges(d) PROVE DetectTypeOK'
  <2>1. calendar' \subseteq Day /\ changes' \in Nat
        /\ UNCHANGED <<barOf, splitOn, cashOn, master, queue>>
    BY <1>8 DEF CalendarChanges, DetectTypeOK
  <2> QED BY <2>1 DEF DetectTypeOK
<1>9. ASSUME NEW s \in Watched, MasterChanges(s) PROVE DetectTypeOK'
  <2>1. PICK m \in Refreshed(master[s]) : master' = [master EXCEPT ![s] = m]
    BY <1>9 DEF MasterChanges
  <2>2. master[s] \in Master
    BY DEF DetectTypeOK
  <2>3. m \in Master
    BY <2>1, <2>2 DEF Refreshed, Master
  <2>4. master' \in [Watched -> Master]
    BY <2>1, <2>3 DEF DetectTypeOK
  <2>5. changes' \in Nat /\ UNCHANGED <<barOf, calendar, splitOn, cashOn, queue>>
    BY <1>9 DEF MasterChanges, DetectTypeOK
  <2> QED BY <2>4, <2>5 DEF DetectTypeOK
<1>10. CASE UNCHANGED checked
  BY <1>10 DEF checked, warehouse, DetectTypeOK
<1> QED BY <1>1, <1>2, <1>3, <1>4, <1>5, <1>6, <1>7, <1>8, <1>9, <1>10
        DEF DetectNext, WarehouseStep

(* For every warehouse, calendar and threshold, and however it changed since the flag *)
(* was written, a dividend's removal included, a recheck closes an open flag exactly   *)
(* when its check would not write it any more, but for what it overlooks (recheck.py). *)
THEOREM RechecksAlwaysAgree == DetectSpec => []RecheckAgrees
<1>1. DetectTypeOK => RecheckAgrees
  BY RechecksAgree
<1> QED BY <1>1, DetectStart, DetectStep, PTL DEF DetectSpec
=============================================================================
