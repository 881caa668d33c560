-------------------------- MODULE PrecedenceProofs --------------------------
(* What the shared bar table guarantees for any vendors, ranks, sessions and  *)
(* keys: a write never lowers a row's rank, an operator's row stands while    *)
(* its edit does, and, when nothing else writes during a session, the code    *)
(* implements the audited table of AuditedRows.  And what the nightly checks  *)
(* over the statements guarantee for any that obey the unique indexes.        *)
EXTENDS Precedence, StatementChecks, FiniteSetTheorems, TLAPS, WellFoundedInduction

(* What a session is going to write it brought, and what an edit took it kept. *)
Carried ==
  \A w \in Sessions, k \in Keys :
    /\ held[w][k] # Nothing => want[w][k] \in Values /\ pc[w] = "read"
    /\ held[w][k] \in VendorRow \cup {NoRow, Nothing}
EditsKept ==
  \A k \in Keys : /\ over[k] = "edit" => kept[k] \in VendorRow
                  /\ over[k] = "edit" <=> (rows[k] # NoRow /\ rows[k].src = Operator)
LogEntry == [old : VendorRow, new : VendorRow, open : BOOLEAN]

Inv == TypeOK /\ Carried /\ EditsKept

LEMMA RowKinds ==
  /\ NoRow \notin Row /\ NoRow \notin VendorRow /\ VendorRow \subseteq Row
  /\ \A r \in Row : r \in VendorRow <=> r.src # Operator
  /\ \A v \in Values : [src |-> Operator, val |-> v] \in Row
  /\ Nothing \notin Row /\ Nothing # NoRow /\ Nothing \notin Values
BY NoRowAssumption, RankAssumption, NothingAssumption
   DEF Row, VendorRow, Sources

LEMMA InitInv == Init => Inv
<1> SUFFICES ASSUME Init PROVE Inv
  OBVIOUS
<1>1. << >> \in Seq(LogEntry)
  OBVIOUS
<1>2. TypeOK
  BY <1>1 DEF Init, ARInit, TypeOK, NoWant, Plans, LogEntry
<1>3. Carried /\ EditsKept
  BY DEF Init, ARInit, Carried, EditsKept, NoWant
<1> QED BY <1>2, <1>3 DEF Inv

LEMMA RestInv ==
  ASSUME Inv, NEW w \in Sessions, Rest(w)
  PROVE  /\ pc' \in [Sessions -> {"idle", "begun", "read"}]
         /\ src' \in [Sessions -> Vendors]
         /\ correct' \in [Sessions -> BOOLEAN]
         /\ want' \in [Sessions -> [Keys -> Values \cup {Nothing}]]
         /\ held' \in [Sessions -> [Keys -> Plans]]
         /\ Carried'
<1>1. NoWant \in [Keys -> Values \cup {Nothing}] /\ NoWant \in [Keys -> Plans]
  BY DEF NoWant, Plans
<1>2. Carried'
  BY DEF Inv, TypeOK, Carried, Rest, NoWant
<1> QED BY <1>1, <1>2 DEF Inv, TypeOK, Rest

(* The entries a write records are corrections of rows that it read. *)
LEMMA RecordTypes ==
  ASSUME Inv, NEW w \in Sessions, NEW k \in Keys, held[w][k] # Nothing
  PROVE  /\ Brings(w, k) \in VendorRow
         /\ held[w][k] \in VendorRow \cup {NoRow}
BY DEF Inv, TypeOK, Carried, Brings, VendorRow, Plans

LEMMA NextInv == Inv /\ [Next]_vars => Inv'
<1> SUFFICES ASSUME Inv, [Next]_vars PROVE Inv'
  OBVIOUS
<1> USE DEF Inv
<1>1. ASSUME NEW w \in Sessions, NEW s \in Vendors, NEW fix \in BOOLEAN,
             NEW batch \in [Keys -> Values \cup {Nothing}], Begin(w, s, fix, batch)
      PROVE  Inv'
  <2>1. TypeOK' /\ EditsKept'
    BY <1>1 DEF TypeOK, Begin, EditsKept
  <2>2. Carried'
    BY <1>1 DEF TypeOK, Begin, Carried
  <2> QED BY <2>1, <2>2
<1>2. ASSUME NEW w \in Sessions, ReadHeld(w) PROVE Inv'
  <2>1. \A k \in Keys : Writable(w, k) =>
          rows[k] \in VendorRow \cup {NoRow} /\ want[w][k] \in Values
    BY RowKinds, RankAssumption DEF TypeOK, Writable, HeldBelow, Sources, Row, VendorRow
  <2>2. TypeOK'
    BY <1>2 DEF TypeOK, ReadHeld, Plans
  <2>3. Carried' /\ EditsKept'
    BY <1>2, <2>1 DEF TypeOK, ReadHeld, Carried, EditsKept
  <2> QED BY <2>2, <2>3
<1>3. ASSUME NEW w \in Sessions, Apply(w) PROVE Inv'
  <2>1. \A k \in Keys : Lands(w, k) => Brings(w, k) \in VendorRow
    BY RecordTypes DEF Lands
  <2>2. rows' \in [Keys -> Row \cup {NoRow}]
    BY <1>3, <2>1, RowKinds DEF TypeOK, Apply
  <2>3. \A k \in Keys : Records(w, k) =>
          Append(log[k], Entry(held[w][k], Brings(w, k))) \in Seq(LogEntry)
    <3>1. SUFFICES ASSUME NEW k \in Keys, Records(w, k)
                   PROVE  Append(log[k], Entry(held[w][k], Brings(w, k))) \in Seq(LogEntry)
      OBVIOUS
    <3>2. held[w][k] \in VendorRow /\ Brings(w, k) \in VendorRow
      BY <3>1, RecordTypes DEF Records
    <3>3. log[k] \in Seq(LogEntry)
      BY DEF TypeOK, LogEntry
    <3>4. Entry(held[w][k], Brings(w, k)) \in LogEntry
      BY <3>2 DEF Entry, LogEntry
    <3> QED BY <3>3, <3>4
  <2>4. log' \in [Keys -> Seq(LogEntry)]
    BY <1>3, <2>3 DEF TypeOK, Apply, LogEntry
  <2>5. \A k \in Keys : Lands(w, k) => rows[k] = NoRow \/ rows[k].src # Operator
    BY RankAssumption DEF Lands, HeldBelow, TypeOK, Sources
  <2>6. EditsKept'
    <3>1. \A k \in Keys : Lands(w, k) =>
            Brings(w, k) # NoRow /\ Brings(w, k).src # Operator
      BY <2>1, RowKinds
    <3>2. UNCHANGED <<over, kept>>
      BY <1>3 DEF Apply
    <3>3. \A k \in Keys : (rows'[k] # NoRow /\ rows'[k].src = Operator)
                            <=> (rows[k] # NoRow /\ rows[k].src = Operator)
      BY <1>3, <2>5, <3>1 DEF Apply
    <3> QED BY <3>2, <3>3 DEF EditsKept
  <2> QED BY <1>3, <2>2, <2>4, <2>6, RestInv DEF Apply, TypeOK, LogEntry
<1>4. ASSUME NEW w \in Sessions, Abort(w) PROVE Inv'
  BY <1>4, RestInv DEF Abort, TypeOK, EditsKept
<1>5. ASSUME NEW k \in Keys, OperatorStep(k) PROVE Inv'
  <2>1. ASSUME NEW i \in 1..MaxLog, Revert(k, i) PROVE Inv'
    <3>1. i \in 1..Len(log[k]) /\ log[k] \in Seq(LogEntry)
      BY <2>1 DEF Revert, TypeOK, LogEntry
    <3>2. log[k][i] \in LogEntry
      BY <3>1
    <3>3. log[k][i].old \in VendorRow /\ log[k][i].new \in VendorRow
      BY <3>2 DEF LogEntry
    <3>4. [log[k][i] EXCEPT !.open = FALSE] \in LogEntry
      BY <3>2 DEF LogEntry
    <3>5. [log[k] EXCEPT ![i] = [log[k][i] EXCEPT !.open = FALSE]] \in Seq(LogEntry)
      BY <3>1, <3>4
    <3>6. log' \in [Keys -> Seq(LogEntry)]
      BY <2>1, <3>5 DEF Revert, TypeOK, LogEntry
    <3>7. rows' \in [Keys -> Row \cup {NoRow}]
      BY <2>1, <3>3, RowKinds DEF Revert, TypeOK
    <3>8. EditsKept'
      BY <2>1, <3>3, RowKinds DEF Revert, EditsKept, TypeOK
    <3> QED BY <2>1, <3>6, <3>7, <3>8 DEF Revert, TypeOK, LogEntry, Carried, session
  <2>2. ASSUME NEW v \in Values, EditBar(k, v) PROVE Inv'
    <3>1. TypeOK'
      BY <2>2, RowKinds DEF EditBar, TypeOK, session
    <3>2. EditsKept'
      BY <2>2, RowKinds DEF EditBar, EditsKept, TypeOK
    <3> QED BY <2>2, <3>1, <3>2 DEF EditBar, Carried, session
  <2>3. CASE DeleteBar(k)
    <3>1. EditsKept'
      BY <2>3, RowKinds DEF DeleteBar, EditsKept, TypeOK
    <3> QED BY <2>3, <3>1 DEF DeleteBar, TypeOK, Carried, session
  <2>4. CASE RevokeDelete(k)
    <3>1. EditsKept'
      BY <2>4 DEF RevokeDelete, EditsKept, TypeOK
    <3> QED BY <2>4, <3>1 DEF RevokeDelete, TypeOK, Carried, session
  <2>5. CASE RevokeEdit(k)
    <3>1. EditsKept'
      BY <2>5, RowKinds DEF RevokeEdit, EditsKept, TypeOK
    <3> QED BY <2>5, <3>1, RowKinds DEF RevokeEdit, TypeOK, Carried, session
  <2> QED BY <1>5, <2>1, <2>2, <2>3, <2>4, <2>5 DEF OperatorStep, VendorCorrectionsRevert
<1>6. CASE UNCHANGED vars
  BY <1>6 DEF vars, session, TypeOK, Carried, EditsKept
<1> QED BY <1>1, <1>2, <1>3, <1>4, <1>5, <1>6 DEF Next, SessionStep

(* Types and the record of operator edits, for every interleaving of writers. *)
THEOREM TypeCorrect == Spec => []TypeOK
<1>1. Inv => TypeOK
  BY DEF Inv
<1> QED BY <1>1, InitInv, NextInv, PTL DEF Spec

(* An operator's row is in the table exactly while the edit that wrote it is   *)
(* active, whatever writes are in flight.                                      *)
THEOREM OperatorRowsAreKept == Spec => []OperatorRowsStand
<1>1. Inv => OperatorRowsStand
  BY DEF Inv, EditsKept, OperatorRowsStand
<1> QED BY <1>1, InitInv, NextInv, PTL DEF Spec

(* The row a write leaves at a key is the old one or the writer's, and the      *)
(* writer's only over nothing, its own row or a lower-ranked one.               *)
LEMMA ApplyRanks ==
  ASSUME Inv, NEW w \in Sessions, Apply(w), NEW k \in Keys,
         rows[k] # NoRow, rows'[k] # NoRow
  PROVE  ~(Rank[rows'[k].src] < Rank[rows[k].src])
<1>1. CASE Lands(w, k)
  <2>1. rows'[k].src = src[w]
    BY <1>1 DEF Apply, Brings
  <2>2. rows[k].src \in Sources /\ src[w] \in Sources
    BY DEF Inv, TypeOK, Row, Sources
  <2>3. Rank[rows[k].src] \in Nat /\ Rank[src[w]] \in Nat
    BY <2>2, RankAssumption
  <2> QED BY <1>1, <2>1, <2>3 DEF Lands, HeldBelow
<1>2. CASE ~Lands(w, k)
  <2>1. rows[k].src \in Sources
    BY DEF Inv, TypeOK, Row
  <2>2. Rank[rows[k].src] \in Nat
    BY <2>1, RankAssumption
  <2> QED BY <1>2, <2>2 DEF Apply
<1> QED BY <1>1, <1>2

(* A row another writer changed between a session's read and its write is never *)
(* overwritten by a lower rank.                                                 *)
THEOREM RanksNeverDrop == Spec => RankNeverDrops
<1>1. ASSUME Inv, [Next]_vars
      PROVE  [\A k \in Keys :
                (rows[k] # NoRow /\ rows'[k] # NoRow
                 /\ Rank[rows'[k].src] < Rank[rows[k].src])
                => session' = session]_vars
  <2>1. ASSUME NEW k \in Keys, rows[k] # NoRow, rows'[k] # NoRow,
               Rank[rows'[k].src] < Rank[rows[k].src], rows' = rows
        PROVE  FALSE
    <3>1. Rank[rows[k].src] \in Nat
      BY <1>1, <2>1, RankAssumption DEF Inv, TypeOK, Row
    <3> QED BY <2>1, <3>1
  <2>2. ASSUME NEW w \in Sessions, SessionStep(w), ~Apply(w) PROVE rows' = rows
    BY <2>2 DEF SessionStep, Begin, ReadHeld, Abort
  <2>3. ASSUME NEW k \in Keys, OperatorStep(k) PROVE session' = session
    BY <2>3 DEF OperatorStep, VendorCorrectionsRevert, Revert, EditBar, DeleteBar, RevokeDelete,
       RevokeEdit
  <2> QED BY <1>1, <2>1, <2>2, <2>3, ApplyRanks DEF Next, vars
<1> QED BY <1>1, InitInv, NextInv, PTL DEF Spec, RankNeverDrops

-----------------------------------------------------------------------------
(* The audited table *)

(* While nothing else writes, what a session read is still what the table holds. *)
ReadCurrent ==
  \A w \in Sessions :
    /\ pc[w] # "idle" => \A x \in Sessions : x # w => pc[x] = "idle"
    /\ \A k \in Keys : held[w][k] # Nothing =>
         /\ held[w][k] = rows[k]
         /\ \/ rows[k] = NoRow
            \/ rows[k] # NoRow /\ rows[k].src = src[w]
            \/ correct[w] /\ HeldBelow(k, src[w])

LEMMA NextCurrent ==
  ASSUME Serial
  PROVE  Inv /\ ReadCurrent /\ [Next]_vars => ReadCurrent'
<1> SUFFICES ASSUME Inv, ReadCurrent, [Next]_vars PROVE ReadCurrent'
  OBVIOUS
<1> USE DEF Inv, TypeOK
<1>1. ASSUME NEW w \in Sessions, NEW s \in Vendors, NEW fix \in BOOLEAN,
             NEW batch \in [Keys -> Values \cup {Nothing}], Begin(w, s, fix, batch)
      PROVE  ReadCurrent'
  <2>1. \A x \in Sessions : pc[x] = "idle" /\ \A k \in Keys : held[x][k] = Nothing
    BY <1>1 DEF Begin, Alone, AllIdle, Carried
  <2> QED BY <1>1, <2>1 DEF Begin, ReadCurrent
<1>2. ASSUME NEW w \in Sessions, ReadHeld(w) PROVE ReadCurrent'
  BY <1>2 DEF ReadHeld, ReadCurrent, Writable, HeldBelow, Carried
<1>3. ASSUME NEW w \in Sessions, Apply(w) \/ Abort(w) PROVE ReadCurrent'
  <2>1. Rest(w) /\ pc[w] # "idle"
    BY <1>3 DEF Apply, Abort
  <2>2. \A x \in Sessions : pc'[x] = "idle" /\ \A k \in Keys : held'[x][k] = Nothing
    BY <2>1 DEF Rest, NoWant, ReadCurrent, Carried
  <2> QED BY <2>2 DEF ReadCurrent
<1>4. ASSUME NEW k \in Keys, OperatorStep(k) PROVE ReadCurrent'
  <2>1. Alone /\ session' = session
    BY <1>4 DEF OperatorStep, VendorCorrectionsRevert, Revert, EditBar, DeleteBar, RevokeDelete,
       RevokeEdit
  <2>2. \A x \in Sessions : pc'[x] = "idle" /\ \A e \in Keys : held'[x][e] = Nothing
    BY <2>1 DEF Alone, AllIdle, Carried, session
  <2> QED BY <2>2 DEF ReadCurrent
<1>5. CASE UNCHANGED vars
  BY <1>5 DEF vars, session, ReadCurrent, HeldBelow
<1> QED BY <1>1, <1>2, <1>3, <1>4, <1>5 DEF Next, SessionStep

(* A write that saw the table as it is does to each key what the audited table *)
(* allows: nothing, a revision of its own, or a recorded replacement.          *)
LEMMA ApplyIsWrite ==
  ASSUME Inv, ReadCurrent, NEW w \in Sessions, Apply(w)
  PROVE  Write(src[w])
<1>1. DOMAIN rows' = Keys /\ DOMAIN log' = Keys
  BY DEF Apply
<1>2. ASSUME NEW k \in Keys
      PROVE  Untouched(k) \/ Revises(k, src[w]) \/ Outranks(k, src[w])
  <2>1. CASE held[w][k] = Nothing
    BY <2>1 DEF Apply, Lands, Records, Untouched
  <2>2. CASE held[w][k] # Nothing
    <3>1. held[w][k] = rows[k] /\ Lands(w, k)
      BY <2>2 DEF ReadCurrent, Lands
    <3>2. rows'[k] = Brings(w, k) /\ Brings(w, k) \in VendorRow
      BY <2>2, <3>1, RecordTypes DEF Apply
    <3>3. rows'[k].src = src[w]
      BY <3>2 DEF Brings
    <3>4. CASE ~Records(w, k)
      BY <2>2, <3>1, <3>2, <3>3, <3>4 DEF Records, Revises, Apply
    <3>5. CASE Records(w, k)
      BY <2>2, <3>1, <3>2, <3>3, <3>5 DEF Records, Outranks, Apply, Lands, HeldBelow
    <3> QED BY <3>4, <3>5
  <2> QED BY <2>1, <2>2
<1> QED BY <1>1, <1>2 DEF Write

LEMMA StepIsAudited ==
  ASSUME Inv, ReadCurrent, [Next]_vars
  PROVE  [ARNext]_<<rows, log>>
<1>1. ASSUME NEW w \in Sessions, SessionStep(w) PROVE [ARNext]_<<rows, log>>
  <2>1. CASE Apply(w)
    <3>1. src[w] \in Vendors
      BY DEF Inv, TypeOK
    <3> QED BY <2>1, <3>1, ApplyIsWrite DEF ARNext
  <2>2. CASE ~Apply(w)
    BY <1>1, <2>2 DEF SessionStep, Begin, ReadHeld, Abort
  <2> QED BY <2>1, <2>2
<1>2. ASSUME NEW k \in Keys, OperatorStep(k) PROVE [ARNext]_<<rows, log>>
  <2> USE DEF Inv, TypeOK
  <2>1. ASSUME NEW i \in 1..MaxLog, Revert(k, i) PROVE ARNext
    <3>1. Restore(k, i) /\ i \in 1..Len(log[k])
      BY <2>1 DEF Revert, Restore
    <3> QED BY <3>1 DEF ARNext
  <2>2. ASSUME NEW v \in Values, EditBar(k, v) PROVE ARNext
    <3>1. /\ rows[k] # NoRow /\ [src |-> Operator, val |-> v] \in Row \cup {NoRow}
          /\ [src |-> Operator, val |-> v] \notin VendorRow
          /\ rows' = [rows EXCEPT ![k] = [src |-> Operator, val |-> v]] /\ log' = log
      BY <2>2, RowKinds DEF EditBar
    <3>2. Operate(k)
      BY <3>1 DEF Operate
    <3> QED BY <3>2 DEF ARNext
  <2>3. CASE DeleteBar(k)
    <3>1. Operate(k)
      BY <2>3, RowKinds DEF DeleteBar, Operate
    <3> QED BY <3>1 DEF ARNext
  <2>4. CASE RevokeDelete(k)
    BY <2>4 DEF RevokeDelete
  <2>5. CASE RevokeEdit(k)
    <3>1. kept[k] \in VendorRow /\ rows[k] # NoRow /\ rows[k].src = Operator
      BY <2>5 DEF RevokeEdit, EditsKept
    <3>2. Operate(k)
      BY <2>5, <3>1, RowKinds DEF RevokeEdit, Operate
    <3> QED BY <3>2 DEF ARNext
  <2> QED BY <1>2, <2>1, <2>2, <2>3, <2>4, <2>5 DEF OperatorStep, VendorCorrectionsRevert
<1>3. CASE UNCHANGED vars
  BY <1>3 DEF vars
<1> QED BY <1>1, <1>2, <1>3 DEF Next

(* With nothing else writing during a session, every run of the loaders and the *)
(* operator is a run of the audited table: no vendor's row is replaced without  *)
(* being recorded as it stood, and none is recorded that was not replaced.      *)
THEOREM TableIsAudited ==
  ASSUME Serial
  PROVE  Spec => Audited
<1>1. Init => ARInit /\ Inv /\ ReadCurrent
  BY InitInv DEF Init, ReadCurrent, NoWant
<1>2. Inv /\ ReadCurrent /\ [Next]_vars => ReadCurrent'
  BY NextCurrent
<1>3. Inv /\ ReadCurrent /\ [Next]_vars => [ARNext]_<<rows, log>>
  BY StepIsAudited
<1> QED BY <1>1, <1>2, <1>3, NextInv, PTL DEF Spec, Audited, ARSpec

-----------------------------------------------------------------------------
(* The change in cash between two balance sheets *)

LEMMA LeastElement ==
  ASSUME NEW T, T \subseteq Nat, T # {}
  PROVE  \E x \in T : \A y \in T : x <= y
<1> DEFINE R == OpToRel(<, Nat)
<1>1. IsWellFoundedOn(R, Nat)
  BY NatLessThanWellFounded
<1> HIDE DEF R
<1>2. \E x \in T : \A y \in T : <<y, x>> \notin R
  BY <1>1, WFMin
<1>3. \A x, y \in T : <<y, x>> \notin R => x <= y
  <2>1. SUFFICES ASSUME NEW x \in T, NEW y \in T, y < x PROVE <<y, x>> \in R
    BY SMT
  <2>2. <<y, x>> \in Nat \X Nat /\ <<y,x>>[1] < <<y,x>>[2]
    BY <2>1
  <2> QED BY <2>2 DEF R, OpToRel
<1> QED BY <1>2, <1>3

(* What the window functions rely on: dated rows, one per period type and date. *)
Datable(Rows) ==
  /\ \A r \in Rows : r.date \in Nat
  /\ \A r, q \in Rows : (r.type = q.type /\ r.date = q.date) => r = q

LEMMA LagIsLast ==
  ASSUME NEW Rows, Datable(Rows), NEW r \in Rows, Preceding(Rows, r) # {}
  PROVE  /\ Lag(Rows, r) \in Preceding(Rows, r)
         /\ \A o \in Preceding(Rows, r) : o.date <= Lag(Rows, r).date
<1> DEFINE T == {r.date - q.date : q \in Preceding(Rows, r)}
<1>1. \A q \in Preceding(Rows, r) : r.date - q.date \in Nat
  BY DEF Preceding, Datable
<1>2. T \subseteq Nat /\ T # {}
  BY <1>1
<1>3. PICK x \in T : \A y \in T : x <= y
  <2> HIDE DEF T
  <2> QED BY <1>2, LeastElement
<1>4. PICK q \in Preceding(Rows, r) : x = r.date - q.date
  BY <1>3
<1>5. \A o \in Preceding(Rows, r) : r.date - q.date <= r.date - o.date
  BY <1>3, <1>4
<1>6. \A o \in Preceding(Rows, r) : o.date \in Nat
  BY DEF Preceding, Datable
<1>7. \A o \in Preceding(Rows, r) : o.date <= q.date
  BY <1>5, <1>6 DEF Datable
<1> QED BY <1>7 DEF Lag

LEMMA LeadIsNext ==
  ASSUME NEW Rows, Datable(Rows), NEW r \in Rows, Following(Rows, r) # {}
  PROVE  /\ Lead(Rows, r) \in Following(Rows, r)
         /\ \A o \in Following(Rows, r) : Lead(Rows, r).date <= o.date
<1> DEFINE T == {q.date : q \in Following(Rows, r)}
<1>1. T \subseteq Nat /\ T # {}
  BY DEF Following, Datable
<1>2. PICK x \in T : \A y \in T : x <= y
  <2> HIDE DEF T
  <2> QED BY <1>1, LeastElement
<1>3. PICK q \in Following(Rows, r) : x = q.date
  BY <1>2
<1>4. \A o \in Following(Rows, r) : q.date <= o.date
  BY <1>2, <1>3
<1> QED BY <1>4 DEF Lead

(* lag and lead are each other's inverse. *)
LEMMA LeadOfLag ==
  ASSUME NEW Rows, Datable(Rows), NEW r \in Rows, NEW q \in Rows
  PROVE  (Preceding(Rows, r) # {} /\ Lag(Rows, r) = q)
           <=> (Following(Rows, q) # {} /\ Lead(Rows, q) = r)
<1>1. ASSUME Preceding(Rows, r) # {}, Lag(Rows, r) = q
      PROVE  Following(Rows, q) # {} /\ Lead(Rows, q) = r
  <2>1. r \in Following(Rows, q)
    BY <1>1, LagIsLast DEF Preceding, Following
  <2>2. Lead(Rows, q) \in Following(Rows, q) /\ Lead(Rows, q).date <= r.date
    BY <2>1, LeadIsNext
  <2>3. ~(Lead(Rows, q).date < r.date)
    <3>1. SUFFICES ASSUME Lead(Rows, q).date < r.date PROVE FALSE
      OBVIOUS
    <3>2. Lead(Rows, q) \in Preceding(Rows, r)
      BY <2>1, <2>2, <3>1 DEF Preceding, Following
    <3>3. Lead(Rows, q).date <= q.date
      BY <1>1, <3>2, LagIsLast
    <3> QED BY <2>2, <3>3 DEF Following, Datable
  <2> QED BY <2>1, <2>2, <2>3 DEF Following, Datable
<1>2. ASSUME Following(Rows, q) # {}, Lead(Rows, q) = r
      PROVE  Preceding(Rows, r) # {} /\ Lag(Rows, r) = q
  <2>1. q \in Preceding(Rows, r)
    BY <1>2, LeadIsNext DEF Preceding, Following
  <2>2. Lag(Rows, r) \in Preceding(Rows, r) /\ q.date <= Lag(Rows, r).date
    BY <2>1, LagIsLast
  <2>3. ~(q.date < Lag(Rows, r).date)
    <3>1. SUFFICES ASSUME q.date < Lag(Rows, r).date PROVE FALSE
      OBVIOUS
    <3>2. Lag(Rows, r) \in Following(Rows, q)
      BY <2>1, <2>2, <3>1 DEF Preceding, Following
    <3>3. r.date <= Lag(Rows, r).date
      BY <1>2, <3>2, LeadIsNext
    <3> QED BY <2>2, <3>3 DEF Preceding, Datable
  <2> QED BY <2>1, <2>2, <2>3 DEF Preceding, Datable
<1> QED BY <1>1, <1>2

(* Changes in cash: between neighbouring sheets, none inside another. *)
Tied(F) ==
  /\ IsFiniteSet(F) /\ Datable(F)
  /\ \A t \in F : t.prev \in Nat /\ t.prev < t.date
  /\ \A t, u \in F : (t.type = u.type /\ t.date < u.date) => t.date <= u.prev

LEMMA CountsOf ==
  ASSUME NEW F, Tied(F), NEW t \in F
  PROVE  /\ Upto(F, t) \subseteq F /\ IsFiniteSet(Upto(F, t)) /\ t \in Upto(F, t)
         /\ Run(F, t) \in Nat /\ RowNumber(F, t) \in Nat
         /\ \A S \in SUBSET Upto(F, t) : IsFiniteSet(S) /\ Cardinality(S) \in Nat
<1>1. Upto(F, t) \subseteq F /\ t \in Upto(F, t)
  BY DEF Upto, Preceding
<1>2. IsFiniteSet(Upto(F, t))
  BY <1>1, FS_Subset DEF Tied
<1>3. \A S \in SUBSET Upto(F, t) : IsFiniteSet(S) /\ Cardinality(S) \in Nat
  BY <1>2, FS_Subset, FS_CardinalityType
<1>4. Run(F, t) \in Nat
  <2> DEFINE S == {l \in Upto(F, t) : ~Cancels(F, l)}
  <2>1. S \subseteq Upto(F, t)
    OBVIOUS
  <2> QED BY <1>3, <2>1 DEF Run
<1>5. RowNumber(F, t) \in Nat
  <2> DEFINE S == {l \in Upto(F, t) : Run(F, l) = Run(F, t)}
  <2>1. S \subseteq Upto(F, t)
    OBVIOUS
  <2> QED BY <1>3, <2>1 DEF RowNumber
<1> QED BY <1>1, <1>2, <1>3, <1>4, <1>5

(* A gap that cancels nothing starts a run. *)
LEMMA RunStarts ==
  ASSUME NEW F, Tied(F), NEW t \in F, ~Cancels(F, t)
  PROVE  RowNumber(F, t) = 1
<1> DEFINE Starts(u) == {l \in Upto(F, u) : ~Cancels(F, l)}
<1>1. ASSUME NEW l \in Preceding(F, t) PROVE Run(F, l) # Run(F, t)
  <2>1. l \in F /\ Upto(F, l) \subseteq Upto(F, t) /\ t \notin Upto(F, l)
    BY DEF Upto, Preceding, Tied, Datable
  <2>2. Starts(l) \subseteq Starts(t) /\ t \in Starts(t) /\ t \notin Starts(l)
    BY <2>1, CountsOf
  <2>3. Starts(l) # Starts(t)
    BY <2>2
  <2>4. IsFiniteSet(Starts(t))
    BY CountsOf
  <2> HIDE DEF Starts
  <2>5. Cardinality(Starts(l)) # Cardinality(Starts(t))
    BY <2>2, <2>3, <2>4, FS_Subset
  <2> USE DEF Starts
  <2> QED BY <2>5 DEF Run
<1>2. {l \in Upto(F, t) : Run(F, l) = Run(F, t)} = {t}
  BY <1>1 DEF Upto
<1> QED BY <1>2, FS_Singleton DEF RowNumber

(* A gap that cancels the one before it is the next in its run. *)
LEMMA RunGoesOn ==
  ASSUME NEW F, Tied(F), NEW t \in F, Cancels(F, t)
  PROVE  /\ Lag(F, t) \in F
         /\ RowNumber(F, t) = RowNumber(F, Lag(F, t)) + 1
<1> DEFINE l == Lag(F, t)
           Mine(u) == {x \in Upto(F, u) : Run(F, x) = Run(F, u)}
<1>1. /\ l \in Preceding(F, t) /\ l \in F
      /\ \A o \in Preceding(F, t) : o.date <= l.date
  BY LagIsLast DEF Cancels, Preceding, Tied
<1>2. Upto(F, t) = Upto(F, l) \cup {t} /\ t \notin Upto(F, l)
  <2>1. Preceding(F, t) = Upto(F, l)
    <3>1. ASSUME NEW o \in Preceding(F, t) PROVE o \in Upto(F, l)
      <4>1. o.date <= l.date /\ o.type = l.type /\ o \in F
        BY <1>1, <3>1 DEF Preceding
      <4>2. o.date = l.date => o = l
        BY <1>1, <4>1 DEF Tied, Datable
      <4>3. o.date \in Nat /\ l.date \in Nat
        BY <1>1, <4>1 DEF Tied, Datable
      <4> QED BY <1>1, <4>1, <4>2, <4>3 DEF Upto, Preceding
    <3>2. ASSUME NEW o \in Upto(F, l) PROVE o \in Preceding(F, t)
      BY <1>1, <3>2 DEF Upto, Preceding, Tied, Datable
    <3> QED BY <3>1, <3>2
  <2>2. t \notin Preceding(F, t)
    BY DEF Preceding, Tied, Datable
  <2> QED BY <2>1, <2>2 DEF Upto
<1>3. Run(F, t) = Run(F, l)
  <2>1. {x \in Upto(F, t) : ~Cancels(F, x)} = {x \in Upto(F, l) : ~Cancels(F, x)}
    BY <1>2
  <2> QED BY <2>1 DEF Run
<1>4. Mine(t) = Mine(l) \cup {t} /\ t \notin Mine(l)
  BY <1>2, <1>3
<1>5. IsFiniteSet(Mine(l)) /\ Cardinality(Mine(l)) \in Nat
  <2>1. Mine(l) \subseteq Upto(F, l)
    OBVIOUS
  <2> QED BY <1>1, <2>1, CountsOf
<1>6. Cardinality(Mine(t)) = Cardinality(Mine(l)) + 1
  <2> HIDE DEF Mine
  <2> QED BY <1>4, <1>5, FS_AddElement
<1> QED BY <1>1, <1>6 DEF RowNumber

(* Odd and even places alternate along a run. *)
LEMMA PlacesAlternate ==
  ASSUME NEW F, Tied(F), NEW t \in F
  PROVE  /\ ~Cancels(F, t) => Opens(F, t)
         /\ Cancels(F, t) => (Opens(F, t) <=> ~Opens(F, Lag(F, t)))
<1>1. ASSUME ~Cancels(F, t) PROVE Opens(F, t)
  BY <1>1, RunStarts DEF Opens
<1>2. ASSUME Cancels(F, t) PROVE Opens(F, t) <=> ~Opens(F, Lag(F, t))
  <2>1. Lag(F, t) \in F /\ RowNumber(F, t) = RowNumber(F, Lag(F, t)) + 1
    BY <1>2, RunGoesOn
  <2>2. RowNumber(F, Lag(F, t)) \in Nat
    BY <2>1, CountsOf
  <2>3. \A n \in Nat : (n + 1) % 2 = 1 <=> ~(n % 2 = 1)
    OBVIOUS
  <2> QED BY <2>1, <2>2, <2>3 DEF Opens
<1> QED BY <1>1, <1>2

(* The gap that starts where another ends is the next one. *)
LEMMA AdjacentIsLag ==
  ASSUME NEW F, Tied(F), NEW o \in F, NEW u \in F, u.type = o.type, u.prev = o.date
  PROVE  Preceding(F, u) # {} /\ Lag(F, u) = o
<1>1. o \in Preceding(F, u)
  BY DEF Preceding, Tied
<1>2. Lag(F, u) \in Preceding(F, u) /\ o.date <= Lag(F, u).date
  BY <1>1, LagIsLast DEF Tied
<1>3. Lag(F, u).date <= u.prev /\ Lag(F, u) \in F /\ Lag(F, u).type = o.type
  BY <1>2 DEF Preceding, Tied
<1>4. Lag(F, u).date = o.date
  BY <1>2, <1>3 DEF Tied, Datable
<1> QED BY <1>1, <1>3, <1>4 DEF Tied, Datable

LEMMA OpenedGap ==
  ASSUME NEW F, Tied(F), NEW u \in F, Opens(F, u)
  PROVE  \E t \in Lone(F) \cup Pairs(F) :
           /\ AccountsFor(Pairs(F), t, u)
           /\ \A o \in Lone(F) \cup Pairs(F) : AccountsFor(Pairs(F), o, u) => o = t
<1>1. u \in Lone(F) \cup Pairs(F) /\ AccountsFor(Pairs(F), u, u)
  BY DEF Lone, Pairs, AccountsFor
<1>2. ASSUME NEW o \in Lone(F) \cup Pairs(F), AccountsFor(Pairs(F), o, u), o # u
      PROVE  FALSE
  <2>1. o \in F /\ u.type = o.type /\ Opens(F, o)
    BY <1>2 DEF Lone, Pairs, AccountsFor
  <2>2. u.date # o.date
    BY <1>2, <2>1 DEF Tied, Datable
  <2>3. NextCancels(F, o) /\ u.prev = o.date
    BY <1>2, <2>2 DEF AccountsFor, Pairs
  <2>4. Preceding(F, u) # {} /\ Lag(F, u) = o
    BY <2>1, <2>3, AdjacentIsLag
  <2>5. Lead(F, o) = u
    BY <2>1, <2>4, LeadOfLag DEF Tied
  <2>6. Cancels(F, u)
    BY <2>3, <2>5 DEF NextCancels
  <2> QED BY <2>1, <2>4, <2>6, PlacesAlternate
<1> QED BY <1>1, <1>2

LEMMA ClosedGap ==
  ASSUME NEW F, Tied(F), NEW u \in F, ~Opens(F, u)
  PROVE  \E t \in Lone(F) \cup Pairs(F) :
           /\ AccountsFor(Pairs(F), t, u)
           /\ \A o \in Lone(F) \cup Pairs(F) : AccountsFor(Pairs(F), o, u) => o = t
<1> DEFINE l == Lag(F, u)
<1>1. Cancels(F, u) /\ l \in F /\ Opens(F, l)
  BY PlacesAlternate, RunGoesOn
<1>2. l \in Preceding(F, u) /\ u.prev = l.date
  BY <1>1, LagIsLast DEF Cancels, Tied
<1>3. Following(F, l) # {} /\ Lead(F, l) = u
  BY <1>1, <1>2, LeadOfLag DEF Tied
<1>4. l \in Pairs(F) /\ AccountsFor(Pairs(F), l, u)
  BY <1>1, <1>2, <1>3 DEF Pairs, NextCancels, AccountsFor, Preceding
<1>5. ASSUME NEW o \in Lone(F) \cup Pairs(F), AccountsFor(Pairs(F), o, u) PROVE o = l
  <2>1. o \in F /\ u.type = o.type /\ Opens(F, o)
    BY <1>5 DEF Lone, Pairs, AccountsFor
  <2>2. u.date # o.date
    BY <2>1 DEF Tied, Datable
  <2>3. u.prev = o.date
    BY <1>5, <2>2 DEF AccountsFor
  <2> QED BY <2>1, <2>3, AdjacentIsLag
<1> QED BY <1>4, <1>5

LEMMA PairsCancel ==
  ASSUME NEW F, Tied(F), NEW t \in Pairs(F)
  PROVE  \E u \in F : u.type = t.type /\ u.prev = t.date /\ Offset(u, t)
<1>1. t \in F /\ NextCancels(F, t)
  BY DEF Pairs
<1>2. Following(F, t) # {} /\ Lead(F, t) \in Following(F, t) /\ Cancels(F, Lead(F, t))
  BY <1>1, LeadIsNext DEF NextCancels, Tied
<1>3. Lead(F, t) \in F /\ Lead(F, t).type = t.type
  BY <1>2 DEF Following
<1>4. Lag(F, Lead(F, t)) = t
  BY <1>1, <1>2, <1>3, LeadOfLag DEF Tied
<1> QED BY <1>2, <1>3, <1>4 DEF Cancels

(* The changes in cash of books that obey the unique indexes. *)
LEMMA FailingIsTied ==
  ASSUME NEW b \in Books, OneEach(b.sheet), OneEach(b.flow)
  PROVE  Tied(Failing(b))
<1> DEFINE S == InForce(b.sheet)
           C == InForce(b.flow)
           Y == {y \in S \X C : Comparable(b, y[1], y[2])}
<1>1. S \subseteq Sheet /\ C \subseteq Flow /\ IsFiniteSet(S) /\ IsFiniteSet(C)
  BY FS_Subset DEF InForce, OneEach, Books
<1>2. Datable(S) /\ Datable(C)
  BY <1>1 DEF OneEach, Datable, Sheet, Flow
<1>3. ASSUME NEW t \in Failing(b)
      PROVE  \E s \in S : /\ t.type = s.type /\ t.date = s.date
                          /\ Preceding(S, s) # {} /\ t.prev = Lag(S, s).date
                          /\ \E c \in C : /\ c.type = s.type /\ c.date = s.date
                                          /\ t = Tie(Lag(S, s), s, c)
  <2>1. PICK y \in Y : t = Tie(Lag(S, y[1]), y[1], y[2])
    BY <1>3 DEF Failing, Ties
  <2>2. y[1] \in S /\ y[2] \in C /\ Comparable(b, y[1], y[2])
    BY <2>1
  <2> QED BY <2>1, <2>2 DEF Tie, Comparable
<1>4. IsFiniteSet(Failing(b))
  <2>1. IsFiniteSet(S \X C)
    BY <1>1, FS_Product
  <2>2. IsFiniteSet(Y)
    BY <2>1, FS_Subset
  <2>3. IsFiniteSet({Tie(Lag(S, y[1]), y[1], y[2]) : y \in Y})
    <3> DEFINE T == {Tie(Lag(S, y[1]), y[1], y[2]) : y \in Y}
               f == [y \in Y |-> Tie(Lag(S, y[1]), y[1], y[2])]
    <3>1. f \in [Y -> T] /\ \A t \in T : \E y \in Y : f[y] = t
      <4> HIDE DEF Y
      <4> QED OBVIOUS
    <3>2. f \in Surjection(Y, T)
      <4> HIDE DEF Y, T, f
      <4> QED BY <3>1 DEF Surjection
    <3> HIDE DEF Y, T, f
    <3>3. IsFiniteSet(T)
      BY <2>2, <3>2, FS_Surjection
    <3> QED BY <3>3 DEF T
  <2> QED BY <2>3, FS_Subset DEF Failing, Ties
<1>5. \A t \in Failing(b) : t.date \in Nat /\ t.prev \in Nat /\ t.prev < t.date
  <2>1. TAKE t \in Failing(b)
  <2>2. PICK s \in S : /\ t.date = s.date /\ Preceding(S, s) # {}
                       /\ t.prev = Lag(S, s).date
    BY <1>3
  <2>3. Lag(S, s) \in Preceding(S, s)
    BY <1>2, <2>2, LagIsLast
  <2> QED BY <1>2, <2>2, <2>3 DEF Preceding, Datable
<1>6. ASSUME NEW t \in Failing(b), NEW u \in Failing(b), t.type = u.type, t.date = u.date
      PROVE  t = u
  <2>1. PICK s \in S, c \in C : /\ t.type = s.type /\ t.date = s.date
                                /\ c.type = s.type /\ c.date = s.date
                                /\ t = Tie(Lag(S, s), s, c)
    BY <1>3
  <2>2. PICK r \in S, d \in C : /\ u.type = r.type /\ u.date = r.date
                                /\ d.type = r.type /\ d.date = r.date
                                /\ u = Tie(Lag(S, r), r, d)
    BY <1>3
  <2>3. s = r /\ c = d
    BY <1>2, <1>6, <2>1, <2>2 DEF Datable
  <2> QED BY <2>1, <2>2, <2>3
<1>7. ASSUME NEW t \in Failing(b), NEW u \in Failing(b), t.type = u.type, t.date < u.date
      PROVE  t.date <= u.prev
  <2>1. PICK s \in S : t.type = s.type /\ t.date = s.date
    BY <1>3
  <2>2. PICK r \in S : /\ u.type = r.type /\ u.date = r.date
                       /\ Preceding(S, r) # {} /\ u.prev = Lag(S, r).date
    BY <1>3
  <2>3. s \in Preceding(S, r)
    BY <1>7, <2>1, <2>2 DEF Preceding
  <2> QED BY <1>2, <2>1, <2>2, <2>3, LagIsLast
<1> QED BY <1>4, <1>5, <1>6, <1>7 DEF Tied, Datable

(* What the unique indexes of the statement tables keep. *)
Filed(b) ==
  /\ b \in Books /\ OneEach(b.sheet) /\ OneEach(b.flow) /\ OneEach(b.income)
  /\ IsFiniteSet(b.bars)

LEMMA BooksStayFiled == StatementSpec => []Filed(books)
<1>1. StatementInit => Filed(books)
  BY BooksAssumption DEF StatementInit, Filed
<1>2. Filed(books) /\ [StatementNext]_statements => Filed(books)'
  BY BooksAssumption DEF StatementNext, StatementRun, StatementRecheck, BooksChange,
     statements, Filed
<1> QED BY <1>1, <1>2, PTL DEF StatementSpec

(* For any statements that obey the unique indexes, every gap between a change in  *)
(* cash and its cash flow is on exactly one condition of the check: its own, or    *)
(* that of one pair, whose halves cancel (detect_cash_balance_tie).                *)
THEOREM GapsFlaggedOnce == StatementSpec => []EveryGapOnce
<1>1. Filed(books) => EveryGapOnce
  <2> SUFFICES ASSUME Filed(books) PROVE EveryGapOnce
    OBVIOUS
  <2> DEFINE F == Failing(books)
  <2>1. Tied(F)
    BY FailingIsTied DEF Filed
  <2> HIDE DEF F
  <2>2. \A u \in F :
          \E t \in Lone(F) \cup Pairs(F) :
            /\ AccountsFor(Pairs(F), t, u)
            /\ \A o \in Lone(F) \cup Pairs(F) : AccountsFor(Pairs(F), o, u) => o = t
    BY <2>1, OpenedGap, ClosedGap
  <2>3. \A t \in Pairs(F) : \E u \in F : u.type = t.type /\ u.prev = t.date /\ Offset(u, t)
    BY <2>1, PairsCancel
  <2> QED BY <2>2, <2>3 DEF EveryGapOnce, F
<1> QED BY <1>1, BooksStayFiled, PTL

-----------------------------------------------------------------------------
(* One row per condition *)

(* The rows of a detector: all of one check, and no condition twice. *)
WritesOnce(Rows, check) ==
  /\ \A h \in Rows : h.check = check
  /\ \A h, g \in Rows : SameKey(h, g) => h = g

LEMMA OnePerPeriod ==
  ASSUME NEW Rows, OneEach(Rows)
  PROVE  /\ \A r, q \in Rows : VersionKey(r) = VersionKey(q) => r = q
         /\ \A r, q \in InForce(Rows) : PeriodKey(r) = PeriodKey(q) => r = q
BY DEF OneEach, VersionKey, PeriodKey

LEMMA IdentityOnce ==
  ASSUME NEW b PROVE WritesOnce(IdentityFound(b), "balance_sheet_identity")
<1> DEFINE severity(k) ==
             IF \A t \in Unbalanced(b) : PeriodKey(t) = k => Reason(b, t) = "temporary_equity"
               THEN "info" ELSE "error"
           row(k) == Hit("balance_sheet_identity", "", k, severity(k), k)
<1>1. \A h \in IdentityFound(b) : \E k : h = row(k)
  BY DEF IdentityFound
<1> HIDE DEF severity
<1>2. \A k : row(k).check = "balance_sheet_identity"
  BY DEF Hit
<1>3. \A k, l : SameKey(row(k), row(l)) => k = l
  BY DEF Hit, SameKey
<1> HIDE DEF row
<1> QED BY <1>1, <1>2, <1>3 DEF WritesOnce

LEMMA CashFlowOnce ==
  ASSUME NEW b PROVE WritesOnce(CashFlowFound(b), "cash_flow_tie")
<1> DEFINE row(k) == Hit("cash_flow_tie", "", k, "warn", k)
<1>1. \A h \in CashFlowFound(b) : \E k : h = row(k)
  BY DEF CashFlowFound
<1>2. \A k : row(k).check = "cash_flow_tie"
  BY DEF Hit
<1>3. \A k, l : SameKey(row(k), row(l)) => k = l
  BY DEF Hit, SameKey
<1> HIDE DEF row
<1> QED BY <1>1, <1>2, <1>3 DEF WritesOnce

LEMMA CashBalanceOnce ==
  ASSUME NEW b, Filed(b) PROVE WritesOnce(CashBalanceFound(b), "cash_balance_tie")
<1> DEFINE F == Failing(b)
           lone(t) == Hit("cash_balance_tie", "", PeriodKey(t), "warn", Only(t.prev))
           pair(t) == Hit("cash_balance_tie", "cash_and_equivalents", PeriodKey(t), "warn",
                          Only(t.prev))
<1>1. \A t, u \in F : PeriodKey(t) = PeriodKey(u) => t = u
  BY FailingIsTied DEF Filed, Tied, Datable, PeriodKey
<1> HIDE DEF F
<1>2. \A h \in CashBalanceFound(b) : \E t \in F : h = lone(t) \/ h = pair(t)
  BY DEF CashBalanceFound, F, Lone, Pairs
<1>3. \A t : lone(t).check = "cash_balance_tie" /\ pair(t).check = "cash_balance_tie"
  BY DEF Hit
<1>4. \A t, u \in F : /\ SameKey(lone(t), lone(u)) => t = u
                      /\ SameKey(pair(t), pair(u)) => t = u
                      /\ ~SameKey(lone(t), pair(u)) /\ ~SameKey(pair(t), lone(u))
  BY <1>1 DEF Hit, SameKey
<1> HIDE DEF lone, pair
<1> QED BY <1>2, <1>3, <1>4 DEF WritesOnce

(* The first period end has none before it, so the gap before it is no inner one. *)
LEMMA FirstEndsNoGap ==
  ASSUME NEW b, Filed(b), NEW p \in Untold(b), NEW q \in Unlisted(b)
  PROVE  p[2] # q[2]
<1> DEFINE E == Ends(b)
<1>1. E \subseteq Nat
  BY DEF Filed, Books, Income, Ends, InForce
<1>2. p[1] \in E /\ p[2] \in E /\ p[1] < p[2] /\ q[2] = FirstOf(E)
  BY DEF Untold, Steps, Unlisted
<1> HIDE DEF E
<1>3. \E x \in E : \A e \in E : x <= e
  BY <1>1, <1>2, LeastElement
<1>4. FirstOf(E) \in E /\ FirstOf(E) <= p[1]
  BY <1>2, <1>3 DEF FirstOf
<1>5. p[1] \in Nat /\ p[2] \in Nat /\ FirstOf(E) \in Nat
  BY <1>1, <1>2, <1>4
<1>6. \A x, y, z \in Nat : x <= y /\ y < z => z # x
  OBVIOUS
<1>7. p[2] # FirstOf(E)
  BY <1>2, <1>4, <1>5, <1>6
<1> QED BY <1>2, <1>7

LEMMA GapsOnce ==
  ASSUME NEW b, Filed(b) PROVE WritesOnce(GapFound(b), "fundamentals_gap")
<1> DEFINE U == Untold(b)
           V == Unlisted(b)
           key(p) == <<"", p[1], p[2]>>
           inner(p) == Hit("fundamentals_gap", "", key(p), "info", <<"inner", p[1], p[2]>>)
           leading(p) == Hit("fundamentals_gap", "", key(p), "info", <<"leading", p[1], p[2]>>)
<1>1. \A p \in U, q \in V : p[2] # q[2]
  BY FirstEndsNoGap
<1>2. \A p, q \in U : p[1] = q[1] /\ p[2] = q[2] => p = q
  BY DEF Untold, Steps
<1>3. \A p, q \in V : p[1] = q[1] /\ p[2] = q[2] => p = q
  BY DEF Unlisted
<1>4. \A h \in GapFound(b) : \/ \E p \in U : h = inner(p)
                             \/ \E q \in V : h = leading(q)
  BY DEF GapFound
<1> HIDE DEF U, V
<1>5. \A p : inner(p).check = "fundamentals_gap" /\ leading(p).check = "fundamentals_gap"
  BY DEF Hit
<1>6. \A p, q : key(p) = key(q) => p[1] = q[1] /\ p[2] = q[2]
  OBVIOUS
<1> HIDE DEF key
<1>7. \A p, q : /\ SameKey(inner(p), inner(q)) => key(p) = key(q)
                /\ SameKey(leading(p), leading(q)) => key(p) = key(q)
                /\ SameKey(inner(p), leading(q)) => key(p) = key(q)
                /\ SameKey(leading(p), inner(q)) => key(p) = key(q)
  BY DEF Hit, SameKey
<1> HIDE DEF inner, leading
<1> QED BY <1>1, <1>2, <1>3, <1>4, <1>5, <1>6, <1>7 DEF WritesOnce

LEMMA AgedOnce ==
  ASSUME NEW b PROVE WritesOnce(AgedFound(b), "fundamentals_stale")
<1> DEFINE row(e) == Hit("fundamentals_stale", "", Only(e), "warn", Only(e))
<1>1. \A h \in AgedFound(b) : \E e : h = row(e)
  BY DEF AgedFound
<1>2. \A e : row(e).check = "fundamentals_stale"
  BY DEF Hit
<1>3. \A e, f : SameKey(row(e), row(f)) => e = f
  BY DEF Hit, SameKey, Only
<1> HIDE DEF row
<1> QED BY <1>1, <1>2, <1>3 DEF WritesOnce

LEMMA TrailingOnce ==
  ASSUME NEW b PROVE WritesOnce(TrailingFound(b), "fundamentals_ttm_incomplete")
<1> DEFINE row(y) == Hit("fundamentals_ttm_incomplete", "", Only(y), "info", Only(y))
<1>1. \A h \in TrailingFound(b) : \E y : h = row(y)
  BY DEF TrailingFound
<1>2. \A y : row(y).check = "fundamentals_ttm_incomplete"
  BY DEF Hit
<1>3. \A y, z : SameKey(row(y), row(z)) => y = z
  BY DEF Hit, SameKey, Only
<1> HIDE DEF row
<1> QED BY <1>1, <1>2, <1>3 DEF WritesOnce

LEMMA CurrencyOnce ==
  ASSUME NEW b PROVE WritesOnce(CurrencyFound(b), "fundamentals_currency_mismatch")
<1> DEFINE row(c) == Hit("fundamentals_currency_mismatch", c, Only(0), "info", Only(0))
<1>1. \A h \in CurrencyFound(b) : \E c : h = row(c)
  BY DEF CurrencyFound
<1>2. \A c : row(c).check = "fundamentals_currency_mismatch"
  BY DEF Hit
<1>3. \A c, d : SameKey(row(c), row(d)) => c = d
  BY DEF Hit, SameKey
<1> HIDE DEF row
<1> QED BY <1>1, <1>2, <1>3 DEF WritesOnce

LEMMA UnmappedOnce ==
  ASSUME NEW b PROVE WritesOnce(UnmappedFound(b), "fundamentals_unmapped_fields")
<1> DEFINE row(c) == Hit("fundamentals_unmapped_fields", c, Only(0), "info", Only(0))
<1>1. \A h \in UnmappedFound(b) : \E c : h = row(c)
  BY DEF UnmappedFound
<1>2. \A c : row(c).check = "fundamentals_unmapped_fields"
  BY DEF Hit
<1>3. \A c, d : SameKey(row(c), row(d)) => c = d
  BY DEF Hit, SameKey
<1> HIDE DEF row
<1> QED BY <1>1, <1>2, <1>3 DEF WritesOnce

LEMMA CoverageOnce ==
  ASSUME NEW b PROVE WritesOnce(CoverageFound(b), "fundamentals_coverage")
<1> DEFINE row == Hit("fundamentals_coverage", "", Only(0), "info", Only(0))
<1>1. row.check = "fundamentals_coverage"
  BY DEF Hit
<1>2. \A h \in CoverageFound(b) : h = row
  BY DEF CoverageFound
<1> HIDE DEF row
<1> QED BY <1>1, <1>2 DEF WritesOnce

(* A year judged has one annual period in force. *)
LEMMA YearsOnce ==
  ASSUME NEW b PROVE WritesOnce(YtdFound(b), "fundamentals_ytd_suspect")
<1> DEFINE revenue(r) == Hit("fundamentals_ytd_suspect", "revenue", Only(r.year), "warn",
                             PeriodKey(r))
           operating(r) == Hit("fundamentals_ytd_suspect", "operating", Only(r.year), "warn",
                               PeriodKey(r))
<1>1. /\ \A r, q \in Years(b.income) : r.year = q.year => r = q
      /\ \A r, q \in Years(b.flow) : r.year = q.year => r = q
  BY DEF Years
<1>2. \A h \in YtdFound(b) : \/ \E r \in Years(b.income) : h = revenue(r)
                             \/ \E r \in Years(b.flow) : h = operating(r)
  BY DEF YtdFound, YtdOf
<1>3. \A r : /\ revenue(r).check = "fundamentals_ytd_suspect"
             /\ operating(r).check = "fundamentals_ytd_suspect"
  BY DEF Hit
<1>4. \A r, q : /\ SameKey(revenue(r), revenue(q)) => r.year = q.year
                /\ SameKey(operating(r), operating(q)) => r.year = q.year
                /\ ~SameKey(revenue(r), operating(q)) /\ ~SameKey(operating(r), revenue(q))
  BY DEF Hit, SameKey, Only
<1> HIDE DEF revenue, operating
<1> QED BY <1>1, <1>2, <1>3, <1>4 DEF WritesOnce

LEMMA NegativesOnce ==
  ASSUME NEW b, Filed(b)
  PROVE  WritesOnce(NegativeFound(b), "fundamentals_negative_impossible")
<1> DEFINE severity(t) ==
             IF b.financial /\ ~Below(t.shares) /\ ~Below(t.diluted) THEN "info" ELSE "error"
           income(t) == Hit("fundamentals_negative_impossible", "income", VersionKey(t),
                            severity(t), VersionKey(t))
           sheet(t) == Hit("fundamentals_negative_impossible", "sheet", VersionKey(t), "error",
                           VersionKey(t))
<1>1. /\ \A r, q \in b.income : VersionKey(r) = VersionKey(q) => r = q
      /\ \A r, q \in b.sheet : VersionKey(r) = VersionKey(q) => r = q
  BY OnePerPeriod DEF Filed
<1>2. \A h \in NegativeFound(b) : \/ \E t \in b.income : h = income(t)
                                  \/ \E t \in b.sheet : h = sheet(t)
  BY DEF NegativeFound
<1> HIDE DEF severity
<1>3. \A t : /\ income(t).check = "fundamentals_negative_impossible"
             /\ sheet(t).check = "fundamentals_negative_impossible"
  BY DEF Hit
<1>4. \A t, u : /\ SameKey(income(t), income(u)) => VersionKey(t) = VersionKey(u)
                /\ SameKey(sheet(t), sheet(u)) => VersionKey(t) = VersionKey(u)
                /\ ~SameKey(income(t), sheet(u)) /\ ~SameKey(sheet(t), income(u))
  BY DEF Hit, SameKey
<1> HIDE DEF income, sheet
<1> QED BY <1>1, <1>2, <1>3, <1>4 DEF WritesOnce

LEMMA ZeroOnce ==
  ASSUME NEW b, Filed(b) PROVE WritesOnce(ZeroFound(b), "fundamentals_suspicious_zero")
<1> DEFINE row(table, r) == Hit("fundamentals_suspicious_zero", table, PeriodKey(r), "info",
                                <<table, r.date, r.no>>)
           I == InForce(b.income)
           S == InForce(b.sheet)
           C == InForce(b.flow)
<1>1. /\ \A r, q \in I : PeriodKey(r) = PeriodKey(q) => r = q
      /\ \A r, q \in S : PeriodKey(r) = PeriodKey(q) => r = q
      /\ \A r, q \in C : PeriodKey(r) = PeriodKey(q) => r = q
  BY OnePerPeriod DEF Filed
<1>2. \A h \in ZeroFound(b) : \/ \E r \in I : h = row("income", r)
                              \/ \E r \in S : h = row("sheet", r)
                              \/ \E r \in C : h = row("flow", r)
  BY DEF ZeroFound, ZeroOf
<1> HIDE DEF I, S, C
<1>3. \A t, r : row(t, r).check = "fundamentals_suspicious_zero"
  BY DEF Hit
<1>4. \A t, r, u, q :
        SameKey(row(t, r), row(u, q)) => t = u /\ PeriodKey(r) = PeriodKey(q)
  BY DEF Hit, SameKey
<1> HIDE DEF row
<1>5. \A h, g \in ZeroFound(b) : SameKey(h, g) => h = g
  BY <1>1, <1>2, <1>4
<1> QED BY <1>2, <1>3, <1>5 DEF WritesOnce

LEMMA LagsOnce ==
  ASSUME NEW b, Filed(b)
  PROVE  WritesOnce(LagFound(b), "fundamentals_implausible_filing_lag")
<1> DEFINE row(t) == Hit("fundamentals_implausible_filing_lag", "", VersionKey(t), "warn",
                         VersionKey(t))
<1>1. \A r, q \in b.income : VersionKey(r) = VersionKey(q) => r = q
  BY OnePerPeriod DEF Filed
<1>2. \A h \in LagFound(b) : \E t \in b.income : h = row(t)
  BY DEF LagFound
<1>3. \A t : row(t).check = "fundamentals_implausible_filing_lag"
  BY DEF Hit
<1>4. \A t, u : SameKey(row(t), row(u)) => VersionKey(t) = VersionKey(u)
  BY DEF Hit, SameKey
<1> HIDE DEF row
<1> QED BY <1>1, <1>2, <1>3, <1>4 DEF WritesOnce

LEMMA ChainsOnce ==
  ASSUME NEW b PROVE WritesOnce(ChainFound(b), "fundamentals_version_chain")
<1> DEFINE row(t, k) == Hit("fundamentals_version_chain", t, k, "error", k)
<1>1. \A h \in ChainFound(b) : \E t, k : h = row(t, k)
  <2>1. /\ \A h \in ChainOf("income", b.income) : \E k : h = row("income", k)
        /\ \A h \in ChainOf("sheet", b.sheet) : \E k : h = row("sheet", k)
        /\ \A h \in ChainOf("flow", b.flow) : \E k : h = row("flow", k)
    BY DEF ChainOf
  <2> HIDE DEF row
  <2> QED BY <2>1 DEF ChainFound
<1>2. \A t, k : row(t, k).check = "fundamentals_version_chain"
  BY DEF Hit
<1>3. \A t, k, u, l : SameKey(row(t, k), row(u, l)) => t = u /\ k = l
  BY DEF Hit, SameKey
<1> HIDE DEF row
<1> QED BY <1>1, <1>2, <1>3 DEF WritesOnce

(* Two detectors never share a check. *)
LEMMA OneDetector ==
  ASSUME NEW b, Filed(b), NEW h \in Found(b), NEW g \in Found(b), SameKey(h, g)
  PROVE  h = g
<1>1. h.check = g.check
  BY DEF SameKey
<1>2. /\ WritesOnce(IdentityFound(b), "balance_sheet_identity")
      /\ WritesOnce(CashFlowFound(b), "cash_flow_tie")
      /\ WritesOnce(CashBalanceFound(b), "cash_balance_tie")
      /\ WritesOnce(GapFound(b), "fundamentals_gap")
      /\ WritesOnce(AgedFound(b), "fundamentals_stale")
      /\ WritesOnce(CurrencyFound(b), "fundamentals_currency_mismatch")
      /\ WritesOnce(UnmappedFound(b), "fundamentals_unmapped_fields")
  BY IdentityOnce, CashFlowOnce, CashBalanceOnce, GapsOnce, AgedOnce, CurrencyOnce,
     UnmappedOnce
<1>3. /\ WritesOnce(TrailingFound(b), "fundamentals_ttm_incomplete")
      /\ WritesOnce(NegativeFound(b), "fundamentals_negative_impossible")
      /\ WritesOnce(CoverageFound(b), "fundamentals_coverage")
      /\ WritesOnce(ZeroFound(b), "fundamentals_suspicious_zero")
      /\ WritesOnce(LagFound(b), "fundamentals_implausible_filing_lag")
      /\ WritesOnce(YtdFound(b), "fundamentals_ytd_suspect")
      /\ WritesOnce(ChainFound(b), "fundamentals_version_chain")
  BY TrailingOnce, NegativesOnce, CoverageOnce, ZeroOnce, LagsOnce, YearsOnce, ChainsOnce
<1> DEFINE Both(Rows) == h \in Rows /\ g \in Rows
<1>4. \/ Both(IdentityFound(b)) \/ Both(CashFlowFound(b)) \/ Both(CashBalanceFound(b))
      \/ Both(GapFound(b)) \/ Both(AgedFound(b)) \/ Both(CurrencyFound(b))
      \/ Both(UnmappedFound(b)) \/ Both(TrailingFound(b)) \/ Both(NegativeFound(b))
      \/ Both(CoverageFound(b)) \/ Both(ZeroFound(b)) \/ Both(LagFound(b))
      \/ Both(YtdFound(b)) \/ Both(ChainFound(b))
  BY <1>1, <1>2, <1>3 DEF Found, WritesOnce
<1> QED BY <1>2, <1>3, <1>4 DEF WritesOnce

(* For any statements that obey the unique indexes, no check selects one condition  *)
(* from two rows: the INSERT of a night's checks never meets the index of open      *)
(* conditions, so no check undoes what the others of the night found.               *)
THEOREM ChecksAreWritten == StatementSpec => []NightIsWritten
<1>1. Filed(books) => NightIsWritten
  BY OneDetector DEF NightIsWritten, FoundOnce
<1> QED BY <1>1, BooksStayFiled, PTL
=============================================================================
