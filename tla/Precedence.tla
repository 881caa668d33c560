----------------------------- MODULE Precedence -----------------------------
(***************************************************************************)
(* How bars of several vendors share core.daily_price                       *)
(* (src/src/fafnir/db/repository.py): upsert_daily_prices under PRECEDENCE, *)
(* the corrections it records in ops.vendor_correction, the revert of one,  *)
(* and the operator's edits of the same keys.                               *)
(*                                                                         *)
(* A write is one transaction of two steps at READ COMMITTED: it reads the  *)
(* held rows and decides (ReadHeld), and then writes under the conflict     *)
(* clause, which looks at the row again (Apply).  The corrections are       *)
(* inserted in between, in the same transaction.                            *)
(***************************************************************************)
EXTENDS AuditedRows, FiniteSets

CONSTANTS
  Sessions,   \* concurrent writers
  Serial,     \* whether nothing else writes while a session is in flight
  MaxLog,     \* bound on the corrections recorded per key
  Nothing     \* a session has no row for the key

ASSUME NothingAssumption ==
  /\ Nothing \notin Values /\ Nothing # NoRow /\ Nothing \notin Row
  /\ Serial \in BOOLEAN /\ MaxLog \in Nat

VARIABLES
  over,     \* the active override of each key: none, delete, or an edit
  kept,     \* the row an edit replaced
  pc, src, correct, want,   \* the sessions in flight and the rows they bring
  held      \* what a session read for the keys it is going to write

session == <<pc, src, correct, want, held>>
vars    == <<rows, log, over, kept, session>>

Plans == Row \cup {NoRow, Nothing}

TypeOK ==
  /\ rows \in [Keys -> Row \cup {NoRow}]
  /\ log \in [Keys -> Seq([old : VendorRow, new : VendorRow, open : BOOLEAN])]
  /\ over \in [Keys -> {"none", "delete", "edit"}]
  /\ kept \in [Keys -> VendorRow \cup {NoRow}]
  /\ pc \in [Sessions -> {"idle", "begun", "read"}]
  /\ src \in [Sessions -> Vendors]
  /\ correct \in [Sessions -> BOOLEAN]
  /\ want \in [Sessions -> [Keys -> Values \cup {Nothing}]]
  /\ held \in [Sessions -> [Keys -> Plans]]

NoWant == [k \in Keys |-> Nothing]

Init ==
  /\ ARInit
  /\ over = [k \in Keys |-> "none"]
  /\ kept = [k \in Keys |-> NoRow]
  /\ pc = [w \in Sessions |-> "idle"]
  /\ src \in [Sessions -> Vendors]
  /\ correct = [w \in Sessions |-> FALSE]
  /\ want = [w \in Sessions |-> NoWant]
  /\ held = [w \in Sessions |-> NoWant]

AllIdle == \A w \in Sessions : pc[w] = "idle"
Alone   == Serial => AllIdle

-----------------------------------------------------------------------------
(* The write *)

HeldBelow(k, s) == rows[k] # NoRow /\ Rank[rows[k].src] < Rank[s]

\* An ordinary load sets the operator's dates aside before it writes; a correction
\* brings the rows that differ from those a lower-ranked vendor holds.
Begin(w, s, fix, batch) ==
  /\ pc[w] = "idle" /\ Alone
  /\ fix => \A k \in Keys : batch[k] # Nothing => HeldBelow(k, s)
  /\ pc' = [pc EXCEPT ![w] = "begun"]
  /\ src' = [src EXCEPT ![w] = s]
  /\ correct' = [correct EXCEPT ![w] = fix]
  /\ want' = [want EXCEPT ![w] =
       [k \in Keys |-> IF fix \/ over[k] = "none" THEN batch[k] ELSE Nothing]]
  /\ UNCHANGED <<rows, log, over, kept, held>>

\* The keys a session will write, given what they hold: nobody's, its own, and for a
\* correction those of a lower-ranked party.  A correction leaves operator keys out.
Writable(w, k) ==
  /\ want[w][k] # Nothing
  /\ correct[w] => over[k] = "none"
  /\ \/ rows[k] = NoRow
     \/ rows[k] # NoRow /\ rows[k].src = src[w]
     \/ correct[w] /\ HeldBelow(k, src[w])

ReadHeld(w) ==
  /\ pc[w] = "begun"
  /\ pc' = [pc EXCEPT ![w] = "read"]
  /\ held' = [held EXCEPT ![w] =
       [k \in Keys |-> IF Writable(w, k) THEN rows[k] ELSE Nothing]]
  /\ UNCHANGED <<rows, log, over, kept, src, correct, want>>

\* The correction of a key, recorded from the read.
Records(w, k) ==
  held[w][k] # Nothing /\ held[w][k] # NoRow /\ held[w][k].src # src[w]

Brings(w, k) == [src |-> src[w], val |-> want[w][k]]

\* The conflict clause: the writer's own row, or for a correction a lower-ranked one.
Lands(w, k) ==
  /\ held[w][k] # Nothing
  /\ \/ rows[k] = NoRow
     \/ rows[k] # NoRow /\ rows[k].src = src[w]
     \/ correct[w] /\ HeldBelow(k, src[w])

Rest(w) ==
  /\ pc' = [pc EXCEPT ![w] = "idle"]
  /\ correct' = [correct EXCEPT ![w] = FALSE]
  /\ want' = [want EXCEPT ![w] = NoWant]
  /\ held' = [held EXCEPT ![w] = NoWant]
  /\ src' = src

\* Mutant of Apply: the replaced rows are not recorded.
ApplyUnrecorded(w) ==
  /\ pc[w] = "read"
  /\ rows' = [k \in Keys |-> IF Lands(w, k) THEN Brings(w, k) ELSE rows[k]]
  /\ log' = log
  /\ Rest(w)
  /\ UNCHANGED <<over, kept>>

Apply(w) ==
  /\ pc[w] = "read"
  /\ \A k \in Keys : Records(w, k) => Len(log[k]) < MaxLog
  /\ rows' = [k \in Keys |-> IF Lands(w, k) THEN Brings(w, k) ELSE rows[k]]
  /\ log' = [k \in Keys |-> IF Records(w, k)
                            THEN Append(log[k], Entry(held[w][k], Brings(w, k)))
                            ELSE log[k]]
  /\ Rest(w)
  /\ UNCHANGED <<over, kept>>

\* The transaction rolls back.
Abort(w) ==
  /\ pc[w] # "idle"
  /\ Rest(w)
  /\ UNCHANGED <<rows, log, over, kept>>

-----------------------------------------------------------------------------
(* The operator *)

\* revert_vendor_correction: refused unless the row is what the correction wrote.
Revert(k, i) ==
  /\ Alone
  /\ i \in 1..Len(log[k])
  /\ log[k][i].open
  /\ rows[k] = log[k][i].new
  /\ rows' = [rows EXCEPT ![k] = log[k][i].old]
  /\ log' = [log EXCEPT ![k][i].open = FALSE]
  /\ UNCHANGED <<over, kept, session>>

\* delete_operator_bars on one date.
DeleteBar(k) ==
  /\ Alone
  /\ rows[k] \in VendorRow /\ over[k] = "none"
  /\ rows' = [rows EXCEPT ![k] = NoRow]
  /\ over' = [over EXCEPT ![k] = "delete"]
  /\ UNCHANGED <<log, kept, session>>

\* replace_operator_bars for a rescale of one date.
EditBar(k, v) ==
  /\ Alone
  /\ rows[k] \in VendorRow /\ over[k] = "none"
  /\ rows' = [rows EXCEPT ![k] = [src |-> Operator, val |-> v]]
  /\ over' = [over EXCEPT ![k] = "edit"]
  /\ kept' = [kept EXCEPT ![k] = rows[k]]
  /\ UNCHANGED <<log, session>>

\* revoke_operator_override of a delete.
RevokeDelete(k) ==
  /\ Alone
  /\ over[k] = "delete"
  /\ over' = [over EXCEPT ![k] = "none"]
  /\ UNCHANGED <<rows, log, kept, session>>

\* revoke_price_edit.
RevokeEdit(k) ==
  /\ Alone
  /\ over[k] = "edit"
  /\ rows' = [rows EXCEPT ![k] = kept[k]]
  /\ over' = [over EXCEPT ![k] = "none"]
  /\ kept' = [kept EXCEPT ![k] = NoRow]
  /\ UNCHANGED <<log, session>>

-----------------------------------------------------------------------------
SessionStep(w) ==
  \/ \E s \in Vendors, fix \in BOOLEAN, batch \in [Keys -> Values \cup {Nothing}] :
       Begin(w, s, fix, batch)
  \/ ReadHeld(w)
  \/ Apply(w)
  \/ Abort(w)

\* `vendor-corrections revert`: of one logged replacement, by its id.
VendorCorrectionsRevert(k) == \E i \in 1..MaxLog : Revert(k, i)

OperatorStep(k) ==
  \/ VendorCorrectionsRevert(k)
  \/ \E v \in Values : EditBar(k, v)
  \/ DeleteBar(k)
  \/ RevokeDelete(k)
  \/ RevokeEdit(k)

Next ==
  \/ \E w \in Sessions : SessionStep(w)
  \/ \E k \in Keys : OperatorStep(k)

Spec == Init /\ [][Next]_vars

-----------------------------------------------------------------------------
(* Properties *)

\* Every write is a write of the audited table: a vendor's row that another vendor
\* replaces is on record as it stood (PRECEDENCE; ADR 0015 section 3).
Audited == ARSpec

\* Whatever a session read before, its write never takes a row from a higher rank:
\* a row passes to a lower-ranked party only when the operator undoes something
\* (upsert_daily_prices: "a row another writer changed between the read and the
\* write is still never overwritten by a lower rank").
RankNeverDrops ==
  [][\A k \in Keys :
       (rows[k] # NoRow /\ rows'[k] # NoRow /\ Rank[rows'[k].src] < Rank[rows[k].src])
       => session' = session]_vars

\* An operator's row is there exactly while its edit is active.
OperatorRowsStand ==
  \A k \in Keys : over[k] = "edit" <=> (rows[k] # NoRow /\ rows[k].src = Operator)

\* A row that a writer replaces is in ops.vendor_correction as it stood ("each
\* replaced row is kept in ops.vendor_correction first").
ReplacedRowsKept ==
  [][\A k \in Keys :
       (/\ rows[k] # NoRow /\ rows'[k] # NoRow /\ rows'[k].src # rows[k].src
        /\ session' # session)
       => \E i \in 1..Len(log'[k]) : log'[k][i] = Entry(rows[k], rows'[k])]_vars

\* A revert undoes the newest standing correction of its key, so that no later
\* correction is lost under it (revert_vendor_correction: "a later load or
\* correction changed it since, and writing the old values over that would lose it").
NewestRevertedFirst ==
  [][\A k \in Keys : \A i, j \in 1..MaxLog :
       (/\ i < j /\ j <= Len(log[k]) /\ j <= Len(log'[k])
        /\ log[k][i].open /\ ~log'[k][i].open)
       => ~log[k][j].open]_vars
=============================================================================
