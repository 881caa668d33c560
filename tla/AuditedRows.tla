---------------------------- MODULE AuditedRows ----------------------------
(***************************************************************************)
(* What the shared bar table promises its readers (PRECEDENCE and the       *)
(* comment on it, src/src/fafnir/db/repository.py): a vendor revises its    *)
(* own rows, takes a row of a lower-ranked vendor only by recording that    *)
(* row as it stood, and a recorded row can be put back.  One write          *)
(* transaction is one step here.                                            *)
(***************************************************************************)
EXTENDS Integers, Sequences

CONSTANTS
  Keys,      \* (security, trade date)
  Values,    \* what a row may hold
  Vendors,   \* the vendors that load
  Rank,      \* PRECEDENCE
  NoRow

Operator == "operator"
Sources  == Vendors \cup {Operator}
Row      == [src : Sources, val : Values]
VendorRow == [src : Vendors, val : Values]

ASSUME RankAssumption ==
  /\ Rank \in [Sources -> Nat]
  /\ Operator \notin Vendors
  /\ \A s \in Vendors : Rank[s] < Rank[Operator]
ASSUME NoRowAssumption == NoRow \notin Row

VARIABLES
  rows,  \* core.daily_price
  log    \* ops.vendor_correction, per key, oldest first

Entry(old, new) == [old |-> old, new |-> new, open |-> TRUE]

ARInit ==
  /\ rows = [k \in Keys |-> NoRow]
  /\ log = [k \in Keys |-> << >>]

\* What a write of vendor s may do to one key.
Untouched(k) == rows'[k] = rows[k] /\ log'[k] = log[k]

Revises(k, s) ==
  /\ rows[k] = NoRow \/ (rows[k] # NoRow /\ rows[k].src = s)
  /\ rows'[k] \in VendorRow /\ rows'[k].src = s
  /\ log'[k] = log[k]

Outranks(k, s) ==
  /\ rows[k] # NoRow /\ Rank[rows[k].src] < Rank[s]
  /\ rows'[k] \in VendorRow /\ rows'[k].src = s
  /\ log'[k] = Append(log[k], Entry(rows[k], rows'[k]))

Write(s) ==
  /\ DOMAIN rows' = Keys /\ DOMAIN log' = Keys
  /\ \A k \in Keys : Untouched(k) \/ Revises(k, s) \/ Outranks(k, s)

\* A recorded row goes back while its replacement still stands.
Restore(k, i) ==
  /\ log[k][i].open /\ rows[k] = log[k][i].new
  /\ rows' = [rows EXCEPT ![k] = log[k][i].old]
  /\ log' = [log EXCEPT ![k][i].open = FALSE]

\* The operator removes a vendor's row, replaces it by one of his own, or puts a
\* vendor's row back in place of his own.
Operate(k) ==
  \E r \in Row \cup {NoRow} :
    /\ rows[k] # NoRow
    /\ r \in VendorRow => rows[k].src = Operator
    /\ rows' = [rows EXCEPT ![k] = r]
    /\ log' = log

ARNext ==
  \/ \E s \in Vendors : Write(s)
  \/ \E k \in Keys : \E i \in 1..Len(log[k]) : Restore(k, i)
  \/ \E k \in Keys : Operate(k)

ARSpec == ARInit /\ [][ARNext]_<<rows, log>>
=============================================================================
