------------------------------ MODULE DqFlags ------------------------------
(***************************************************************************)
(* The review queue of standing data-quality conditions,                    *)
(* ops.data_quality_flag (src/src/fafnir/db/repository.py): the checks that *)
(* re-detect a condition every night and flag it once, the operator who     *)
(* resolves, accepts and reopens flags, `dq recheck`, which closes what no  *)
(* longer holds, and the merge that makes two securities' flags one's.      *)
(*                                                                         *)
(* The price_* quarantines are not here: each detection is a row of its own *)
(* and PriceLoad counts them.                                               *)
(*                                                                         *)
(* A check is one INSERT ... SELECT ... WHERE NOT EXISTS: it decides from   *)
(* the rows committed when it starts (Detect) and the unique index looks    *)
(* again when it inserts (InsertFlag, or Collide).  A command that asks     *)
(* for confirmation lists first and updates after.                          *)
(***************************************************************************)
EXTENDS Integers, FiniteSets

CONSTANTS
  Securities,
  RecordKeys, \* record keys of one check
  Dated,      \* those with a date, or with the members of a cohort
  Ids,        \* dq_flag_id (bound on the rows ever written)
  Checkers,   \* concurrent runs of the check
  MaxEdits,   \* bound on what the operator and the data do
  NoCondition

Conditions == Securities \X RecordKeys

ASSUME ConditionAssumption ==
  NoCondition \notin Conditions /\ Dated \subseteq RecordKeys /\ MaxEdits \in Nat

VARIABLES
  present,  \* the conditions that hold in the warehouse
  alive,    \* securities not merged away
  cond,     \* (security_id, record_key) of each flag
  state,    \* of each flag: open, resolved, accepted; none before, gone if deleted
  labels,   \* flags whose closure stated a label that still stands
  pc, found,                  \* the checks in flight and what they will flag
  asked, chosen, shown,       \* an operator's command awaiting its confirmation
  stale,                      \* what a recheck is about to close
  edits

data  == <<present, alive>>
queue == <<cond, state, labels>>
check == <<pc, found>>
ask   == <<asked, chosen, shown>>
queueVars == <<data, queue, check, ask, stale, edits>>

States    == {"none", "open", "resolved", "accepted", "gone"}
Decisions == {"resolve", "accept"}

QueueTypeOK ==
  /\ present \in SUBSET Conditions
  /\ alive \in SUBSET Securities
  /\ cond \in [Ids -> Conditions \cup {NoCondition}]
  /\ state \in [Ids -> States]
  /\ \A i \in Ids : state[i] # "none" => cond[i] \in Conditions
  /\ labels \in SUBSET Ids
  /\ pc \in [Checkers -> {"idle", "detected"}]
  /\ found \in [Checkers -> SUBSET Conditions]
  /\ asked \in Decisions \cup {"nothing"}
  /\ chosen \in SUBSET Conditions
  /\ shown \in SUBSET Ids
  /\ stale \in SUBSET Ids
  /\ edits \in 0..MaxEdits

QueueInit ==
  /\ present = {} /\ alive = Securities
  /\ cond = [i \in Ids |-> NoCondition]
  /\ state = [i \in Ids |-> "none"]
  /\ labels = {}
  /\ pc = [c \in Checkers |-> "idle"]
  /\ found = [c \in Checkers |-> {}]
  /\ asked = "nothing" /\ chosen = {} /\ shown = {}
  /\ stale = {} /\ edits = 0

Edit == edits < MaxEdits /\ edits' = edits + 1

Open     == {i \in Ids : state[i] = "open"}
Accepted == {i \in Ids : state[i] = "accepted"}

\* The condition of a flag that is open, or accepted.
HasOpen(c)     == \E i \in Open : cond[i] = c
HasAccepted(c) == \E i \in Accepted : cond[i] = c

-----------------------------------------------------------------------------
(* The checks *)

\* Mutant of Unflagged: a check that skips what was ever resolved.
UnflaggedOnceResolved(c) ==
  ~HasOpen(c) /\ ~HasAccepted(c) /\ ~\E i \in Ids : state[i] = "resolved" /\ cond[i] = c

\* The two NOT EXISTS probes of add_dq_flag_once and of each check.
Unflagged(c) == ~HasOpen(c) /\ ~HasAccepted(c)

Detect(w) ==
  /\ pc[w] = "idle"
  /\ pc' = [pc EXCEPT ![w] = "detected"]
  /\ found' = [found EXCEPT ![w] = {c \in present : Unflagged(c)}]
  /\ found'[w] # {}
  /\ UNCHANGED <<data, queue, ask, stale, edits>>

Finished(w) ==
  /\ pc' = [pc EXCEPT ![w] = "idle"]
  /\ found' = [found EXCEPT ![w] = {}]
  /\ UNCHANGED <<data, ask, stale, edits>>

\* An assignment of fresh ids to the conditions a check writes.
Numberings(S) ==
  {f \in [S -> {i \in Ids : state[i] = "none"}] :
     \A c, d \in S : f[c] = f[d] => c = d}

\* Mutant of SlotsFree: the index is gone, and the probe alone decides.
SlotsAssumed(S) == TRUE

\* ux_dq_flag_open_condition allows the insert.
SlotsFree(S) == \A c \in S : ~HasOpen(c)

InsertFlag(w) ==
  /\ pc[w] = "detected"
  /\ SlotsFree(found[w])
  /\ Numberings(found[w]) # {}
  /\ LET f == CHOOSE g \in Numberings(found[w]) : TRUE
         written == {f[c] : c \in found[w]}
     IN /\ state' = [i \in Ids |-> IF i \in written THEN "open" ELSE state[i]]
        /\ cond' = [i \in Ids |-> IF i \in written
                                  THEN CHOOSE c \in found[w] : f[c] = i
                                  ELSE cond[i]]
  /\ labels' = labels
  /\ Finished(w)

\* A row committed since the probe: UniqueViolation, and the run rolls back.
Collide(w) ==
  /\ pc[w] = "detected"
  /\ ~SlotsFree(found[w])
  /\ UNCHANGED queue
  /\ Finished(w)

\* The run dies.
Abort(w) ==
  /\ pc[w] = "detected"
  /\ UNCHANGED queue
  /\ Finished(w)

-----------------------------------------------------------------------------
(* The operator *)

\* dq resolve and dq accept list and count the open flags their filter selects ...
Ask(decision, S) ==
  /\ Edit /\ asked = "nothing"
  /\ {i \in Open : cond[i] \in S} # {}
  /\ asked' = decision /\ chosen' = S
  /\ shown' = {i \in Open : cond[i] \in S}
  /\ UNCHANGED <<data, queue, check, stale>>

Closed(decision) == IF decision = "accept" THEN "accepted" ELSE "resolved"

NothingAsked == asked' = "nothing" /\ chosen' = {} /\ shown' = {}

\* flag_label_rows: a flag without a date or members is skipped.
Labelable(S) == {i \in S : cond[i][2] \in Dated}

\* The labels that --label states for the flags just closed, in their transaction.
Stated(S, withLabel) == IF withLabel THEN Labelable(S) ELSE {}

\* ... and, confirmed, update the flags that the filter selects by then, stating a
\* label with each if asked to.
Confirm(withLabel) ==
  /\ asked # "nothing"
  /\ LET closing == {i \in Open : cond[i] \in chosen}
     IN /\ state' = [i \in Ids |-> IF i \in closing THEN Closed(asked) ELSE state[i]]
        /\ labels' = labels \cup Stated(closing, withLabel)
  /\ cond' = cond
  /\ NothingAsked
  /\ UNCHANGED <<data, check, stale, edits>>

Decline ==
  /\ asked # "nothing"
  /\ NothingAsked
  /\ UNCHANGED <<data, queue, check, stale, edits>>

\* reopen_dq_flags of one id, when the condition's slot is free.
Reopen(i) ==
  /\ Edit
  /\ state[i] \in {"resolved", "accepted"} /\ ~HasOpen(cond[i])
  /\ state' = [state EXCEPT ![i] = "open"]
  /\ labels' = labels \ {i}
  /\ cond' = cond
  /\ UNCHANGED <<data, check, ask, stale>>

\* `dq label revoke` takes a label back and leaves the flag as it is.
RevokeLabel(i) ==
  /\ i \in labels
  /\ labels' = labels \ {i}
  /\ UNCHANGED <<data, cond, state, check, ask, stale, edits>>

\* dq recheck lists the open flags whose condition no longer holds ...
Recheck ==
  /\ stale = {}
  /\ stale' = {i \in Open : cond[i] \notin present}
  /\ stale' # {}
  /\ UNCHANGED <<data, queue, check, ask, edits>>

\* ... and closes those of them still open.
CloseStale ==
  /\ stale # {}
  /\ state' = [i \in Ids |-> IF i \in stale /\ state[i] = "open" THEN "resolved"
                             ELSE state[i]]
  /\ stale' = {}
  /\ UNCHANGED <<cond, labels, data, check, ask, edits>>

-----------------------------------------------------------------------------
(* The warehouse *)

\* Loads and repairs make a condition hold, or stop holding.
ConditionChanges(c) ==
  /\ Edit
  /\ c[1] \in alive
  /\ present' = IF c \in present THEN present \ {c} ELSE present \cup {c}
  /\ UNCHANGED <<alive, queue, check, ask, stale>>

\* Mutant of RedundantFlags: the victim's open flags are repointed with the rest.
RedundantNever(v, s) == {}

\* The victim's open flags for conditions the survivor has open too: deleted.
RedundantFlags(v, s) ==
  {i \in Open : cond[i][1] = v /\ HasOpen(<<s, cond[i][2]>>)}

\* The flags as merge_security leaves them.
MergedState(v, s) ==
  [i \in Ids |-> IF i \in RedundantFlags(v, s) THEN "gone" ELSE state[i]]
MergedCond(v, s) ==
  [i \in Ids |-> IF state[i] # "none" /\ i \notin RedundantFlags(v, s) /\ cond[i][1] = v
                 THEN <<s, cond[i][2]>> ELSE cond[i]]

\* merge_security, as far as the queue goes: what then holds of the survivor is some
\* of what held of the two.
Merge(v, s) ==
  /\ Edit
  /\ v # s /\ {v, s} \subseteq alive
  /\ alive' = alive \ {v}
  /\ state' = MergedState(v, s)
  /\ cond' = MergedCond(v, s)
  /\ \E S \in SUBSET {c \in Conditions : c[1] = s /\ {c, <<v, c[2]>>} \cap present # {}} :
       present' = {c \in present : c[1] \notin {v, s}} \cup S
  /\ UNCHANGED <<labels, check, ask, stale>>

-----------------------------------------------------------------------------
\* One run of `dq run`'s SQL checks.
CheckStep(w) ==
  \/ Detect(w)
  \/ InsertFlag(w)
  \/ Collide(w)
  \/ Abort(w)

\* `dq reopen` of the ids it is given, one after the other.
DqReopen == \E i \in Ids : Reopen(i)

ReviewStep ==
  \/ \E d \in Decisions, S \in SUBSET Conditions : Ask(d, S)
  \/ \E l \in BOOLEAN : Confirm(l)
  \/ Decline
  \/ DqReopen
  \/ \E i \in Ids : RevokeLabel(i)
  \/ Recheck
  \/ CloseStale

WarehouseStep ==
  \/ \E c \in Conditions : ConditionChanges(c)
  \/ \E v, s \in Securities : Merge(v, s)

QueueNext == (\E w \in Checkers : CheckStep(w)) \/ ReviewStep \/ WarehouseStep

QueueSpec == QueueInit /\ [][QueueNext]_queueVars

\* A check runs every night, ends one way or the other, and does not fail on every
\* night that nothing collides.
Fairness ==
  \A w \in Checkers :
    WF_queueVars(Detect(w)) /\ WF_queueVars(Collide(w)) /\ SF_queueVars(InsertFlag(w))

FairSpec == QueueSpec /\ Fairness

-----------------------------------------------------------------------------
(* Properties *)

\* One unresolved problem is one unresolved row, however checks, reopens and merges
\* interleave (ux_dq_flag_open_condition).
OneOpenPerCondition ==
  \A i, j \in Open : cond[i] = cond[j] => i = j

\* Whatever two living securities carry, merging them leaves every condition one
\* open row: the repoint never aborts a merge (merge_security, "a
\* ux_dq_flag_open_condition violation that would abort the whole merge").
MergesNeverCollide ==
  \A v, s \in alive : v # s =>
    \A i, j \in Ids :
      (/\ MergedState(v, s)[i] = "open" /\ MergedState(v, s)[j] = "open"
       /\ MergedCond(v, s)[i] = MergedCond(v, s)[j]) => i = j

\* A label stated with a closure stands only while the flag is closed
\* (reopen_dq_flags: the label "was that decision, and goes with it").
LabelledIsClosed == \A i \in labels : state[i] \in {"resolved", "accepted"}

\* A condition that goes on holding is in the queue or accepted, sooner or later,
\* although a resolve or a recheck may close its flag while it holds
\* (resolve_dq_flags: "a flag that comes back is the check saying the problem never
\* went away").
StillTrueIsQueued ==
  \A c \in Conditions : []<>(c \notin present \/ HasOpen(c) \/ HasAccepted(c))

\* No check writes a condition that somebody accepted and has not reopened: a flag
\* of an accepted condition opens by the operator's hand or a merge only
\* (accept_dq_flags: "so the checks skip it").
AcceptedNotReflagged ==
  [][\A i \in Ids :
       (state[i] = "none" /\ state'[i] = "open")
       => ~\E j \in Ids : state[j] = "accepted" /\ cond[j] = cond'[i]]_queueVars

\* A row that is open is one nobody has decided about: no acceptance makes the
\* checks skip its condition (reopen_dq_flags).
OpenIsUndecided == \A i \in Open : ~HasAccepted(cond[i])

\* A resolve closes the rows its listing showed and no others (DqFilter: "closes
\* exactly the rows `fafnir dq list` shows").
ClosesOnlyShown ==
  [][(asked # "nothing" /\ asked' = "nothing") =>
       \A i \in Ids : state'[i] # state[i] => i \in shown]_queueVars
=============================================================================
