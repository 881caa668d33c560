-------------------------- MODULE StatementHistory --------------------------
(***************************************************************************)
(* What the statement tables promise a reader (ADR 0018): a question put   *)
(* for one knowledge day, asked of what was held on one load day, always   *)
(* gets the same answer, and the only answers for days already gone by     *)
(* that a load may change are first reports.                               *)
(*                                                                         *)
(* `held[t][p][d]` is what a read as of day d, at the end of load day t,   *)
(* answers for period p: the version in force and its figures.             *)
(***************************************************************************)
EXTENDS Integers

CONSTANTS
    LoadDays,        \* the days a load can run on
    KnowledgeDays,   \* the days a reader may ask about
    Periods          \* the fiscal periods of one security's statement

VARIABLES
    today,
    held

vars == <<today, held>>

----------------------------------------------------------------------------
\* A first report may be added, corrected or re-dated (version 1, or no answer,
\* on both sides). Anything else only ever moves forward, from today on.
MayBecome(d, old, new) ==
    \/ new = old
    \/ old.no <= 1 /\ new.no <= 1
    \/ d >= today /\ new.no > old.no

\* The warehouse starts empty: no day of any period has an answer.
Init ==
    /\ today \in LoadDays
    /\ \A t \in LoadDays, p \in Periods, d \in KnowledgeDays : held[t][p][d].no = 0

\* A load answers anew for today and every later reading; days gone by keep
\* what they answered.
Load(now) ==
    /\ \A p \in Periods, d \in KnowledgeDays :
           MayBecome(d, held[today][p][d], now[p][d])
    /\ held' = [t \in LoadDays |-> IF t < today THEN held[t] ELSE now]

Next ==
    /\ today' \in {today, today + 1}
    /\ Load(held'[today])

Spec == Init /\ [][Next]_vars
=============================================================================
