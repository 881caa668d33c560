---------------------------- MODULE ByHandProofs ----------------------------
(***************************************************************************)
(* What holds of what operators do by hand, for any securities, dates,      *)
(* vendors, flags and number of operations: first the review queue beside   *)
(* the checks that fill it (DqFlags), then histories edited, split and       *)
(* given back beside vendors that load (HistoryEdits).                      *)
(***************************************************************************)
EXTENDS DqFlags, HistoryEdits, FiniteSetTheorems, WellFoundedInduction, TLAPS

-----------------------------------------------------------------------------
(* The queue: the inductive invariant is the type invariant, one open row per *)
(* condition, and that only closed flags carry labels.                        *)

QueueInv == QueueTypeOK /\ OneOpenPerCondition /\ LabelledIsClosed

\* What a check writes: fresh ids, one per condition, each for its own condition.
LEMMA FlagFacts ==
  ASSUME QueueTypeOK, NEW w \in Checkers, InsertFlag(w)
  PROVE  \E f \in Numberings(found[w]) :
           /\ \A i \in Ids : (\A c \in found[w] : f[c] # i) =>
                               state'[i] = state[i] /\ cond'[i] = cond[i]
           /\ \A c \in found[w] : state'[f[c]] = "open" /\ cond'[f[c]] = c
           /\ state' \in [Ids -> States]
           /\ cond' \in [Ids -> Conditions \cup {NoCondition}]
           /\ DOMAIN state' = Ids /\ DOMAIN cond' = Ids
<1> DEFINE f == CHOOSE g \in Numberings(found[w]) : TRUE
           written == {f[c] : c \in found[w]}
<1>1. f \in Numberings(found[w])
  BY DEF InsertFlag
<1>2. /\ state' = [i \in Ids |-> IF i \in written THEN "open" ELSE state[i]]
      /\ cond' = [i \in Ids |-> IF i \in written
                                THEN CHOOSE c \in found[w] : f[c] = i
                                ELSE cond[i]]
  BY DEF InsertFlag
<1> HIDE DEF f
<1>3. /\ f \in [found[w] -> Ids]
      /\ \A c, d \in found[w] : f[c] = f[d] => c = d
  BY <1>1 DEF Numberings
<1>4. \A c \in found[w] : (CHOOSE d \in found[w] : f[d] = f[c]) = c
  BY <1>3
<1>5. ASSUME NEW c \in found[w]
      PROVE  state'[f[c]] = "open" /\ cond'[f[c]] = c
  <2>1. f[c] \in written /\ f[c] \in Ids
    BY <1>3
  <2> QED  BY <2>1, <1>2, <1>4
<1>6. ASSUME NEW i \in Ids, \A c \in found[w] : f[c] # i
      PROVE  state'[i] = state[i] /\ cond'[i] = cond[i]
  BY <1>6, <1>2
<1>7. found[w] \subseteq Conditions
  BY DEF QueueTypeOK
<1>8. \A i \in written : \E c \in found[w] : f[c] = i
  OBVIOUS
<1>9. \A i \in written : (CHOOSE c \in found[w] : f[c] = i) \in Conditions
  BY <1>8, <1>7
<1>10. /\ state' \in [Ids -> States]
       /\ cond' \in [Ids -> Conditions \cup {NoCondition}]
  BY <1>2, <1>9 DEF QueueTypeOK, States
<1>11. DOMAIN state' = Ids /\ DOMAIN cond' = Ids
  BY <1>10
<1> QED  BY <1>1, <1>5, <1>6, <1>10, <1>11

\* A check's insert keeps the invariant: the probe's answer may be old, but the index
\* looks again.
LEMMA FlagKeeps ==
  ASSUME QueueInv, NEW w \in Checkers, InsertFlag(w)
  PROVE  QueueInv'
<1> USE DEF QueueInv
<1>1. PICK f \in Numberings(found[w]) :
           /\ \A i \in Ids : (\A c \in found[w] : f[c] # i) =>
                               state'[i] = state[i] /\ cond'[i] = cond[i]
           /\ \A c \in found[w] : state'[f[c]] = "open" /\ cond'[f[c]] = c
           /\ state' \in [Ids -> States]
           /\ cond' \in [Ids -> Conditions \cup {NoCondition}]
           /\ DOMAIN state' = Ids /\ DOMAIN cond' = Ids
  BY FlagFacts
<1>2. f \in [found[w] -> Ids] /\ \A c \in found[w] : state[f[c]] = "none"
  BY DEF Numberings
<1>3. found[w] \subseteq Conditions /\ SlotsFree(found[w])
  BY DEF QueueTypeOK, InsertFlag
<1>4. QueueTypeOK'
  <2>1. ASSUME NEW i \in Ids, state'[i] # "none" PROVE cond'[i] \in Conditions
    <3>1. CASE \E c \in found[w] : f[c] = i
      BY <3>1, <1>1, <1>3
    <3>2. CASE \A c \in found[w] : f[c] # i
      BY <3>2, <1>1, <2>1 DEF QueueTypeOK
    <3> QED  BY <3>1, <3>2
  <2>2. UNCHANGED <<data, ask, stale, edits, labels>> /\ Finished(w)
    BY DEF InsertFlag, Finished
  <2> QED  BY <2>1, <2>2, <1>1 DEF QueueTypeOK, Finished, data, ask
<1>5. OneOpenPerCondition'
  <2> SUFFICES ASSUME NEW i \in Open', NEW j \in Open', cond'[i] = cond'[j]
               PROVE  i = j
    BY DEF OneOpenPerCondition
  <2>1. i \in Ids /\ j \in Ids /\ state'[i] = "open" /\ state'[j] = "open"
    BY DEF Open
  <2>2. ASSUME NEW k \in Ids, state'[k] = "open", \A c \in found[w] : f[c] # k
        PROVE  k \in Open /\ cond'[k] = cond[k] /\ cond[k] \notin found[w]
    <3>1. k \in Open /\ cond'[k] = cond[k]
      BY <2>2, <1>1 DEF Open
    <3> QED  BY <3>1, <1>3 DEF SlotsFree, HasOpen
  <2>3. CASE (\E c \in found[w] : f[c] = i) /\ (\E c \in found[w] : f[c] = j)
    BY <2>3, <1>1
  <2>4. CASE (\A c \in found[w] : f[c] # i) /\ (\A c \in found[w] : f[c] # j)
    BY <2>4, <2>1, <2>2 DEF OneOpenPerCondition
  <2>5. CASE (\E c \in found[w] : f[c] = i) /\ (\A c \in found[w] : f[c] # j)
    BY <2>5, <2>1, <2>2, <1>1
  <2>6. CASE (\A c \in found[w] : f[c] # i) /\ (\E c \in found[w] : f[c] = j)
    BY <2>6, <2>1, <2>2, <1>1
  <2> QED  BY <2>3, <2>4, <2>5, <2>6
<1>6. LabelledIsClosed'
  <2> SUFFICES ASSUME NEW i \in labels' PROVE state'[i] \in {"resolved", "accepted"}
    BY DEF LabelledIsClosed
  <2>1. i \in labels /\ i \in Ids /\ state[i] \in {"resolved", "accepted"}
    BY DEF InsertFlag, LabelledIsClosed, QueueTypeOK
  <2>2. \A c \in found[w] : f[c] # i
    BY <2>1, <1>2
  <2> QED  BY <2>1, <2>2, <1>1
<1> QED  BY <1>4, <1>5, <1>6

\* The states of the flags after a merge, and what they are about.
LEMMA MergedFacts ==
  ASSUME QueueTypeOK, NEW v \in Securities, NEW s \in Securities, v # s
  PROVE  /\ MergedState(v, s) \in [Ids -> States]
         /\ MergedCond(v, s) \in [Ids -> Conditions \cup {NoCondition}]
         /\ \A i \in Ids : MergedState(v, s)[i] # "none" =>
                             MergedCond(v, s)[i] \in Conditions
         /\ \A i \in Ids : MergedState(v, s)[i] = "open" =>
                             i \in Open /\ i \notin RedundantFlags(v, s)
<1>1. ASSUME NEW i \in Ids, state[i] # "none"
      PROVE  cond[i] \in Conditions /\ <<s, cond[i][2]>> \in Conditions
  BY <1>1 DEF QueueTypeOK, Conditions
<1> QED  BY <1>1 DEF QueueTypeOK, MergedState, MergedCond, RedundantFlags, Open, States

\* Merging two securities never leaves two open rows of one condition.
LEMMA MergedSlots ==
  ASSUME QueueTypeOK, OneOpenPerCondition, NEW v \in Securities, NEW s \in Securities, v # s,
         NEW i \in Ids, NEW j \in Ids,
         MergedState(v, s)[i] = "open", MergedState(v, s)[j] = "open",
         MergedCond(v, s)[i] = MergedCond(v, s)[j]
  PROVE  i = j
<1>1. /\ i \in Open /\ i \notin RedundantFlags(v, s) /\ cond[i] \in Conditions
      /\ j \in Open /\ j \notin RedundantFlags(v, s) /\ cond[j] \in Conditions
      /\ state[i] # "none" /\ state[j] # "none"
  BY MergedFacts DEF QueueTypeOK, Open
<1>2. /\ MergedCond(v, s)[i] = IF cond[i][1] = v THEN <<s, cond[i][2]>> ELSE cond[i]
      /\ MergedCond(v, s)[j] = IF cond[j][1] = v THEN <<s, cond[j][2]>> ELSE cond[j]
  BY <1>1 DEF MergedCond
<1>3. \A k \in {i, j} : cond[k] = <<cond[k][1], cond[k][2]>>
  BY <1>1 DEF Conditions
<1>4. CASE cond[i][1] = v /\ cond[j][1] = v
  <2>1. <<s, cond[i][2]>> = <<s, cond[j][2]>>
    BY <1>2, <1>4
  <2>2. cond[i][2] = cond[j][2]
    BY <2>1
  <2>3. cond[i] = cond[j]
    BY <1>3, <1>4, <2>2
  <2> QED  BY <1>1, <2>3 DEF OneOpenPerCondition
<1>5. CASE cond[i][1] # v /\ cond[j][1] # v
  BY <1>1, <1>2, <1>5 DEF OneOpenPerCondition
<1>6. CASE cond[i][1] = v /\ cond[j][1] # v
  BY <1>1, <1>2, <1>6 DEF RedundantFlags, HasOpen
<1>7. CASE cond[i][1] # v /\ cond[j][1] = v
  BY <1>1, <1>2, <1>7 DEF RedundantFlags, HasOpen
<1> QED  BY <1>4, <1>5, <1>6, <1>7

LEMMA MergeKeeps ==
  ASSUME QueueInv, NEW v \in Securities, NEW s \in Securities, Merge(v, s)
  PROVE  QueueInv'
<1> USE DEF QueueInv
<1>1. v # s /\ state' = MergedState(v, s) /\ cond' = MergedCond(v, s)
  BY DEF Merge
<1>2. QueueTypeOK'
  <2>1. PICK S \in SUBSET {c \in Conditions : c[1] = s /\ {c, <<v, c[2]>>} \cap present # {}} :
          present' = {c \in present : c[1] \notin {v, s}} \cup S
    BY DEF Merge
  <2>2. present' \in SUBSET Conditions /\ alive' \in SUBSET Securities
    BY <2>1 DEF Merge, QueueTypeOK
  <2>3. edits' \in 0..MaxEdits
    BY ConditionAssumption DEF Merge, Edit, QueueTypeOK
  <2> QED  BY <2>2, <2>3, <1>1, MergedFacts DEF Merge, QueueTypeOK, check, ask
<1>3. OneOpenPerCondition'
  BY <1>1, MergedSlots DEF OneOpenPerCondition, Open
<1>4. LabelledIsClosed'
  BY <1>1 DEF Merge, LabelledIsClosed, MergedState, RedundantFlags, Open, QueueTypeOK
<1> QED  BY <1>2, <1>3, <1>4

\* What an operator's command and a recheck do to the flags.
LEMMA OperatorKeeps ==
  ASSUME QueueInv, ReviewStep
  PROVE  QueueInv'
<1> USE ConditionAssumption DEF QueueInv
<1>1. ASSUME NEW d \in Decisions, NEW S \in SUBSET Conditions, Ask(d, S) PROVE QueueInv'
  <2>1. QueueTypeOK'
    BY <1>1 DEF Ask, Edit, QueueTypeOK, Open, data, queue, check, Decisions
  <2> QED  BY <1>1, <2>1 DEF Ask, queue, OneOpenPerCondition, LabelledIsClosed, Open
<1>2. ASSUME NEW l \in BOOLEAN, Confirm(l) PROVE QueueInv'
  <2> DEFINE closing == {i \in Open : cond[i] \in chosen}
  <2>1. /\ state' = [i \in Ids |-> IF i \in closing THEN Closed(asked) ELSE state[i]]
        /\ labels' \subseteq labels \cup closing /\ cond' = cond
        /\ Closed(asked) \in {"resolved", "accepted"}
    BY <1>2 DEF Confirm, Closed, Stated, Labelable
  <2>2. QueueTypeOK'
    BY <1>2, <2>1 DEF Confirm, NothingAsked, QueueTypeOK, States, Open, data, check
  <2>3. OneOpenPerCondition'
    BY <2>1 DEF OneOpenPerCondition, Open
  <2>4. LabelledIsClosed'
    BY <2>1 DEF LabelledIsClosed, Open, QueueTypeOK
  <2> QED  BY <2>2, <2>3, <2>4
<1>3. CASE Decline
  BY <1>3 DEF Decline, NothingAsked, QueueTypeOK, data, queue, check,
              OneOpenPerCondition, LabelledIsClosed, Open
<1>4. ASSUME NEW i \in Ids, Reopen(i) PROVE QueueInv'
  <2>1. QueueTypeOK'
    BY <1>4 DEF Reopen, Edit, QueueTypeOK, States, data, check, ask
  <2>2. OneOpenPerCondition'
    BY <1>4 DEF Reopen, OneOpenPerCondition, HasOpen, Open, QueueTypeOK
  <2>3. LabelledIsClosed'
    BY <1>4 DEF Reopen, LabelledIsClosed, QueueTypeOK
  <2> QED  BY <2>1, <2>2, <2>3
<1>5. CASE Recheck
  BY <1>5 DEF Recheck, QueueTypeOK, data, queue, check, ask,
              OneOpenPerCondition, LabelledIsClosed, Open
<1>6. CASE CloseStale
  <2>1. QueueTypeOK'
    BY <1>6 DEF CloseStale, QueueTypeOK, States, data, check, ask
  <2> QED  BY <1>6, <2>1 DEF CloseStale, OneOpenPerCondition, LabelledIsClosed, Open, QueueTypeOK
<1>7. ASSUME NEW i \in Ids, RevokeLabel(i) PROVE QueueInv'
  <2>1. labels' \subseteq labels /\ UNCHANGED <<data, cond, state, check, ask, stale, edits>>
    BY <1>7 DEF RevokeLabel
  <2> QED  BY <2>1 DEF data, check, ask, QueueTypeOK, OneOpenPerCondition, LabelledIsClosed, Open
<1> QED  BY <1>1, <1>2, <1>3, <1>4, <1>5, <1>6, <1>7 DEF ReviewStep, DqReopen

LEMMA StepKeeps == QueueInv /\ [QueueNext]_queueVars => QueueInv'
<1> SUFFICES ASSUME QueueInv, [QueueNext]_queueVars PROVE QueueInv'
  OBVIOUS
<1> USE DEF QueueInv
<1>1. ASSUME NEW w \in Checkers, CheckStep(w) PROVE QueueInv'
  <2>1. CASE Detect(w)
    <3>1. QueueTypeOK'
      BY <2>1 DEF Detect, QueueTypeOK, data, queue, ask
    <3> QED  BY <2>1, <3>1 DEF Detect, queue, OneOpenPerCondition, LabelledIsClosed, Open
  <2>2. CASE InsertFlag(w)
    BY <2>2, FlagKeeps
  <2>3. CASE Collide(w) \/ Abort(w)
    <3>1. QueueTypeOK'
      BY <2>3 DEF Collide, Abort, Finished, QueueTypeOK, data, queue, ask
    <3> QED
      BY <2>3, <3>1 DEF Collide, Abort, queue, OneOpenPerCondition, LabelledIsClosed, Open
  <2> QED  BY <1>1, <2>1, <2>2, <2>3 DEF CheckStep
<1>2. CASE ReviewStep
  BY <1>2, OperatorKeeps
<1>3. ASSUME NEW c \in Conditions, ConditionChanges(c) PROVE QueueInv'
  <2>1. QueueTypeOK'
    BY <1>3, ConditionAssumption DEF ConditionChanges, Edit, QueueTypeOK, queue, check, ask
  <2> QED  BY <1>3, <2>1
             DEF ConditionChanges, queue, OneOpenPerCondition, LabelledIsClosed, Open
<1>4. ASSUME NEW v \in Securities, NEW s \in Securities, Merge(v, s) PROVE QueueInv'
  BY <1>4, MergeKeeps
<1>5. CASE UNCHANGED queueVars
  BY <1>5 DEF queueVars, data, queue, check, ask, QueueTypeOK, OneOpenPerCondition,
              LabelledIsClosed, Open
<1> QED  BY <1>1, <1>2, <1>3, <1>4, <1>5 DEF QueueNext, WarehouseStep

LEMMA Starts == QueueInit => QueueInv
BY ConditionAssumption
   DEF QueueInit, QueueInv, QueueTypeOK, OneOpenPerCondition, LabelledIsClosed, Open, States

\* Every reachable state is well typed: a flag that was written is about a condition.
THEOREM QueueTypeCorrect == QueueSpec => []QueueTypeOK
<1>1. QueueInv => QueueTypeOK
  BY DEF QueueInv
<1> QED  BY <1>1, Starts, StepKeeps, PTL DEF QueueSpec

\* However many checks, reopens and merges interleave, a condition has at most one
\* open row (ux_dq_flag_open_condition).
THEOREM OneOpenRow == QueueSpec => []OneOpenPerCondition
<1>1. QueueInv => OneOpenPerCondition
  BY DEF QueueInv
<1> QED  BY <1>1, Starts, StepKeeps, PTL DEF QueueSpec

\* No merge ever runs into that index.
THEOREM MergesFit == QueueSpec => []MergesNeverCollide
<1>1. QueueInv => MergesNeverCollide
  BY MergedSlots DEF QueueInv, MergesNeverCollide, QueueTypeOK
<1> QED  BY <1>1, Starts, StepKeeps, PTL DEF QueueSpec

\* A label stated with a closure never outlives it.
THEOREM LabelsFollowClosures == QueueSpec => []LabelledIsClosed
<1>1. QueueInv => LabelledIsClosed
  BY DEF QueueInv
<1> QED  BY <1>1, Starts, StepKeeps, PTL DEF QueueSpec

-----------------------------------------------------------------------------
(* Rows, keys and records *)

Table == [Secs -> [Keys -> Row \cup {None}]]

LEMMA Given ==
  /\ Src \in Secs /\ Dst \in Secs /\ New \in Secs /\ Src # Dst /\ Src # New /\ Dst # New
  /\ Operator \notin Serving /\ "fmp" \in Serving /\ None \notin Row /\ None \notin Mark
  /\ MaxOps \in Nat /\ MaxFlags \in Nat /\ Dates \subseteq Nat /\ ExDates \subseteq Dates
BY EditsAssumption DEF Secs, Serving

LEMMA RowFields ==
  ASSUME NEW r \in Row
  PROVE  r.val \in Values \cup {-v : v \in Values} /\ r.by \in Serving \cup {Operator} /\ r # None
<1>1. r # None
  BY Given
<1> QED BY <1>1 DEF Row

LEMMA KeyDate ==
  ASSUME NEW k \in Keys
  PROVE  k[2] \in Dates /\ k[2] \in Nat /\ (k \in Bars <=> k[1] = "bar")
<1>1. k[2] \in Dates
  BY Given DEF Keys
<1> QED BY <1>1, Given DEF Bars

LEMMA FedValue ==
  ASSUME NEW v \in Serving, NEW s \in Secs, NEW k \in Keys, Feed[<<v, s, k>>] # None
  PROVE  Feed[<<v, s, k>>] \in Values /\ Values \subseteq Nat \ {0}
<1>1. <<v, s, k>> \in DOMAIN Feed
  BY EditsAssumption
<1>2. Values \subseteq Nat \ {0}
  BY EditsAssumption DEF Values
<1> QED BY <1>1, <1>2 DEF Values

LEMMA FedRow ==
  ASSUME NEW v \in Serving, NEW s \in Secs, NEW k \in Keys, Feed[<<v, s, k>>] # None
  PROVE  [val |-> Feed[<<v, s, k>>], by |-> v] \in Row
BY FedValue DEF Row

(* A row at another scale, or in another's hand, is a row. *)
LEMMA ValuesFlip ==
  ASSUME NEW x \in Values \cup {-v : v \in Values}, NEW scale \in {1, -1}
  PROVE  scale * x \in Values \cup {-v : v \in Values}
<1>1. \A v \in Values : v \in Nat \ {0}
  BY EditsAssumption DEF Values
<1>2. CASE scale = 1
  <2>1. x \in Int
    BY <1>1
  <2>2. 1 * x = x
    BY <2>1
  <2> QED BY <1>2, <2>2
<1>3. CASE scale = -1 /\ x \in Values
  <2>1. (-1) * x = -x
    BY <1>1, <1>3
  <2> QED BY <1>3, <2>1
<1>4. CASE scale = -1 /\ x \in {-v : v \in Values}
  <2>1. PICK v \in Values : x = -v
    BY <1>4
  <2>2. (-1) * x = v
    BY <1>1, <2>1
  <2> QED BY <1>4, <2>2
<1> QED BY <1>2, <1>3, <1>4

LEMMA CopiedIs ==
  ASSUME held \in Table, NEW s \in Secs, NEW k \in Stored(s), NEW scale \in {1, -1}
  PROVE  /\ held[s][k] \in Row /\ k \in Keys
         /\ Copied(s, k, scale) \in Row /\ Copied(s, k, scale).by = Operator
<1>1. held[s][k] \in Row /\ k \in Keys
  BY DEF Table, Stored
<1>2. scale * held[s][k].val \in Values \cup {-v : v \in Values}
  BY <1>1, RowFields, ValuesFlip
<1> QED BY <1>1, <1>2 DEF Copied, Row

LEMMA OwnedRow ==
  ASSUME NEW r \in Row
  PROVE  [r EXCEPT !.by = Operator] \in Row /\ [r EXCEPT !.by = Operator].by = Operator
BY DEF Row

(* What the two writes of a history leave at each key. *)
LEMMA WithoutIs ==
  ASSUME held \in Table, NEW s \in Secs, NEW K
  PROVE  /\ Without(s, K) \in Table
         /\ \A t \in Secs : \A k \in Keys :
              Without(s, K)[t][k] = IF t = s /\ k \in K THEN None ELSE held[t][k]
BY DEF Without, Table

LEMMA PlacedIs ==
  ASSUME NEW h \in Table, NEW s \in Secs, NEW f, \A k \in DOMAIN f \cap Keys : f[k] \in Row \cup {None}
  PROVE  /\ Placed(h, s, f) \in Table
         /\ \A t \in Secs : \A k \in Keys :
              Placed(h, s, f)[t][k] = IF t = s /\ k \in DOMAIN f THEN f[k] ELSE h[t][k]
BY DEF Placed, Table

(* An edit's override, and a split's. *)
LEMMA EditedIs ==
  ASSUME NEW s \in Secs, NEW k \in Keys, NEW op \in {"delete", "add"}, NEW r \in Row, NEW e \in 0..MaxOps
  PROVE  /\ [Plain(s, k, op, r) EXCEPT !.edit = e] =
              [sec |-> s, key |-> k, op |-> op, row |-> r, edit |-> e, split |-> None]
         /\ [Plain(s, k, op, r) EXCEPT !.edit = e] \in Override
BY DEF Plain, Override

LEMMA SplitOffIs ==
  ASSUME NEW s \in Secs, NEW k \in Keys, NEW op \in {"delete", "add"}, NEW r \in Row, NEW m \in Mark
  PROVE  /\ [Plain(s, k, op, r) EXCEPT !.split = m] =
              [sec |-> s, key |-> k, op |-> op, row |-> r, edit |-> 0, split |-> m]
         /\ [Plain(s, k, op, r) EXCEPT !.split = m] \in Override
BY Given DEF Plain, Override

LEMMA PlainTyped ==
  ASSUME NEW s \in Secs, NEW k \in Keys, NEW op \in {"delete", "add"}, NEW r \in Row
  PROVE  LET o == Plain(s, k, op, r)
         IN /\ o \in Override /\ o.sec = s /\ o.key = k /\ o.op = op /\ o.row = r
            /\ o.edit = 0 /\ o.split = None
BY Given DEF Plain, Override

LEMMA OverrideFields ==
  ASSUME NEW o \in Override
  PROVE  /\ o.sec \in Secs /\ o.key \in Keys /\ o.op \in {"delete", "add"} /\ o.row \in Row
         /\ o.edit \in 0..MaxOps /\ o.edit \in Nat /\ o.split \in Mark \cup {None}
BY Given DEF Override

LEMMA Resplit ==
  ASSUME NEW o \in Override, NEW m \in Mark \cup {None}
  PROVE  /\ [o EXCEPT !.split = m] \in Override
         /\ [o EXCEPT !.split = m] = [sec |-> o.sec, key |-> o.key, op |-> o.op, row |-> o.row,
                                      edit |-> o.edit, split |-> m]
BY DEF Override

-----------------------------------------------------------------------------
(* What each operation does *)

(* Everything but the two history variables is typed. *)
Rest ==
  /\ held' \in Table /\ over' \subseteq Override /\ flags' \subseteq Flag
  /\ exists' \in BOOLEAN /\ ops' \in 0..MaxOps

LEMMA Typed ==
  ASSUME TypeOK
  PROVE  /\ held \in Table /\ over \subseteq Override /\ flags \subseteq Flag
         /\ exists \in BOOLEAN /\ ops \in 0..MaxOps /\ ops \in Nat
         /\ before \in [1..MaxOps -> Table \cup {None}]
         /\ since \in [1..MaxOps -> SUBSET (Secs \X Keys)]
BY Given DEF TypeOK, Table

LEMMA OperationIs ==
  ASSUME TypeOK, Operation
  PROVE  ops' \in 0..MaxOps /\ ops' = ops + 1 /\ ops + 1 \in 1..MaxOps
BY Typed, Given DEF Operation


LEMMA RememberIs ==
  ASSUME TypeOK, Rest, NEW n, Remember(n)
  PROVE  /\ TypeOK'
         /\ \A b \in 1..MaxOps :
              /\ before'[b] # None => InForce(b)' /\ ~Entangled(b)'
              /\ b # n /\ before'[b] # None => before'[b] = before[b]
              /\ b = n /\ before'[b] # None => before'[b] = held
              /\ b = n => since'[b] = {}
              /\ b # n /\ InForce(b)' => \A s \in Secs, k \in Keys :
                   <<s, k>> \notin since'[b] => <<s, k>> \notin since[b] /\ held'[s][k] = held[s][k]
<1> DEFINE changed == {x \in Secs \X Keys : held'[x[1]][x[2]] # held[x[1]][x[2]]}
<1>t. /\ held \in Table /\ before \in [1..MaxOps -> Table \cup {None}]
      /\ since \in [1..MaxOps -> SUBSET (Secs \X Keys)]
  BY Typed
<1>1. before' = [b \in 1..MaxOps |-> IF ~InForce(b)' \/ Entangled(b)' THEN None
                                     ELSE IF b = n THEN held ELSE before[b]]
  BY DEF Remember
<1>2. since' = [b \in 1..MaxOps |-> IF b # n /\ InForce(b)' THEN since[b] \cup changed ELSE {}]
  BY DEF Remember
<1>3. changed \subseteq Secs \X Keys
  OBVIOUS
<1>4. \A s \in Secs, k \in Keys : <<s, k>> \notin changed => held'[s][k] = held[s][k]
  OBVIOUS
<1> HIDE DEF changed
<1>5. before' \in [1..MaxOps -> Table \cup {None}]
  BY <1>t, <1>1
<1>6. since' \in [1..MaxOps -> SUBSET (Secs \X Keys)]
  BY <1>t, <1>2, <1>3
<1>7. TypeOK'
  BY <1>5, <1>6 DEF TypeOK, Rest, Table
<1>8. \A b \in 1..MaxOps :
              /\ before'[b] # None => InForce(b)' /\ ~Entangled(b)'
              /\ b # n /\ before'[b] # None => before'[b] = before[b]
              /\ b = n /\ before'[b] # None => before'[b] = held
  BY <1>1
<1>9. \A b \in 1..MaxOps : b = n => since'[b] = {}
  BY <1>2
<1>10. ASSUME NEW b \in 1..MaxOps, b # n, InForce(b)', NEW s \in Secs, NEW k \in Keys,
              <<s, k>> \notin since'[b]
       PROVE  <<s, k>> \notin since[b] /\ held'[s][k] = held[s][k]
  <2>1. since'[b] = since[b] \cup changed
    BY <1>2, <1>10
  <2> QED BY <1>4, <1>10, <2>1
<1> QED BY <1>7, <1>8, <1>9, <1>10

LEMMA AtIs ==
  ASSUME NEW s, NEW k, NEW op
  PROVE  \A o : o \in At(s, k, op) <=> o \in over /\ o.sec = s /\ o.key = k /\ o.op = op
BY DEF At

LEMMA LoadIs ==
  ASSUME TypeOK, NEW v \in Serving, NEW s \in Secs, NEW k \in Keys, Load(v, s, k)
  PROVE  /\ Rest /\ UNCHANGED <<exists, over, flags, ops>> /\ Remember(0)
         /\ ~Suppressed(v, s, k)
         /\ held'[s][k] \in Row /\ held'[s][k].by = v
         /\ \A t \in Secs : \A j \in Keys : ~(t = s /\ j = k) => held'[t][j] = held[t][j]
<1>1. [val |-> Feed[<<v, s, k>>], by |-> v] \in Row
  BY FedRow DEF Load
<1>2. held' = [held EXCEPT ![s][k] = [val |-> Feed[<<v, s, k>>], by |-> v]]
  BY DEF Load
<1>3. /\ held' \in Table /\ held'[s][k] = [val |-> Feed[<<v, s, k>>], by |-> v]
      /\ \A t \in Secs : \A j \in Keys : ~(t = s /\ j = k) => held'[t][j] = held[t][j]
  BY <1>1, <1>2, Typed DEF Table
<1>4. UNCHANGED <<exists, over, flags, ops>> /\ Remember(0) /\ ~Suppressed(v, s, k)
  BY DEF Load
<1> QED BY <1>1, <1>3, <1>4, Typed DEF Rest

LEMMA RaiseIs ==
  ASSUME TypeOK, NEW s \in Secs, NEW a \in Subjects, Raise(s, a)
  PROVE  /\ TypeOK' /\ UNCHANGED <<held, exists, over, ops, before, since>>
         /\ \A f \in flags' : f \in flags \/ (f.stamp = 0 /\ f.on = f.home)
<1>1. [on |-> s, home |-> s, about |-> a, stamp |-> 0] \in Flag
  BY Given DEF Flag
<1> QED BY <1>1 DEF Raise, TypeOK

LEMMA RemovedIs ==
  ASSUME TypeOK, NEW s \in Secs, NEW K, Removed(s, K)
  PROVE  /\ Rest /\ UNCHANGED <<exists, flags>> /\ ops' = ops + 1 /\ Remember(0) /\ K \subseteq Keys
         /\ \A k \in K : At(s, k, "delete") = {}
         /\ over \subseteq over'
         /\ \A o \in over' \ over : /\ o \in Override /\ o.sec = s /\ o.key \in K /\ o.op = "delete"
                                    /\ o.edit = 0 /\ o.split = None
                                    /\ o = Plain(s, o.key, "delete", held[s][o.key])
         /\ \A t \in Secs : \A k \in Keys :
              held'[t][k] = IF t = s /\ k \in K THEN None ELSE held[t][k]
<1>1. K \subseteq Stored(s)
  BY DEF Removed
<1>2. \A k \in K : k \in Keys /\ held[s][k] \in Row
  BY <1>1, Typed DEF Stored, Table
<1>3. over' = over \cup {Plain(s, k, "delete", held[s][k]) : k \in K}
  BY DEF Removed
<1>4. \A k \in K : LET o == Plain(s, k, "delete", held[s][k])
                   IN o \in Override /\ o.sec = s /\ o.key = k /\ o.op = "delete" /\ o.edit = 0 /\ o.split = None
  BY <1>2, PlainTyped
<1>5. \A k \in K : At(s, k, "delete") = {}
  <2>1. Insertable({Plain(s, k, "delete", held[s][k]) : k \in K})
    BY DEF Removed
  <2> QED BY <1>4, <2>1 DEF Insertable
<1>6. held' = Without(s, K) /\ UNCHANGED <<exists, flags>> /\ Remember(0) /\ Operation
  BY DEF Removed
<1>7. held' \in Table /\ \A t \in Secs : \A k \in Keys :
         held'[t][k] = IF t = s /\ k \in K THEN None ELSE held[t][k]
  BY <1>6, Typed, WithoutIs
<1>8. over' \subseteq Override
  BY <1>3, <1>4, Typed
<1>9. Rest
  BY <1>6, <1>7, <1>8, Typed, OperationIs DEF Rest
<1>10. \A o \in over' \ over : /\ o \in Override /\ o.sec = s /\ o.key \in K /\ o.op = "delete"
                               /\ o.edit = 0 /\ o.split = None
                               /\ o = Plain(s, o.key, "delete", held[s][o.key])
  BY <1>3, <1>4
<1> QED BY <1>2, <1>3, <1>5, <1>6, <1>7, <1>9, <1>10 DEF Operation

LEMMA AddActionIs ==
  ASSUME TypeOK, NEW s \in Secs, NEW k \in Keys, NEW v \in Values, AddAction(s, k, v)
  PROVE  /\ Rest /\ UNCHANGED <<exists, flags>> /\ ops' = ops + 1 /\ Remember(0)
         /\ At(s, k, "add") = {}
         /\ over \subseteq over'
         /\ \A o \in over' \ over : /\ o.sec = s /\ o.key = k /\ o.op = "add"
                                    /\ o.edit = 0 /\ o.split = None
         /\ \A o, p \in over' \ over : o = p
         /\ held'[s][k] # None /\ held'[s][k].by = Operator
         /\ \A t \in Secs : \A j \in Keys : ~(t = s /\ j = k) => held'[t][j] = held[t][j]
<1> DEFINE r == [val |-> v, by |-> Operator]
<1>1. r \in Row /\ r.by = Operator /\ r # None
  BY Given DEF Row
<1>2. /\ over' = over \cup {Plain(s, k, "add", r)} /\ Insertable({Plain(s, k, "add", r)})
      /\ held' = [held EXCEPT ![s][k] = r] /\ UNCHANGED <<exists, flags>> /\ Remember(0) /\ Operation
  BY DEF AddAction
<1> HIDE DEF r
<1>3. LET o == Plain(s, k, "add", r)
      IN o \in Override /\ o.sec = s /\ o.key = k /\ o.op = "add" /\ o.edit = 0 /\ o.split = None
  BY <1>1, PlainTyped
<1>4. At(s, k, "add") = {}
  BY <1>2, <1>3 DEF Insertable
<1>5. /\ held' \in Table /\ held'[s][k] = r
      /\ \A t \in Secs : \A j \in Keys : ~(t = s /\ j = k) => held'[t][j] = held[t][j]
  BY <1>1, <1>2, Typed DEF Table
<1>6. Rest
  BY <1>2, <1>3, <1>5, Typed, OperationIs DEF Rest
<1> QED BY <1>1, <1>2, <1>3, <1>4, <1>5, <1>6 DEF Operation

(* Two overrides of one key, as the unique index sees them. *)
Same(o, p) == o.sec = p.sec /\ o.key = p.key /\ o.op = p.op

(* What an operation adds collides with nothing, itself included. *)
AddsOnly(new) ==
  /\ over' = over \cup new /\ new \subseteq Override
  /\ \A o \in new : \A p \in over : ~Same(o, p)
  /\ \A o, p \in new : Same(o, p) => o = p

LEMMA InsertableIs ==
  ASSUME NEW new, Insertable(new)
  PROVE  \A o \in new : \A p \in over : ~Same(o, p)
BY DEF Insertable, At, Same

RedateLeaves(s, k, to, r) ==
  /\ Rest /\ UNCHANGED <<exists, flags>> /\ ops' = ops + 1 /\ Remember(0)
  /\ to \in Keys /\ to # k
  /\ held[s][k] \in Row
  /\ AddsOnly({Plain(s, k, "delete", held[s][k]), Plain(s, to, "add", r)})
  /\ held'[s][k] = None /\ held'[s][to] = r /\ r.by = Operator /\ r \in Row
  /\ \A t \in Secs : \A j \in Keys : ~(t = s /\ j \in {k, to}) => held'[t][j] = held[t][j]

LEMMA RedateIs ==
  ASSUME TypeOK, NEW s \in Secs, NEW k \in Keys, NEW day \in ExDates, Redate(s, k, day)
  PROVE  RedateLeaves(s, k, <<k[1], day>>, [held[s][k] EXCEPT !.by = Operator]) /\ held[s][<<k[1], day>>] = None
<1> DEFINE to == <<k[1], day>>
           r  == [held[s][k] EXCEPT !.by = Operator]
           new == {Plain(s, k, "delete", held[s][k]), Plain(s, to, "add", r)}
<1>1. /\ Operation /\ k \in Stored(s) \ Bars /\ held[s][to] = None /\ Insertable(new)
      /\ over' = over \cup new /\ held' = Placed(Without(s, {k}), s, [j \in {to} |-> r])
      /\ UNCHANGED <<exists, flags>> /\ Remember(0)
  BY DEF Redate
<1>2. to \in Keys /\ k[1] = "action"
  BY <1>1 DEF Keys, Bars
<1>3. held[s][k] \in Row /\ held[s][k] # None
  BY <1>1, Typed DEF Stored, Table
<1>4. r \in Row /\ r.by = Operator /\ to # k
  BY <1>1, <1>3, OwnedRow
<1> HIDE DEF to, r
<1>5. LET o == Plain(s, k, "delete", held[s][k])
      IN o \in Override /\ o.sec = s /\ o.key = k /\ o.op = "delete"
  BY <1>3, PlainTyped
<1>6. LET o == Plain(s, to, "add", r)
      IN o \in Override /\ o.sec = s /\ o.key = to /\ o.op = "add"
  BY <1>2, <1>4, PlainTyped
<1>7. AddsOnly(new)
  <2>1. \A o \in new : \A p \in over : ~Same(o, p)
    BY <1>1, InsertableIs
  <2> QED BY <1>1, <1>5, <1>6, <2>1 DEF AddsOnly, Same
<1>8. Without(s, {k}) \in Table /\ \A t \in Secs : \A j \in Keys :
         Without(s, {k})[t][j] = IF t = s /\ j \in {k} THEN None ELSE held[t][j]
  BY Typed, WithoutIs
<1>9. held' \in Table /\ \A t \in Secs : \A j \in Keys :
         held'[t][j] = IF t = s /\ j \in {to} THEN r ELSE Without(s, {k})[t][j]
  <2> DEFINE f == [j \in {to} |-> r]
  <2>1. DOMAIN f = {to} /\ f[to] = r
    OBVIOUS
  <2> HIDE DEF f
  <2>2. Placed(Without(s, {k}), s, f) \in Table /\ \A t \in Secs : \A j \in Keys :
          Placed(Without(s, {k}), s, f)[t][j] = IF t = s /\ j \in DOMAIN f THEN f[j] ELSE Without(s, {k})[t][j]
    BY <1>4, <1>8, <2>1, PlacedIs
  <2>3. held' = Placed(Without(s, {k}), s, f)
    BY <1>1 DEF f
  <2> QED BY <2>1, <2>2, <2>3
<1>10. Rest
  BY <1>1, <1>7, <1>9, Typed, OperationIs DEF Rest, AddsOnly
<1>11. held'[s][k] = None /\ held'[s][to] = r
       /\ \A t \in Secs : \A j \in Keys : ~(t = s /\ j \in {k, to}) => held'[t][j] = held[t][j]
  BY <1>2, <1>4, <1>8, <1>9
<1>12. ops' = ops + 1
  BY <1>1 DEF Operation
<1>13. RedateLeaves(s, k, to, r)
  BY <1>1, <1>2, <1>3, <1>4, <1>7, <1>10, <1>11, <1>12 DEF RedateLeaves
<1> QED BY <1>1, <1>13 DEF to, r

LEMMA RevokeIs ==
  ASSUME TypeOK, NEW o \in over, Revoke(o)
  PROVE  /\ Rest /\ UNCHANGED <<exists, flags, ops>> /\ Remember(0)
         /\ o.edit = 0 /\ o.split = None /\ over' = over \ {o}
         /\ \A t \in Secs : \A k \in Keys :
              \/ held'[t][k] = held[t][k]
              \/ /\ t = o.sec /\ k = o.key /\ o.op = "add" /\ held'[t][k] = None
<1>1. /\ o.edit = 0 /\ o.split = None /\ over' = over \ {o} /\ UNCHANGED <<exists, flags, ops>> /\ Remember(0)
      /\ held' = held \/ (o.op = "add" /\ held' = Without(o.sec, {o.key}))
  BY DEF Revoke, Alone
<1>2. o.sec \in Secs
  BY Typed, OverrideFields
<1>3. held' \in Table /\ \A t \in Secs : \A k \in Keys :
              \/ held'[t][k] = held[t][k]
              \/ t = o.sec /\ k = o.key /\ o.op = "add" /\ held'[t][k] = None
  BY <1>1, <1>2, Typed, WithoutIs
<1> QED BY <1>1, <1>3, Typed DEF Rest

(* An edit: the rows of K go, and their copies stand where to says. *)
EditDelete(s, k, n)        == [sec |-> s, key |-> k, op |-> "delete", row |-> held[s][k],
                               edit |-> n, split |-> None]
EditAdd(s, k, to, scale, n) == [sec |-> s, key |-> to[k], op |-> "add", row |-> Copied(s, k, scale),
                                edit |-> n, split |-> None]

EditLeaves(s, K, to, scale, n) ==
  /\ Rest /\ UNCHANGED <<exists, flags>> /\ ops' = n /\ n \in 1..MaxOps /\ Remember(n)
  /\ K \subseteq Keys
  /\ AddsOnly({EditDelete(s, k, n) : k \in K} \cup {EditAdd(s, k, to, scale, n) : k \in K})
  /\ \A k \in K : held'[s][to[k]] = Copied(s, k, scale) /\ held'[s][to[k]] # None
                  /\ held'[s][to[k]].by = Operator
  /\ \A j \in Keys : (\A k \in K : to[k] # j) => held'[s][j] = IF j \in K THEN None ELSE held[s][j]
  /\ \A t \in Secs \ {s} : \A j \in Keys : held'[t][j] = held[t][j]

LEMMA ReplaceIs ==
  ASSUME TypeOK, NEW s \in Secs, NEW K \in SUBSET Stored(s), K # {}, NEW to \in [K -> Keys],
         NEW scale \in {1, -1}, \A k, j \in K : to[k] = to[j] => k = j, Replace(s, K, to, scale)
  PROVE  EditLeaves(s, K, to, scale, ops + 1)
<1> DEFINE n == ops + 1
           new == EditRecord(s, K, to, scale, n)
           back == [j \in {to[k] : k \in K} |-> Copied(s, CHOOSE k \in K : to[k] = j, scale)]
<1>1. /\ Operation /\ Insertable(new) /\ over' = over \cup new
      /\ held' = Placed(Without(s, K), s, back) /\ UNCHANGED <<exists, flags>> /\ Remember(n)
  BY DEF Replace
<1>2. n \in 1..MaxOps /\ ops' = n /\ ops' \in 0..MaxOps /\ n \in 0..MaxOps
  BY <1>1, OperationIs
<1>3. K \subseteq Keys /\ \A k \in K : held[s][k] \in Row /\ Copied(s, k, scale) \in Row
                                       /\ Copied(s, k, scale).by = Operator
  <2>1. \A k \in K : k \in Stored(s)
    OBVIOUS
  <2> QED BY <2>1, Typed, CopiedIs
<1> HIDE DEF n
<1>4. \A k \in K : /\ [Plain(s, k, "delete", held[s][k]) EXCEPT !.edit = n] = EditDelete(s, k, n)
                   /\ EditDelete(s, k, n) \in Override
  <2> TAKE k \in K
  <2>1. k \in Keys /\ held[s][k] \in Row
    BY <1>3
  <2> QED BY <1>2, <2>1, EditedIs DEF EditDelete
<1>5. \A k \in K : /\ [Plain(s, to[k], "add", Copied(s, k, scale)) EXCEPT !.edit = n] = EditAdd(s, k, to, scale, n)
                   /\ EditAdd(s, k, to, scale, n) \in Override
  <2> TAKE k \in K
  <2>1. to[k] \in Keys /\ Copied(s, k, scale) \in Row
    BY <1>3
  <2> QED BY <1>2, <2>1, EditedIs DEF EditAdd
<1>6. new = {EditDelete(s, k, n) : k \in K} \cup {EditAdd(s, k, to, scale, n) : k \in K}
  BY <1>4, <1>5 DEF EditRecord
<1> HIDE DEF new
<1>7. AddsOnly({EditDelete(s, k, n) : k \in K} \cup {EditAdd(s, k, to, scale, n) : k \in K})
  <2>1. \A o \in new : \A p \in over : ~Same(o, p)
    BY <1>1, InsertableIs
  <2>2. \A o, p \in new : Same(o, p) => o = p
    <3>1. \A k, j \in K : /\ Same(EditDelete(s, k, n), EditDelete(s, j, n)) => k = j
                          /\ ~Same(EditDelete(s, k, n), EditAdd(s, j, to, scale, n))
                          /\ ~Same(EditAdd(s, j, to, scale, n), EditDelete(s, k, n))
                          /\ Same(EditAdd(s, k, to, scale, n), EditAdd(s, j, to, scale, n)) => k = j
      BY DEF Same, EditDelete, EditAdd
    <3> QED BY <1>6, <3>1
  <2>3. new \subseteq Override
    BY <1>4, <1>5, <1>6
  <2>4. AddsOnly(new)
    BY <1>1, <2>1, <2>2, <2>3 DEF AddsOnly
  <2> QED BY <1>6, <2>4
<1>8. DOMAIN back = {to[k] : k \in K} /\ \A k \in K : back[to[k]] = Copied(s, k, scale)
  <2>1. DOMAIN back = {to[k] : k \in K}
    OBVIOUS
  <2>2. ASSUME NEW k \in K PROVE back[to[k]] = Copied(s, k, scale)
    <3>1. (CHOOSE j \in K : to[j] = to[k]) = k
      OBVIOUS
    <3>2. back[to[k]] = Copied(s, CHOOSE j \in K : to[j] = to[k], scale)
      OBVIOUS
    <3> QED BY <3>1, <3>2
  <2> QED BY <2>1, <2>2
<1> HIDE DEF back
<1>9. Without(s, K) \in Table /\ \A t \in Secs : \A j \in Keys :
         Without(s, K)[t][j] = IF t = s /\ j \in K THEN None ELSE held[t][j]
  BY Typed, WithoutIs
<1>10. held' \in Table /\ \A t \in Secs : \A j \in Keys :
         held'[t][j] = IF t = s /\ j \in DOMAIN back THEN back[j] ELSE Without(s, K)[t][j]
  <2>1. \A j \in DOMAIN back \cap Keys : back[j] \in Row \cup {None}
    BY <1>3, <1>8
  <2> QED BY <1>1, <1>9, <2>1, PlacedIs
<1>11. \A k \in K : held'[s][to[k]] = Copied(s, k, scale) /\ held'[s][to[k]] # None
                            /\ held'[s][to[k]].by = Operator
  BY <1>3, <1>8, <1>10, RowFields
<1>12. \A j \in Keys : (\A k \in K : to[k] # j) => held'[s][j] = IF j \in K THEN None ELSE held[s][j]
  BY <1>8, <1>9, <1>10
<1>13. \A t \in Secs \ {s} : \A j \in Keys : held'[t][j] = held[t][j]
  BY <1>9, <1>10
<1>14. Rest
  BY <1>1, <1>2, <1>7, <1>10, Typed DEF Rest, AddsOnly
<1>15. EditLeaves(s, K, to, scale, n)
  BY <1>1, <1>2, <1>3, <1>7, <1>11, <1>12, <1>13, <1>14 DEF EditLeaves
<1> QED BY <1>15 DEF n

(* Both edits are of that kind: their targets are apart, and free unless they move too. *)
Edited(s, K, to, scale) ==
  /\ K \in SUBSET Stored(s) /\ K # {} /\ to \in [K -> Keys] /\ scale \in {1, -1}
  /\ \A k, j \in K : to[k] = to[j] => k = j
  /\ \A k \in K : to[k] \notin K => held[s][to[k]] = None
  /\ Replace(s, K, to, scale)

LEMMA RescaleIs ==
  ASSUME TypeOK, NEW s \in Secs, NEW lo, NEW hi, Rescale(s, lo, hi)
  PROVE  \E K, to : Edited(s, K, to, -1)
<1> DEFINE K == Stored(s) \cap Bars \cap In(lo, hi)
           to == [k \in K |-> k]
<1>1. K # {} /\ Replace(s, K, to, -1)
  BY DEF Rescale
<1>2. K \in SUBSET Stored(s) /\ K \subseteq Keys
  BY DEF Stored
<1>3. to \in [K -> Keys] /\ \A k \in K : to[k] = k
  BY <1>2
<1> HIDE DEF K, to
<1>4. Edited(s, K, to, -1)
  BY <1>1, <1>2, <1>3 DEF Edited
<1> QED BY <1>4

LEMMA ShiftIs ==
  ASSUME TypeOK, NEW s \in Secs, NEW lo, NEW hi, NEW days \in {-1, 1}, NEW actions,
         Shift(s, lo, hi, days, actions)
  PROVE  \E K, to : Edited(s, K, to, 1)
<1> DEFINE B == Stored(s) \cap Bars \cap In(lo, hi)
           A == IF actions THEN (Stored(s) \ Bars) \cap In(lo, hi) ELSE {}
           to == [k \in B \cup A |-> <<k[1], k[2] + days>>]
<1>1. /\ B # {} /\ \A k \in B \cup A : to[k] \in Keys
      /\ \A k \in B : to[k] \notin B => to[k] \notin Stored(s)
      /\ \A k \in A : to[k] \notin Stored(s) \ A
      /\ Replace(s, B \cup A, to, 1)
  BY DEF Shift, ActionsMove
<1>2. B \cup A \in SUBSET Stored(s) /\ B \cup A \subseteq Keys /\ B \subseteq Bars /\ A \cap Bars = {}
  BY DEF Stored
<1>3. \A k \in B \cup A : to[k] = <<k[1], k[2] + days>>
  OBVIOUS
<1>4. to \in [B \cup A -> Keys]
  BY <1>1
<1> HIDE DEF B, A, to
<1>5. ASSUME NEW k \in B \cup A, NEW j \in B \cup A, to[k] = to[j] PROVE k = j
  <2>1. k[1] = j[1] /\ k[2] + days = j[2] + days
    BY <1>3, <1>5
  <2>2. k[2] \in Nat /\ j[2] \in Nat
    BY <1>2, KeyDate
  <2>3. k[2] = j[2]
    BY <2>1, <2>2
  <2>4. k = <<k[1], k[2]>> /\ j = <<j[1], j[2]>>
    BY <1>2 DEF Keys
  <2> QED BY <2>1, <2>3, <2>4
<1>6. ASSUME NEW k \in B \cup A, to[k] \notin B \cup A PROVE held[s][to[k]] = None
  <2>1. to[k] \notin Stored(s) /\ to[k] \in Keys
    BY <1>1, <1>6
  <2> QED BY <2>1 DEF Stored
<1>7. Edited(s, B \cup A, to, 1)
  BY <1>1, <1>2, <1>4, <1>5, <1>6 DEF Edited
<1> QED BY <1>7

-----------------------------------------------------------------------------
(* The record of what was done: the invariant's first half *)

Unique == \A o, p \in over : Same(o, p) => o = p

Numbered == \A o \in over : o.edit <= ops /\ (o.split # None => o.split.batch <= ops)

OneHistory == \A o, p \in over : o.edit # 0 /\ p.edit = o.edit => p.sec = o.sec

Shape(o) ==
  /\ o.op = "delete" => o.sec = Src
  /\ o.op = "add" => o.sec = o.split.to /\ o.split.kind = "moved" /\ o.key \notin Bars
  /\ o.split.kind \in {"moved", "duplicate"} => o.edit = 0
  /\ o.split.kind \in {"restored", "duplicate-restored"} => o.key \in Bars

Batched(o, p) ==
  /\ p.split # None /\ p.split.batch = o.split.batch => p.split.to = o.split.to
  /\ p.edit # o.split.batch

SplitShape == \A o \in over : o.split # None => Shape(o) /\ \A p \in over : Batched(o, p)

Record == Unique /\ Numbered /\ OneHistory /\ SplitShape

LEMMA MarkFields ==
  ASSUME NEW m \in Mark
  PROVE  /\ m.to \in {Dst, New} /\ m.to \in Secs /\ m.to # Src /\ m.batch \in 1..MaxOps /\ m.batch \in Nat
         /\ m.batch # 0 /\ m.kind \in {"moved", "duplicate", "restored", "duplicate-restored"}
         /\ m # None
BY Given DEF Mark

LEMMA RevokeEditIs ==
  ASSUME TypeOK, Unique, OneHistory, NEW e \in 1..MaxOps, RevokeEdit(e)
  PROVE  /\ Rest /\ UNCHANGED <<exists, flags, ops>> /\ Remember(0)
         /\ over' = over \ EditOf(e)
         /\ \E s \in Secs :
              /\ \A o \in EditOf(e) : o.sec = s
              /\ \A t \in Secs \ {s} : \A k \in Keys : held'[t][k] = held[t][k]
              /\ LET Goes(k) == /\ held[s][k] # None /\ held[s][k].by = Operator
                                /\ \E o \in EditOf(e) : o.op = "add" /\ o.key = k
                     Back(o) == /\ o \in EditOf(e) /\ o.op = "delete"
                                /\ o.key \in Bars \/ held[s][o.key] = None \/ Goes(o.key)
                 IN /\ \A o \in EditOf(e) : Back(o) => held'[s][o.key] = o.row
                    /\ \A k \in Keys : (\A o \in EditOf(e) : Back(o) => o.key # k)
                          => held'[s][k] = IF Goes(k) THEN None ELSE held[s][k]
<1> DEFINE all == EditOf(e)
           s == (CHOOSE o \in all : TRUE).sec
           gone == {o.key : o \in {p \in all : p.op = "add" /\ held[s][p.key] # None
                                               /\ held[s][p.key].by = Operator}}
           left == Stored(s) \ gone
           back == {o \in all : o.op = "delete" /\ (o.key \in Bars \/ o.key \notin left)}
           f == [k \in {o.key : o \in back} |-> (CHOOSE o \in back : o.key = k).row]
           Goes(k) == /\ held[s][k] # None /\ held[s][k].by = Operator
                      /\ \E o \in all : o.op = "add" /\ o.key = k
           Back(o) == /\ o \in all /\ o.op = "delete"
                      /\ o.key \in Bars \/ held[s][o.key] = None \/ Goes(o.key)
<1>1. /\ all # {} /\ over' = over \ all /\ held' = Placed(Without(s, gone), s, f)
      /\ UNCHANGED <<exists, flags, ops>> /\ Remember(0)
  BY DEF RevokeEdit
<1>2. all \subseteq over /\ \A o \in all : o.edit = e /\ e # 0
  BY DEF EditOf
<1>3. s \in Secs /\ \A o \in all : o.sec = s
  <2>1. (CHOOSE o \in all : TRUE) \in all
    BY <1>1
  <2>2. s \in Secs
    BY <1>2, <2>1, Typed, OverrideFields
  <2>3. \A o \in all : o.sec = s
    BY <1>2, <2>1 DEF OneHistory
  <2> QED BY <2>2, <2>3
<1> HIDE DEF s
<1>4. \A k : k \in gone <=> Goes(k)
  OBVIOUS
<1>5. \A o \in all : o.key \in Keys /\ o.row \in Row
  BY <1>2, Typed, OverrideFields
<1>6. \A o : o \in back <=> Back(o)
  <2>1. \A o \in all : o.key \notin left <=> held[s][o.key] = None \/ Goes(o.key)
    BY <1>4, <1>5 DEF Stored
  <2> QED BY <2>1
<1> HIDE DEF gone, left, Goes, Back
<1>7. \A o \in back : o.key \in DOMAIN f /\ f[o.key] = o.row
  <2> TAKE o \in back
  <2>1. \A p \in back : p.key = o.key => p = o
    BY <1>2, <1>3 DEF Unique, Same
  <2>2. (CHOOSE p \in back : p.key = o.key) = o
    BY <2>1
  <2> QED BY <2>2
<1>8. \A k : k \in DOMAIN f <=> \E o \in back : o.key = k
  OBVIOUS
<1>9. \A k \in DOMAIN f \cap Keys : f[k] \in Row \cup {None}
  <2>1. back \subseteq all
    OBVIOUS
  <2> QED BY <1>5, <1>7, <1>8, <2>1
<1> HIDE DEF f, back, all
<1>10. Without(s, gone) \in Table /\ \A t \in Secs : \A k \in Keys :
         Without(s, gone)[t][k] = IF t = s /\ k \in gone THEN None ELSE held[t][k]
  BY <1>3, Typed, WithoutIs
<1>11. held' \in Table /\ \A t \in Secs : \A k \in Keys :
         held'[t][k] = IF t = s /\ k \in DOMAIN f THEN f[k] ELSE Without(s, gone)[t][k]
  BY <1>1, <1>3, <1>9, <1>10, PlacedIs
<1>12. \A t \in Secs \ {s} : \A k \in Keys : held'[t][k] = held[t][k]
  BY <1>10, <1>11
<1>13. \A o \in all : Back(o) => held'[s][o.key] = o.row
  BY <1>3, <1>5, <1>6, <1>7, <1>11
<1>14. ASSUME NEW k \in Keys, \A o \in all : Back(o) => o.key # k
       PROVE  held'[s][k] = IF Goes(k) THEN None ELSE held[s][k]
  <2>1. k \notin DOMAIN f
    BY <1>6, <1>8, <1>14 DEF back
  <2> QED BY <1>3, <1>4, <1>10, <1>11, <2>1
<1>15. Rest
  BY <1>1, <1>11, Typed DEF Rest
<1> QED BY <1>1, <1>3, <1>12, <1>13, <1>14, <1>15 DEF all, Goes, Back

-----------------------------------------------------------------------------
(* A split, and its undo *)

TakenDelete(p, k, to, n) ==
  [sec |-> Src, key |-> k, op |-> "delete", row |-> p.rows[k], edit |-> 0,
   split |-> Marked(p, k, to, n, "moved", "duplicate")]

TakenAdd(p, k, to, n) ==
  [sec |-> to, key |-> k, op |-> "add", row |-> p.rows[k], edit |-> 0,
   split |-> Marked(p, k, to, n, "moved", "moved")]

Loan(p, o, to, n) ==
  [sec |-> o.sec, key |-> o.key, op |-> o.op, row |-> o.row, edit |-> o.edit,
   split |-> Marked(p, o.key, to, n, "restored", "duplicate-restored")]

(* A plan for the part of the source's history that goes to another row. *)
Planned(p, to) ==
  /\ p.taken \subseteq Keys /\ \A k \in p.taken : held[Src][k] \in Row /\ p.rows[k] = held[Src][k]
  /\ p.lent \subseteq over
  /\ \A o \in p.lent : /\ o.sec = Src /\ o.op = "delete" /\ o.key \in Bars /\ o.key \in Keys
                       /\ held[Src][o.key] = None /\ o.split = None /\ p.rows[o.key] = o.row
  /\ DOMAIN p.rows = p.taken \cup {o.key : o \in p.lent} /\ DOMAIN p.rows # {}
  /\ \A k \in DOMAIN p.rows : p.rows[k] \in Row
  /\ \A k \in Keys : k \in p.dup <=> k \in DOMAIN p.rows /\ held[to][k] # None

LEMMA PlanIs ==
  ASSUME TypeOK, Unique, NEW lo, NEW hi, NEW to \in {Dst, New}, NEW restore,
         Splittable(PlanSplit(lo, hi, to, restore), lo, hi, to)
  PROVE  Planned(PlanSplit(lo, hi, to, restore), to)
<1> DEFINE p == PlanSplit(lo, hi, to, restore)
           K == Stored(Src) \cap In(lo, hi)
           R == IF restore THEN Restorable(lo, hi) ELSE {}
           rows == [k \in K \cup {o.key : o \in R} |->
                      IF k \in K THEN held[Src][k] ELSE (CHOOSE o \in R : o.key = k).row]
<1>1. /\ p.taken = K /\ p.lent = R /\ p.rows = rows /\ p.dup = DOMAIN rows \cap Stored(to)
  BY DEF PlanSplit
<1>2. K \subseteq Keys /\ \A k \in K : held[Src][k] \in Row /\ held[Src][k] # None
  BY Typed, Given DEF Stored, Table
<1>3. R \subseteq over /\ \A o \in R : /\ o.sec = Src /\ o.op = "delete" /\ o.key \in Bars /\ o.key \in In(lo, hi)
                                       /\ held[Src][o.key] = None
  BY DEF Restorable
<1>4. \A o \in R : o.split = None /\ o.key \in Keys /\ o.row \in Row
  <2>1. \A o \in over : ~(o.sec = Src /\ o.split # None /\ o.key \in In(lo, hi))
    BY DEF Splittable
  <2> QED BY <1>3, <2>1, Typed, OverrideFields
<1> HIDE DEF K, R
<1>5. \A k \in K : rows[k] = held[Src][k]
  OBVIOUS
<1>6. \A o \in R : rows[o.key] = o.row
  <2> TAKE o \in R
  <2>1. \A q \in R : q.key = o.key => q = o
    BY <1>3 DEF Unique, Same
  <2>2. (CHOOSE q \in R : q.key = o.key) = o
    BY <2>1
  <2>3. o.key \notin K
    BY <1>2, <1>3
  <2> QED BY <2>2, <2>3
<1>7. DOMAIN rows = K \cup {o.key : o \in R}
  OBVIOUS
<1> HIDE DEF rows
<1>8. \A k \in DOMAIN rows : rows[k] \in Row
  BY <1>2, <1>4, <1>5, <1>6, <1>7
<1>9. DOMAIN rows # {}
  BY <1>1 DEF Splittable
<1>10. \A k \in Keys : k \in p.dup <=> k \in DOMAIN rows /\ held[to][k] # None
  BY <1>1 DEF Stored
<1> HIDE DEF p
<1>11. Planned(p, to)
  BY <1>1, <1>2, <1>3, <1>4, <1>5, <1>6, <1>7, <1>8, <1>9, <1>10 DEF Planned
<1> QED BY <1>11 DEF p

LEMMA MarkedIs ==
  ASSUME NEW p, NEW k, NEW to \in {Dst, New}, NEW n \in 1..MaxOps,
         NEW fresh \in {"moved", "restored"}, NEW same \in {"moved", "duplicate", "duplicate-restored"}
  PROVE  /\ Marked(p, k, to, n, fresh, same) \in Mark
         /\ Marked(p, k, to, n, fresh, same) # None
         /\ Marked(p, k, to, n, fresh, same).to = to /\ Marked(p, k, to, n, fresh, same).batch = n
         /\ Marked(p, k, to, n, fresh, same).kind = IF k \in p.dup THEN same ELSE fresh
<1>1. Marked(p, k, to, n, fresh, same) \in Mark
  BY DEF Marked, Mark
<1> QED BY <1>1, Given DEF Marked

(* What the split of a plan writes. *)
SplitRecord(p, to, n) ==
  /\ over' = (over \ p.lent) \cup {Loan(p, o, to, n) : o \in p.lent}
             \cup {TakenDelete(p, k, to, n) : k \in p.taken}
             \cup {TakenAdd(p, k, to, n) : k \in (p.taken \ Bars) \ p.dup}
  /\ \A k \in p.taken : \A o \in over : ~(o.sec = Src /\ o.key = k /\ o.op = "delete")
  /\ \A k \in (p.taken \ Bars) \ p.dup : \A o \in over : ~(o.sec = to /\ o.key = k /\ o.op = "add")

SplitRows(p, to) ==
  /\ \A k \in Keys : held'[Src][k] = IF k \in p.taken THEN None ELSE held[Src][k]
  /\ \A k \in DOMAIN p.rows \ p.dup : /\ held'[to][k] \in Row
                                      /\ k \in Bars => held'[to][k] = p.rows[k]
                                      /\ k \notin Bars => held'[to][k].by = Operator
  /\ \A k \in Keys : k \notin DOMAIN p.rows \/ k \in p.dup => held'[to][k] = held[to][k]
  /\ \A t \in Secs \ {Src, to} : \A k \in Keys : held'[t][k] = held[t][k]

Along(f, to, n) == [f EXCEPT !.on = to, !.stamp = n]

MovedFlags(F, to, n) ==
  /\ F \subseteq {f \in flags : f.on = Src}
  /\ flags' = (flags \ F) \cup {Along(f, to, n) : f \in F \ Redundant(F, to)}

LEMMA FlagMoved ==
  ASSUME NEW f \in Flag, NEW to \in Secs, NEW n \in 0..MaxOps
  PROVE  /\ Along(f, to, n) \in Flag /\ Along(f, to, n).on = to /\ Along(f, to, n).stamp = n
         /\ Along(f, to, n).home = f.home
BY DEF Flag, Along

LEMMA SplitIs ==
  ASSUME TypeOK, Unique, NEW lo, NEW hi, NEW to \in {Dst, New}, NEW restore, Split(lo, hi, to, restore)
  PROVE  LET n == ops + 1
         IN /\ Rest /\ ops' = n /\ n \in 1..MaxOps /\ Remember(n)
            /\ \E p : Planned(p, to) /\ SplitRecord(p, to, n) /\ SplitRows(p, to)
            /\ \E F : MovedFlags(F, to, n)
<1> DEFINE n == ops + 1
           p == PlanSplit(lo, hi, to, restore)
           new == SplitDeletes(p, to, n) \cup SplitAdds(p, to, n)
           put(k) == IF k \in Bars THEN p.rows[k] ELSE [p.rows[k] EXCEPT !.by = Operator]
           f == [k \in DOMAIN p.rows \ p.dup |-> put(k)]
           F == FlagsAlong(p)
<1>1. /\ Operation /\ Splittable(p, lo, hi, to) /\ KeysFree(p) /\ Insertable(new)
      /\ over' = (over \ p.lent) \cup Loans(p, to, n) \cup new
      /\ held' = Placed(Without(Src, p.taken), to, f)
      /\ exists' = Minted(to) /\ flags' = MoveFlags(F, to, n) /\ Remember(n)
  BY DEF Split
<1>2. Planned(p, to)
  BY <1>1, PlanIs
<1>3. n \in 1..MaxOps /\ ops' = n /\ ops' \in 0..MaxOps /\ n \in 0..MaxOps
  BY <1>1, OperationIs
<1>4. exists' \in BOOLEAN
  BY <1>1, Typed DEF Minted
<1> HIDE DEF n, p
<1>5. \A k \in p.taken : p.rows[k] \in Row /\ k \in Keys
  BY <1>2 DEF Planned
<1>6. \A o \in p.lent : o \in Override
  BY <1>2, Typed DEF Planned
<1>7. SplitDeletes(p, to, n) = {TakenDelete(p, k, to, n) : k \in p.taken}
      /\ \A k \in p.taken : TakenDelete(p, k, to, n) \in Override
  <2>1. ASSUME NEW k \in p.taken
        PROVE  /\ [Plain(Src, k, "delete", p.rows[k]) EXCEPT !.split = Marked(p, k, to, n, "moved", "duplicate")]
                    = TakenDelete(p, k, to, n)
               /\ TakenDelete(p, k, to, n) \in Override
    <3>1. Marked(p, k, to, n, "moved", "duplicate") \in Mark
      BY <1>3, MarkedIs
    <3> QED BY <1>5, <3>1, Given, SplitOffIs DEF TakenDelete
  <2> QED BY <2>1 DEF SplitDeletes
<1>8. SplitAdds(p, to, n) = {TakenAdd(p, k, to, n) : k \in (p.taken \ Bars) \ p.dup}
      /\ \A k \in p.taken : TakenAdd(p, k, to, n) \in Override
  <2>1. ASSUME NEW k \in p.taken
        PROVE  /\ [Plain(to, k, "add", p.rows[k]) EXCEPT !.split = Marked(p, k, to, n, "moved", "moved")]
                    = TakenAdd(p, k, to, n)
               /\ TakenAdd(p, k, to, n) \in Override
    <3>1. Marked(p, k, to, n, "moved", "moved") \in Mark
      BY <1>3, MarkedIs
    <3>2. to \in Secs
      BY Given
    <3> QED BY <1>5, <3>1, <3>2, SplitOffIs DEF TakenAdd
  <2> QED BY <2>1 DEF SplitAdds
<1>9. Loans(p, to, n) = {Loan(p, o, to, n) : o \in p.lent}
      /\ \A o \in p.lent : Loan(p, o, to, n) \in Override
  <2>1. ASSUME NEW o \in p.lent
        PROVE  /\ [o EXCEPT !.split = Marked(p, o.key, to, n, "restored", "duplicate-restored")] = Loan(p, o, to, n)
               /\ Loan(p, o, to, n) \in Override
    <3>1. Marked(p, o.key, to, n, "restored", "duplicate-restored") \in Mark
      BY <1>3, MarkedIs
    <3> QED BY <1>6, <3>1, Resplit DEF Loan
  <2> QED BY <2>1 DEF Loans
<1>10. over' = (over \ p.lent) \cup {Loan(p, o, to, n) : o \in p.lent}
             \cup {TakenDelete(p, k, to, n) : k \in p.taken}
             \cup {TakenAdd(p, k, to, n) : k \in (p.taken \ Bars) \ p.dup}
  BY <1>1, <1>7, <1>8, <1>9
<1>11. over' \subseteq Override
  BY <1>7, <1>8, <1>9, <1>10, Typed
<1>12. \A k \in p.taken : \A o \in over : ~(o.sec = Src /\ o.key = k /\ o.op = "delete")
  BY <1>1 DEF KeysFree, At
<1>13. \A k \in (p.taken \ Bars) \ p.dup : \A o \in over : ~(o.sec = to /\ o.key = k /\ o.op = "add")
  <2>1. \A o \in new : \A q \in over : ~Same(o, q)
    BY <1>1, InsertableIs
  <2>2. \A k \in (p.taken \ Bars) \ p.dup : TakenAdd(p, k, to, n) \in new
    BY <1>8
  <2> QED BY <2>1, <2>2 DEF Same, TakenAdd
<1>14. to \in Secs /\ Src \in Secs /\ to # Src
  BY Given
<1>15. Without(Src, p.taken) \in Table /\ \A t \in Secs : \A k \in Keys :
          Without(Src, p.taken)[t][k] = IF t = Src /\ k \in p.taken THEN None ELSE held[t][k]
  BY <1>14, Typed, WithoutIs
<1>16. \A k \in DOMAIN f : /\ f[k] \in Row /\ (k \in Bars => f[k] = p.rows[k])
                           /\ (k \notin Bars => f[k].by = Operator)
  <2>1. \A k \in DOMAIN p.rows : p.rows[k] \in Row
    BY <1>2 DEF Planned
  <2>2. \A k \in DOMAIN p.rows : LET r == [p.rows[k] EXCEPT !.by = Operator] IN r \in Row /\ r.by = Operator
    BY <2>1, OwnedRow
  <2> QED BY <2>1, <2>2
<1>17. DOMAIN f = DOMAIN p.rows \ p.dup /\ DOMAIN p.rows \subseteq Keys
  BY <1>2 DEF Planned
<1> HIDE DEF f, new, F
<1>18. held' \in Table /\ \A t \in Secs : \A k \in Keys :
         held'[t][k] = IF t = to /\ k \in DOMAIN f THEN f[k] ELSE Without(Src, p.taken)[t][k]
  BY <1>1, <1>14, <1>15, <1>16, PlacedIs
<1>19. SplitRecord(p, to, n) /\ SplitRows(p, to)
  <2>1. \A k \in Keys : held'[Src][k] = IF k \in p.taken THEN None ELSE held[Src][k]
    BY <1>14, <1>15, <1>18
  <2>2. \A k \in DOMAIN p.rows \ p.dup : held'[to][k] = f[k]
    BY <1>14, <1>17, <1>18
  <2>3. \A k \in DOMAIN p.rows \ p.dup : /\ held'[to][k] \in Row
                                         /\ k \in Bars => held'[to][k] = p.rows[k]
                                         /\ k \notin Bars => held'[to][k].by = Operator
    BY <1>16, <1>17, <2>2
  <2>4. \A k \in Keys : k \notin DOMAIN p.rows \/ k \in p.dup => held'[to][k] = held[to][k]
    BY <1>14, <1>15, <1>17, <1>18
  <2>5. \A t \in Secs \ {Src, to} : \A k \in Keys : held'[t][k] = held[t][k]
    BY <1>15, <1>18
  <2>6. SplitRecord(p, to, n)
    BY <1>10, <1>12, <1>13 DEF SplitRecord
  <2>7. SplitRows(p, to)
    BY <2>1, <2>3, <2>4, <2>5 DEF SplitRows
  <2> QED BY <2>6, <2>7
<1>20. MovedFlags(F, to, n)
  BY <1>1 DEF MovedFlags, MoveFlags, F, FlagsAlong, Along
<1>21. flags' \subseteq Flag
  <2>1. flags \subseteq Flag
    BY Typed
  <2>2. \A g \in F : Along(g, to, n) \in Flag
    BY <1>3, <1>14, <1>20, <2>1, FlagMoved DEF MovedFlags
  <2> QED BY <1>20, <2>1, <2>2 DEF MovedFlags
<1>22. Rest
  BY <1>3, <1>4, <1>11, <1>18, <1>21 DEF Rest
<1> QED BY <1>1, <1>2, <1>3, <1>19, <1>20, <1>22 DEF n

(* Every non-empty set of naturals has a least element; below a bound, a greatest. *)
LEMMA LeastElement ==
  ASSUME NEW T, T \subseteq Nat, T # {}
  PROVE  \E x \in T : \A y \in T : x <= y
<1> DEFINE R == OpToRel(<, Nat)
<1>1. IsWellFoundedOn(R, Nat)
  BY NatLessThanWellFounded
<1> HIDE DEF R
<1>2. \E x \in T : \A y \in T : <<y, x>> \notin R
  BY <1>1, WFMin
<1>3. ASSUME NEW x \in T, NEW y \in T, <<y, x>> \notin R PROVE x <= y
  <2>1. y < x => <<y, x>> \in R
    BY DEF R, OpToRel
  <2> QED BY <1>3, <2>1
<1> QED BY <1>2, <1>3

LEMMA MaxBelow ==
  ASSUME NEW N \in Nat, NEW S, S \subseteq 0..N, S # {}
  PROVE  Max(S) \in S
<1> DEFINE T == {N - x : x \in S}
<1>1. T \subseteq Nat /\ T # {}
  OBVIOUS
<1>2. PICK t \in T : \A u \in T : t <= u
  <2> HIDE DEF T
  <2> QED BY <1>1, LeastElement
<1>3. PICK x \in S : t = N - x
  OBVIOUS
<1>4. \A y \in S : x >= y
  <2>1. ASSUME NEW y \in S PROVE x >= y
    <3>1. N - x <= N - y
      BY <1>2, <1>3
    <3> QED BY <3>1
  <2> QED BY <2>1
<1>5. \E z \in S : \A y \in S : z >= y
  BY <1>4
<1> QED BY <1>5 DEF Max

(* What an undo takes out of force: one split to that row, whole. *)
LEMMA UndoableIs ==
  ASSUME TypeOK, SplitShape, NEW to, OfPair(to) # {}
  PROVE  /\ Newest(to) \in 1..MaxOps
         /\ Undoable(to) # {} /\ Undoable(to) \subseteq over
         /\ \A o \in over : o \in Undoable(to) <=> o.split # None /\ o.split.batch = Newest(to)
         /\ \A o \in Undoable(to) : o.split # None /\ o.split.to = to
<1> DEFINE S == {o.split.batch : o \in {p \in over : p.split # None /\ p.split.to = to}}
<1>1. \A o \in over : o.split # None => o.split.batch \in 1..MaxOps
  BY Typed, OverrideFields, MarkFields
<1>2. S \subseteq 0..MaxOps /\ S # {} /\ S \subseteq 1..MaxOps
  BY <1>1 DEF OfPair
<1>3. Max(S) \in S
  <2> HIDE DEF S
  <2> QED BY <1>2, MaxBelow, Given
<1>4. Newest(to) = Max(S)
  BY DEF Newest
<1>5. PICK q \in over : q.split # None /\ q.split.to = to /\ q.split.batch = Newest(to)
  BY <1>3, <1>4
<1>6. Newest(to) \in 1..MaxOps
  BY <1>2, <1>3, <1>4
<1> HIDE DEF S
<1>7. \A o \in over : o \in Undoable(to) <=> o.split # None /\ o.split.batch = Newest(to)
  <2>1. \A o \in over : o.split # None /\ o.split.batch = Newest(to) => o.split.to = to
    BY <1>5 DEF SplitShape, Batched
  <2> QED BY <2>1 DEF Undoable
<1>8. q \in Undoable(to)
  BY <1>5, <1>7
<1> QED BY <1>6, <1>7, <1>8 DEF Undoable

(* What the rows and the flags are after the undo. *)
Freed(o) == [sec |-> o.sec, key |-> o.key, op |-> o.op, row |-> o.row, edit |-> o.edit, split |-> None]

UndoRecord(to) ==
  over' = (over \ Undoable(to)) \cup {Freed(o) : o \in {p \in Undoable(to) : ~Moves(p)}}

GivesBack(o) == o.op = "delete" /\ Moves(o) /\ held[Src][o.key] = None

Takes(o, to) ==
  \/ o.key \in Bars /\ o.split.kind \in {"moved", "restored"}
  \/ o.op = "add" /\ held[to][o.key] # None /\ held[to][o.key].by = Operator

UndoRows(to) ==
  /\ \A o \in Undoable(to) : GivesBack(o) => held'[Src][o.key] = o.row
  /\ \A k \in Keys : (\A o \in Undoable(to) : GivesBack(o) => o.key # k) => held'[Src][k] = held[Src][k]
  /\ \A o \in Undoable(to) : Takes(o, to) => held'[to][o.key] = None
  /\ \A k \in Keys : (\A o \in Undoable(to) : Takes(o, to) => o.key # k) => held'[to][k] = held[to][k]
  /\ \A t \in Secs \ {Src, to} : \A k \in Keys : held'[t][k] = held[t][k]

UndoFlags(to) ==
  \A g \in flags' :
    \/ g \in flags /\ ~(g.on = to /\ g.stamp = Newest(to))
    \/ /\ g.on = Src /\ g.stamp = 0
       /\ \/ g.home = Src
          \/ \E f \in flags : f.on = to /\ f.stamp = Newest(to) /\ g.home = f.home

Follower(f) == [f EXCEPT !.on = Src, !.home = Src, !.stamp = 0]

LEMMA FollowerIs ==
  ASSUME NEW f \in Flag
  PROVE  Follower(f) \in Flag /\ Follower(f).on = Src /\ Follower(f).home = Src /\ Follower(f).stamp = 0
<1>1. Src \in Secs /\ 0 \in 0..MaxOps
  BY Given
<1>2. Follower(f) \in Flag
  BY <1>1 DEF Flag, Follower
<1> QED BY <1>2 DEF Flag, Follower

LEMMA FollowsIs ==
  ASSUME NEW G \in SUBSET Flag
  PROVE  /\ FlagsFollow(G) \subseteq Flag
         /\ \A g \in FlagsFollow(G) : g \in G \/ (g.on = Src /\ g.home = Src /\ g.stamp = 0)
<1> DEFINE rest == {f \in G : f.on = New}
           kept == {g \in rest : g.about[1] \in Counted \/ ~Has(G, Src, g.about)}
<1>1. FlagsFollow(G) = (G \ rest) \cup {Follower(f) : f \in kept}
  BY DEF FlagsFollow, Follower
<1>2. kept \subseteq Flag
  OBVIOUS
<1>3. \A f \in kept : Follower(f) \in Flag /\ Follower(f).on = Src /\ Follower(f).home = Src
                      /\ Follower(f).stamp = 0
  BY <1>2, FollowerIs
<1> HIDE DEF rest, kept
<1> QED BY <1>1, <1>3

LEMMA UndoIs ==
  ASSUME TypeOK, Unique, SplitShape, NEW to \in {Dst, New}, UndoSplit(to)
  PROVE  /\ Rest /\ UNCHANGED ops /\ Remember(0)
         /\ OfPair(to) # {} /\ Occupied(Undoable(to)) = {}
         /\ UndoRecord(to) /\ UndoRows(to) /\ UndoFlags(to)
<1> DEFINE all == Undoable(to)
           back == {o \in all : o.op = "delete" /\ Moves(o) /\ held[Src][o.key] = None}
           h    == Placed(Without(to, TakenBack(all)), Src, PutBack(all))
           left == (over \ all) \cup {[o EXCEPT !.split = None] : o \in {p \in all : ~Moves(p)}}
           F    == Returning(to, Newest(to))
           G    == MoveFlags(F, Src, 0)
<1>1. /\ OfPair(to) # {} /\ Occupied(all) = {} /\ over' = left /\ held' = h
      /\ exists' = (exists /\ ~Emptied(to, h, left))
      /\ flags' = G \/ flags' = FlagsFollow(G)
      /\ UNCHANGED ops /\ Remember(0)
  BY DEF UndoSplit
<1>2. exists' \in BOOLEAN
  BY <1>1
<1> HIDE DEF h, left
<1>3. /\ all \subseteq over /\ \A o \in all : o.split # None /\ o.split.to = to
  BY <1>1, UndoableIs
<1>4. \A o \in all : /\ o \in Override /\ o.key \in Keys /\ o.row \in Row /\ o.sec \in Secs
                     /\ Shape(o)
  BY <1>3, Typed, OverrideFields DEF SplitShape
<1>5. to \in Secs /\ Src \in Secs /\ to # Src
  BY Given
<1> HIDE DEF all
<1>6. \A o \in all : [o EXCEPT !.split = None] = Freed(o) /\ Freed(o) \in Override
  <2> TAKE o \in all
  <2>1. None \in Mark \cup {None} /\ o \in Override
    BY <1>4
  <2> QED BY <2>1, Resplit DEF Freed
<1>7. UndoRecord(to)
  BY <1>1, <1>6 DEF UndoRecord, left, all
<1>8. over' \subseteq Override
  BY <1>1, <1>6, Typed DEF left
<1>9. \A k : k \in TakenBack(all) <=> \E o \in all : Takes(o, to) /\ o.key = k
  <2>1. \A o \in all : o.op = "add" => o.sec = to
    BY <1>3, <1>4 DEF Shape
  <2> QED BY <2>1 DEF TakenBack, Takes
<1>10. Without(to, TakenBack(all)) \in Table /\ \A t \in Secs : \A k \in Keys :
          Without(to, TakenBack(all))[t][k] = IF t = to /\ k \in TakenBack(all) THEN None ELSE held[t][k]
  BY <1>5, Typed, WithoutIs
<1>11. PutBack(all) = [k \in {o.key : o \in back} |-> (CHOOSE o \in back : o.key = k).row]
  BY DEF PutBack
<1>12. /\ \A o \in back : o.key \in DOMAIN PutBack(all) /\ PutBack(all)[o.key] = o.row
       /\ \A k \in DOMAIN PutBack(all) : \E o \in back : o.key = k
  <2>1. DOMAIN PutBack(all) = {o.key : o \in back}
    BY <1>11
  <2>2. ASSUME NEW o \in back PROVE PutBack(all)[o.key] = o.row
    <3>1. \A p \in back : p.key = o.key => p = o
      BY <1>3, <1>4 DEF Unique, Same, Shape
    <3>2. (CHOOSE p \in back : p.key = o.key) = o
      BY <3>1
    <3> HIDE DEF back
    <3> QED BY <1>11, <3>2
  <2> QED BY <2>1, <2>2
<1>13. \A o : o \in back <=> o \in all /\ GivesBack(o)
  BY DEF GivesBack
<1> HIDE DEF back
<1>14. \A k \in DOMAIN PutBack(all) \cap Keys : PutBack(all)[k] \in Row \cup {None}
  BY <1>4, <1>12, <1>13
<1>15. held' \in Table /\ \A t \in Secs : \A k \in Keys :
          held'[t][k] = IF t = Src /\ k \in DOMAIN PutBack(all) THEN PutBack(all)[k]
                        ELSE Without(to, TakenBack(all))[t][k]
  BY <1>1, <1>5, <1>10, <1>14, PlacedIs DEF h
<1>16. UndoRows(to)
  <2>1. \A o \in all : GivesBack(o) => held'[Src][o.key] = o.row
    BY <1>4, <1>5, <1>12, <1>13, <1>15
  <2>2. \A k \in Keys : (\A o \in all : GivesBack(o) => o.key # k) => held'[Src][k] = held[Src][k]
    BY <1>5, <1>10, <1>12, <1>13, <1>15
  <2>3. \A o \in all : Takes(o, to) => held'[to][o.key] = None
    BY <1>4, <1>5, <1>9, <1>10, <1>15
  <2>4. \A k \in Keys : (\A o \in all : Takes(o, to) => o.key # k) => held'[to][k] = held[to][k]
    BY <1>5, <1>9, <1>10, <1>15
  <2>5. \A t \in Secs \ {Src, to} : \A k \in Keys : held'[t][k] = held[t][k]
    BY <1>10, <1>15
  <2> QED BY <2>1, <2>2, <2>3, <2>4, <2>5 DEF UndoRows, all
<1>17. flags \subseteq Flag /\ F \subseteq flags /\ \A f \in flags : f \in F <=> f.on = to /\ f.stamp = Newest(to)
  BY Typed DEF Returning
<1>18. \A f \in F : /\ Along(f, Src, 0) \in Flag /\ Along(f, Src, 0).on = Src
                    /\ Along(f, Src, 0).stamp = 0 /\ Along(f, Src, 0).home = f.home
  <2> TAKE f \in F
  <2>1. f \in Flag /\ 0 \in 0..MaxOps
    BY <1>17, Given
  <2> QED BY <1>5, <2>1, FlagMoved
<1>19. /\ G \subseteq Flag
       /\ \A g \in G : \/ g \in flags \ F
                       \/ g.on = Src /\ g.stamp = 0 /\ \E f \in F : g.home = f.home
  <2>1. G = (flags \ F) \cup {Along(f, Src, 0) : f \in F \ Redundant(F, Src)}
    BY DEF MoveFlags, Along
  <2> HIDE DEF F, G
  <2> QED BY <1>17, <1>18, <2>1
<1> HIDE DEF F, G
<1>20. /\ flags' \subseteq Flag
       /\ \A g \in flags' : g \in G \/ (g.on = Src /\ g.home = Src /\ g.stamp = 0)
  BY <1>1, <1>19, FollowsIs
<1>21. UndoFlags(to)
  <2>1. ASSUME NEW g \in G
        PROVE  \/ g \in flags /\ ~(g.on = to /\ g.stamp = Newest(to))
               \/ /\ g.on = Src /\ g.stamp = 0
                  /\ \E f \in flags : f.on = to /\ f.stamp = Newest(to) /\ g.home = f.home
    BY <1>17, <1>19
  <2> QED BY <1>20, <2>1 DEF UndoFlags
<1>22. Rest
  BY <1>1, <1>2, <1>8, <1>15, <1>20, Typed DEF Rest
<1> QED BY <1>1, <1>7, <1>16, <1>21, <1>22 DEF all

-----------------------------------------------------------------------------
(* The record is kept *)

LEMMA RecordLess ==
  ASSUME Record, over' \subseteq over, UNCHANGED ops
  PROVE  Record'
<1>1. Unique'
  BY DEF Record, Unique, Same
<1>2. Numbered'
  BY DEF Record, Numbered
<1>3. OneHistory'
  BY DEF Record, OneHistory
<1>4. SplitShape'
  BY DEF Record, SplitShape, Shape, Batched
<1> QED BY <1>1, <1>2, <1>3, <1>4 DEF Record

LEMMA BatchIs ==
  ASSUME TypeOK, Record, NEW o \in over
  PROVE  /\ o.edit \in Nat /\ o.edit <= ops
         /\ o.split # None => o.split \in Mark /\ o.split.batch \in Nat \ {0} /\ o.split.batch <= ops
<1>1. o \in Override
  BY Typed
<1>2. o.split # None => o.split \in Mark /\ o.split.batch \in Nat \ {0}
  BY <1>1, OverrideFields, MarkFields
<1> QED BY <1>1, <1>2, OverrideFields DEF Record, Numbered

(* Overrides of no split, all of one new edit or of none. *)
LEMMA RecordMore ==
  ASSUME TypeOK, Record, NEW new, AddsOnly(new), ops' = ops + 1,
         \A o \in new : o.split = None /\ o.edit \in {0, ops + 1}, \A o, p \in new : o.sec = p.sec
  PROVE  Record'
<1>1. over' = over \cup new
  BY DEF AddsOnly
<1>2. \A o \in over : o.edit \in Nat /\ o.edit <= ops
  BY BatchIs
<1>3. \A o \in over : o.split # None => o.split.batch \in Nat \ {0} /\ o.split.batch <= ops
  BY BatchIs
<1>4. ops \in Nat
  BY Typed
<1>5. Unique'
  BY <1>1 DEF AddsOnly, Record, Unique, Same
<1>6. Numbered'
  <2>1. \A o \in over' : o.edit <= ops + 1 /\ (o.split # None => o.split.batch <= ops + 1)
    BY <1>1, <1>2, <1>3, <1>4
  <2> QED BY <2>1 DEF Numbered
<1>7. OneHistory'
  <2>1. \A o \in over, p \in new : o.edit # 0 => p.edit # o.edit
    BY <1>2, <1>4
  <2>2. \A o, p \in over' : o.edit # 0 /\ p.edit = o.edit => p.sec = o.sec
    BY <1>1, <2>1 DEF Record, OneHistory
  <2> QED BY <2>2 DEF OneHistory
<1>8. SplitShape'
  <2>1. \A o \in over, p \in new : o.split # None => p.edit # o.split.batch
    BY <1>3, <1>4
  <2>2. \A o, p \in over : o.split # None => Shape(o) /\ Batched(o, p)
    BY DEF Record, SplitShape
  <2>3. \A o, p \in over' : o.split # None => Shape(o) /\ Batched(o, p)
    BY <1>1, <2>1, <2>2 DEF Batched
  <2> QED BY <2>3 DEF SplitShape, Shape, Batched
<1> QED BY <1>5, <1>6, <1>7, <1>8 DEF Record

LEMMA SplitParts ==
  ASSUME NEW p, NEW to \in {Dst, New}, NEW n \in 1..MaxOps
  PROVE  /\ \A o \in p.lent :
              LET q == Loan(p, o, to, n)
              IN /\ Same(q, o) /\ q.row = o.row /\ q.edit = o.edit /\ q.split # None
                 /\ q.split.to = to /\ q.split.batch = n
                 /\ q.split.kind = IF o.key \in p.dup THEN "duplicate-restored" ELSE "restored"
         /\ \A k \in p.taken :
              LET q == TakenDelete(p, k, to, n)
              IN /\ q.sec = Src /\ q.key = k /\ q.op = "delete" /\ q.row = p.rows[k] /\ q.edit = 0
                 /\ q.split # None /\ q.split.to = to /\ q.split.batch = n
                 /\ q.split.kind = IF k \in p.dup THEN "duplicate" ELSE "moved"
         /\ \A k \in p.taken :
              LET q == TakenAdd(p, k, to, n)
              IN /\ q.sec = to /\ q.key = k /\ q.op = "add" /\ q.row = p.rows[k] /\ q.edit = 0
                 /\ q.split # None /\ q.split.to = to /\ q.split.batch = n /\ q.split.kind = "moved"
<1>1. \A k : LET m == Marked(p, k, to, n, "restored", "duplicate-restored")
             IN m # None /\ m.to = to /\ m.batch = n
                /\ m.kind = IF k \in p.dup THEN "duplicate-restored" ELSE "restored"
  BY MarkedIs
<1>2. \A k : LET m == Marked(p, k, to, n, "moved", "duplicate")
             IN m # None /\ m.to = to /\ m.batch = n
                /\ m.kind = IF k \in p.dup THEN "duplicate" ELSE "moved"
  BY MarkedIs
<1>3. \A k : LET m == Marked(p, k, to, n, "moved", "moved")
             IN m # None /\ m.to = to /\ m.batch = n /\ m.kind = "moved"
  <2> TAKE k
  <2> DEFINE m == Marked(p, k, to, n, "moved", "moved")
  <2>1. m = [to |-> to, batch |-> n, kind |-> "moved"]
    BY DEF Marked
  <2>2. m \in Mark
    BY <2>1 DEF Mark
  <2> QED BY <2>1, <2>2, Given
<1> QED BY <1>1, <1>2, <1>3 DEF Loan, TakenDelete, TakenAdd, Same

(* Where an override of the split comes from: it was there, it was lent, or it is of
   what the split takes. *)
LEMMA SplitOrigins ==
  ASSUME NEW p, NEW to, NEW n, SplitRecord(p, to, n), NEW q \in over'
  PROVE  \/ q \in over \ p.lent
         \/ \E o \in p.lent : q = Loan(p, o, to, n)
         \/ \E k \in p.taken : q = TakenDelete(p, k, to, n)
         \/ \E k \in (p.taken \ Bars) \ p.dup : q = TakenAdd(p, k, to, n)
BY DEF SplitRecord

LEMMA RecordSplit ==
  ASSUME TypeOK, Record, NEW p, NEW to \in {Dst, New}, Planned(p, to), SplitRecord(p, to, ops + 1),
         ops' = ops + 1, ops + 1 \in 1..MaxOps
  PROVE  Record'
<1> DEFINE n == ops + 1
           Lent(q) == \E o \in p.lent : q = Loan(p, o, to, n)
           Deletes(q) == \E k \in p.taken : q = TakenDelete(p, k, to, n)
           Adds(q) == \E k \in (p.taken \ Bars) \ p.dup : q = TakenAdd(p, k, to, n)
<1>1. \A q \in over' : q \in over \ p.lent \/ Lent(q) \/ Deletes(q) \/ Adds(q)
  BY SplitOrigins
<1>n. n \in 1..MaxOps
  OBVIOUS
<1>2. ASSUME NEW q, Lent(q)
      PROVE  /\ \E o \in p.lent : Same(q, o) /\ q.edit = o.edit /\ o \in over /\ q = Loan(p, o, to, n)
             /\ q.op = "delete" /\ q.sec = Src /\ q.key \in Bars
             /\ q.split # None /\ q.split.to = to /\ q.split.batch = n
             /\ q.split.kind \in {"restored", "duplicate-restored"}
  <2>1. PICK o \in p.lent : q = Loan(p, o, to, n)
    BY <1>2
  <2>2. o \in over /\ o.sec = Src /\ o.op = "delete" /\ o.key \in Bars
    BY DEF Planned
  <2>3. /\ Same(q, o) /\ q.edit = o.edit /\ q.split # None /\ q.split.to = to /\ q.split.batch = n
        /\ q.split.kind \in {"restored", "duplicate-restored"}
    BY <1>n, <2>1, SplitParts
  <2> HIDE DEF n
  <2> QED BY <2>1, <2>2, <2>3 DEF Same
<1>3. ASSUME NEW q, Deletes(q)
      PROVE  /\ q.sec = Src /\ q.op = "delete" /\ q.key \in p.taken /\ q = TakenDelete(p, q.key, to, n) /\ q.edit = 0
             /\ q.split # None /\ q.split.to = to /\ q.split.batch = n
             /\ q.split.kind \in {"moved", "duplicate"}
  BY <1>n, <1>3, SplitParts
<1>4. ASSUME NEW q, Adds(q)
      PROVE  /\ q.sec = to /\ q.op = "add" /\ q.key \in (p.taken \ Bars) \ p.dup
             /\ q = TakenAdd(p, q.key, to, n) /\ q.edit = 0
             /\ q.split # None /\ q.split.to = to /\ q.split.batch = n /\ q.split.kind = "moved"
  BY <1>n, <1>4, SplitParts
<1>5. \A o \in over : o.edit \in Nat /\ o.edit < n /\ (o.split # None => o.split.batch \in Nat \ {0} /\ o.split.batch < n)
  BY BatchIs, Typed
<1>6. n \in Nat \ {0} /\ ops' = n
  BY Typed
<1>7. /\ \A k \in p.taken : \A o \in over : ~(o.sec = Src /\ o.key = k /\ o.op = "delete")
      /\ \A k \in (p.taken \ Bars) \ p.dup : \A o \in over : ~(o.sec = to /\ o.key = k /\ o.op = "add")
  BY DEF SplitRecord
<1> HIDE DEF n, Lent, Deletes, Adds
<1>8. Unique'
  <2>1. ASSUME NEW q \in over', NEW r \in over', Same(q, r) PROVE q = r
    <3>1. CASE q \in over \ p.lent
      <4>1. CASE r \in over \ p.lent
        BY <2>1, <3>1, <4>1 DEF Record, Unique
      <4>2. CASE Lent(r)
        BY <1>2, <2>1, <3>1, <4>2 DEF Record, Unique, Same
      <4>3. CASE Deletes(r) \/ Adds(r)
        BY <1>3, <1>4, <1>7, <2>1, <3>1, <4>3 DEF Same
      <4> QED BY <1>1, <4>1, <4>2, <4>3
    <3>2. CASE Lent(q)
      <4>1. CASE r \in over \ p.lent
        BY <1>2, <2>1, <3>2, <4>1 DEF Record, Unique, Same
      <4>2. CASE Lent(r)
        BY <1>2, <2>1, <3>2, <4>2 DEF Record, Unique, Same
      <4>3. CASE Deletes(r) \/ Adds(r)
        BY <1>2, <1>3, <1>4, <1>7, <2>1, <3>2, <4>3 DEF Same
      <4> QED BY <1>1, <4>1, <4>2, <4>3
    <3>3. CASE Deletes(q)
      <4>1. CASE r \in over \ p.lent
        BY <1>3, <1>7, <2>1, <3>3, <4>1 DEF Same
      <4>2. CASE Lent(r)
        BY <1>2, <1>3, <1>7, <2>1, <3>3, <4>2 DEF Same
      <4>3. CASE Deletes(r) \/ Adds(r)
        BY <1>3, <1>4, <2>1, <3>3, <4>3 DEF Same
      <4> QED BY <1>1, <4>1, <4>2, <4>3
    <3>4. CASE Adds(q)
      <4>1. CASE r \in over \ p.lent
        BY <1>4, <1>7, <2>1, <3>4, <4>1 DEF Same
      <4>2. CASE Lent(r)
        BY <1>2, <1>4, <2>1, <3>4, <4>2 DEF Same
      <4>3. CASE Deletes(r) \/ Adds(r)
        BY <1>3, <1>4, <2>1, <3>4, <4>3 DEF Same
      <4> QED BY <1>1, <4>1, <4>2, <4>3
    <3> QED BY <1>1, <3>1, <3>2, <3>3, <3>4
  <2> QED BY <2>1 DEF Unique, Same
<1>9. Numbered'
  <2>1. \A q \in over' : q.edit <= n /\ (q.split # None => q.split.batch <= n)
    BY <1>1, <1>2, <1>3, <1>4, <1>5, <1>6
  <2> QED BY <1>6, <2>1 DEF Numbered
<1>10. \A q \in over' : q.edit # 0 => \E o \in over : o.edit = q.edit /\ o.sec = q.sec
  BY <1>1, <1>2, <1>3, <1>4 DEF Same
<1>11. OneHistory'
  <2>1. ASSUME NEW q \in over', NEW r \in over', q.edit # 0, r.edit = q.edit PROVE r.sec = q.sec
    BY <1>10, <2>1 DEF Record, OneHistory
  <2> QED BY <2>1 DEF OneHistory
<1>12. SplitShape'
  <2>1. ASSUME NEW q \in over', q.split # None PROVE Shape(q)
    <3>1. CASE q \in over \ p.lent
      BY <2>1, <3>1 DEF Record, SplitShape
    <3>2. CASE Lent(q)
      BY <1>2, <3>2 DEF Shape
    <3>3. CASE Deletes(q)
      BY <1>3, <3>3 DEF Shape
    <3>4. CASE Adds(q)
      BY <1>4, <3>4 DEF Shape
    <3> QED BY <1>1, <3>1, <3>2, <3>3, <3>4
  <2>2. ASSUME NEW q \in over', NEW r \in over', q.split # None PROVE Batched(q, r)
    <3>1. CASE q \in over \ p.lent
      <4>1. r.split # None /\ r.split.batch = q.split.batch => r \in over
        BY <1>1, <1>2, <1>3, <1>4, <1>5, <2>2, <3>1
      <4>2. r.edit # q.split.batch
        <5>1. r.edit = 0 \/ \E o \in over : o.edit = r.edit
          BY <1>10
        <5>2. \A o \in over : o.edit # q.split.batch
          BY <2>2, <3>1 DEF Record, SplitShape, Batched
        <5> QED BY <1>5, <2>2, <3>1, <5>1, <5>2
      <4> QED BY <2>2, <3>1, <4>1, <4>2 DEF Record, SplitShape, Batched
    <3>2. CASE Lent(q) \/ Deletes(q) \/ Adds(q)
      <4>1. q.split.batch = n /\ q.split.to = to
        BY <1>2, <1>3, <1>4, <3>2
      <4>2. r.split # None /\ r.split.batch = n => r.split.to = to
        BY <1>1, <1>2, <1>3, <1>4, <1>5
      <4>3. r.edit # n
        BY <1>5, <1>6, <1>10
      <4> QED BY <4>1, <4>2, <4>3 DEF Batched
    <3> QED BY <1>1, <3>1, <3>2
  <2> QED BY <2>1, <2>2 DEF SplitShape, Shape, Batched
<1> QED BY <1>8, <1>9, <1>11, <1>12 DEF Record

LEMMA RecordUndo ==
  ASSUME Record, NEW to, UndoRecord(to), Undoable(to) \subseteq over, UNCHANGED ops
  PROVE  Record'
<1>1. ASSUME NEW q \in over'
      PROVE  \/ q \in over \ Undoable(to)
             \/ \E o \in Undoable(to) : Same(q, o) /\ q.edit = o.edit /\ q.row = o.row /\ q.split = None
  BY DEF UndoRecord, Freed, Same
<1>2. ASSUME NEW q \in over'
      PROVE  \E o \in over : Same(q, o) /\ q.edit = o.edit /\ (q.split # None => q = o)
  BY <1>1 DEF Same
<1>3. Unique'
  <2>1. ASSUME NEW q \in over', NEW r \in over', Same(q, r) PROVE q = r
    <3>1. CASE q \in over \ Undoable(to) /\ r \in over \ Undoable(to)
      BY <2>1, <3>1 DEF Record, Unique
    <3>2. CASE q \in over \ Undoable(to) /\ r \notin over \ Undoable(to)
      BY <1>1, <2>1, <3>2 DEF Record, Unique, Same
    <3>3. CASE q \notin over \ Undoable(to) /\ r \in over \ Undoable(to)
      BY <1>1, <2>1, <3>3 DEF Record, Unique, Same
    <3>4. CASE q \notin over \ Undoable(to) /\ r \notin over \ Undoable(to)
      <4>1. PICK o \in Undoable(to) : q = Freed(o)
        BY <3>4 DEF UndoRecord
      <4>2. PICK u \in Undoable(to) : r = Freed(u)
        BY <3>4 DEF UndoRecord
      <4>3. Same(o, u)
        BY <2>1, <4>1, <4>2 DEF Same, Freed
      <4> QED BY <4>1, <4>2, <4>3 DEF Record, Unique
    <3> QED BY <3>1, <3>2, <3>3, <3>4
  <2> QED BY <2>1 DEF Unique, Same
<1>4. Numbered'
  BY <1>2 DEF Record, Numbered
<1>5. OneHistory'
  <2>1. ASSUME NEW q \in over', NEW r \in over', q.edit # 0, r.edit = q.edit PROVE r.sec = q.sec
    BY <1>2, <2>1 DEF Record, OneHistory, Same
  <2> QED BY <2>1 DEF OneHistory
<1>6. SplitShape'
  <2>1. ASSUME NEW q \in over', NEW r \in over', q.split # None PROVE Shape(q) /\ Batched(q, r)
    <3>1. q \in over
      BY <1>2, <2>1
    <3>2. PICK o \in over : r.edit = o.edit /\ (r.split # None => r = o)
      BY <1>2
    <3> QED BY <2>1, <3>1, <3>2 DEF Record, SplitShape, Batched
  <2> QED BY <2>1 DEF SplitShape, Shape, Batched
<1> QED BY <1>3, <1>4, <1>5, <1>6 DEF Record

LEMMA Steps ==
  ASSUME TypeOK, Next
  PROVE  \/ \E v \in Serving, s \in Secs, k \in Keys : Load(v, s, k)
         \/ \E s \in Secs, a \in Subjects : Raise(s, a)
         \/ \E s \in Secs : \E K : Removed(s, K)
         \/ \E s \in Secs, k \in Keys, v \in Values : AddAction(s, k, v)
         \/ \E s \in Secs, k \in Keys, day \in ExDates : Redate(s, k, day)
         \/ \E s \in Secs : \E K, to, scale : Edited(s, K, to, scale)
         \/ \E o \in over : Revoke(o)
         \/ \E e \in 1..MaxOps : RevokeEdit(e)
         \/ \E to \in {Dst, New} : \E lo, hi, restore : Split(lo, hi, to, restore)
         \/ \E to \in {Dst, New} : UndoSplit(to)
<1>1. ASSUME PricesDelete PROVE \E s \in Secs : \E K : Removed(s, K)
  BY <1>1 DEF PricesDelete, DeleteBars
<1>2. ASSUME ActionsDelete PROVE \E s \in Secs : \E K : Removed(s, K)
  BY <1>2 DEF ActionsDelete, DeleteActions
<1>3. ASSUME ActionsAdd PROVE \E s \in Secs, k \in Keys, v \in Values : AddAction(s, k, v)
  BY <1>3 DEF ActionsAdd
<1>4. ASSUME ActionsRedate PROVE \E s \in Secs, k \in Keys, day \in ExDates : Redate(s, k, day)
  BY <1>4 DEF ActionsRedate
<1>5. ASSUME PricesRescale PROVE \E s \in Secs : \E K, to, scale : Edited(s, K, to, scale)
  <2>1. PICK s \in Secs : \E lo, hi \in Dates : Rescale(s, lo, hi)
    BY <1>5 DEF PricesRescale
  <2> QED BY <2>1, RescaleIs
<1>6. ASSUME PricesShift PROVE \E s \in Secs : \E K, to, scale : Edited(s, K, to, scale)
  <2>1. PICK s \in Secs, days \in {-1, 1} : \E lo, hi \in Dates, actions \in BOOLEAN : Shift(s, lo, hi, days, actions)
    BY <1>6 DEF PricesShift
  <2> QED BY <2>1, ShiftIs
<1>7. ASSUME OverrideRevoke PROVE (\E o \in over : Revoke(o)) \/ \E e \in 1..MaxOps : RevokeEdit(e)
  BY <1>7 DEF OverrideRevoke
<1>8. ASSUME SplitHistory PROVE \/ \E to \in {Dst, New} : \E lo, hi, restore : Split(lo, hi, to, restore)
                                \/ \E to \in {Dst, New} : UndoSplit(to)
  BY <1>8 DEF SplitHistory
<1> QED BY <1>1, <1>2, <1>3, <1>4, <1>5, <1>6, <1>7, <1>8 DEF Next, OperatorStep

LEMMA EditedStep ==
  ASSUME TypeOK, NEW s \in Secs, NEW K, NEW to, NEW scale, Edited(s, K, to, scale)
  PROVE  /\ EditLeaves(s, K, to, scale, ops + 1)
         /\ K \subseteq Keys /\ K \subseteq Stored(s)
         /\ \A k \in K : to[k] \in Keys
         /\ \A k, j \in K : to[k] = to[j] => k = j
         /\ \A k \in K : to[k] \notin K => held[s][to[k]] = None
<1>1. /\ K \in SUBSET Stored(s) /\ K # {} /\ to \in [K -> Keys] /\ scale \in {1, -1}
      /\ \A k, j \in K : to[k] = to[j] => k = j
      /\ \A k \in K : to[k] \notin K => held[s][to[k]] = None
      /\ Replace(s, K, to, scale)
  BY DEF Edited
<1>2. EditLeaves(s, K, to, scale, ops + 1)
  BY <1>1, ReplaceIs
<1>3. K \subseteq Keys
  BY <1>2 DEF EditLeaves
<1> QED BY <1>1, <1>2, <1>3

(* The state after a step is typed, and its record is in order. *)
LEMMA RecordKept ==
  ASSUME TypeOK, Record, [Next]_vars
  PROVE  TypeOK' /\ Record'
<1>1. ASSUME NEW v \in Serving, NEW s \in Secs, NEW k \in Keys, Load(v, s, k) PROVE TypeOK' /\ Record'
  BY <1>1, LoadIs, RememberIs, RecordLess
<1>2. ASSUME NEW s \in Secs, NEW a \in Subjects, Raise(s, a) PROVE TypeOK' /\ Record'
  BY <1>2, RaiseIs, RecordLess
<1>3. ASSUME NEW s \in Secs, NEW K, Removed(s, K) PROVE TypeOK' /\ Record'
  <2> DEFINE new == over' \ over
  <2>1. /\ Rest /\ ops' = ops + 1 /\ Remember(0) /\ over \subseteq over'
        /\ \A k \in K : At(s, k, "delete") = {}
        /\ \A o \in over' \ over : /\ o \in Override /\ o.sec = s /\ o.key \in K /\ o.op = "delete"
                                    /\ o.edit = 0 /\ o.split = None
                                    /\ o = Plain(s, o.key, "delete", held[s][o.key])
    BY <1>3, RemovedIs
  <2>2. \A o, p \in new : Same(o, p) => o = p
    <3>1. ASSUME NEW o \in new, NEW p \in new, Same(o, p) PROVE o = p
      <4>1. o.key = p.key
        BY <3>1 DEF Same
      <4>2. o = Plain(s, o.key, "delete", held[s][o.key]) /\ p = Plain(s, p.key, "delete", held[s][p.key])
        BY <2>1
      <4> HIDE DEF new
      <4> QED BY <4>1, <4>2
    <3> QED BY <3>1
  <2>3. \A o \in new : \A p \in over : ~Same(o, p)
    BY <2>1 DEF At, Same
  <2>4. AddsOnly(new)
    <3>1. over' = over \cup new /\ new \subseteq Override
      BY <2>1
    <3> HIDE DEF new
    <3> QED BY <2>2, <2>3, <3>1 DEF AddsOnly
  <2>5. \A o \in new : o.split = None /\ o.edit = 0 /\ o.sec = s
    BY <2>1
  <2> HIDE DEF new
  <2>6. Record'
    BY <2>1, <2>4, <2>5, RecordMore
  <2> QED BY <2>1, <2>6, RememberIs
<1>4. ASSUME NEW s \in Secs, NEW k \in Keys, NEW v \in Values, AddAction(s, k, v) PROVE TypeOK' /\ Record'
  <2> DEFINE new == over' \ over
  <2>1. /\ Rest /\ ops' = ops + 1 /\ Remember(0) /\ over \subseteq over'
        /\ At(s, k, "add") = {}
        /\ \A o \in over' \ over : /\ o.sec = s /\ o.key = k /\ o.op = "add"
                                   /\ o.edit = 0 /\ o.split = None
        /\ \A o, p \in over' \ over : o = p
    BY <1>4, AddActionIs
  <2>2. \A o \in new : \A p \in over : ~Same(o, p)
    BY <2>1 DEF At, Same
  <2>3. over' = over \cup new /\ new \subseteq Override
    BY <2>1 DEF Rest
  <2>4. AddsOnly(new)
    BY <2>1, <2>2, <2>3 DEF AddsOnly
  <2>5. \A o \in new : o.split = None /\ o.edit = 0 /\ o.sec = s
    BY <2>1
  <2> HIDE DEF new
  <2>6. Record'
    BY <2>1, <2>4, <2>5, RecordMore
  <2> QED BY <2>1, <2>6, RememberIs
<1>5. ASSUME NEW s \in Secs, NEW k \in Keys, NEW day \in ExDates, Redate(s, k, day) PROVE TypeOK' /\ Record'
  <2> DEFINE to == <<k[1], day>>
             r  == [held[s][k] EXCEPT !.by = Operator]
             new == {Plain(s, k, "delete", held[s][k]), Plain(s, to, "add", r)}
  <2> HIDE DEF to, r
  <2>0. RedateLeaves(s, k, to, r)
    BY <1>5, RedateIs DEF to, r
  <2>1. Rest /\ ops' = ops + 1 /\ Remember(0) /\ AddsOnly(new)
    BY <2>0 DEF RedateLeaves
  <2>2. \A o \in new : o.split = None /\ o.edit = 0 /\ o.sec = s
    BY DEF Plain
  <2> HIDE DEF new
  <2>3. Record'
    BY <2>1, <2>2, RecordMore
  <2> QED BY <2>1, <2>3, RememberIs
<1>6. ASSUME NEW s \in Secs, NEW K, NEW to, NEW scale, Edited(s, K, to, scale) PROVE TypeOK' /\ Record'
  <2> DEFINE n == ops + 1
             new == {EditDelete(s, k, n) : k \in K} \cup {EditAdd(s, k, to, scale, n) : k \in K}
  <2>1. Rest /\ ops' = n /\ Remember(n) /\ AddsOnly(new)
    BY <1>6, EditedStep DEF EditLeaves
  <2>2. \A o \in new : o.split = None /\ o.edit = n /\ o.sec = s
    BY DEF EditDelete, EditAdd
  <2> HIDE DEF new
  <2>3. Record'
    BY <2>1, <2>2, RecordMore
  <2> QED BY <2>1, <2>3, RememberIs
<1>7. ASSUME NEW o \in over, Revoke(o) PROVE TypeOK' /\ Record'
  BY <1>7, RevokeIs, RememberIs, RecordLess
<1>8. ASSUME NEW e \in 1..MaxOps, RevokeEdit(e) PROVE TypeOK' /\ Record'
  <2>1. Rest /\ UNCHANGED ops /\ Remember(0) /\ over' \subseteq over
    BY <1>8, RevokeEditIs DEF Record
  <2> QED BY <2>1, RememberIs, RecordLess
<1>9. ASSUME NEW to \in {Dst, New}, NEW lo, NEW hi, NEW restore, Split(lo, hi, to, restore)
      PROVE  TypeOK' /\ Record'
  <2>1. Rest /\ ops' = ops + 1 /\ ops + 1 \in 1..MaxOps /\ Remember(ops + 1)
        /\ \E p : Planned(p, to) /\ SplitRecord(p, to, ops + 1)
    BY <1>9, SplitIs DEF Record
  <2> QED BY <2>1, RememberIs, RecordSplit
<1>10. ASSUME NEW to \in {Dst, New}, UndoSplit(to) PROVE TypeOK' /\ Record'
  <2>1. Rest /\ UNCHANGED ops /\ Remember(0) /\ UndoRecord(to) /\ OfPair(to) # {}
    BY <1>10, UndoIs DEF Record
  <2>2. Undoable(to) \subseteq over
    BY <2>1, UndoableIs DEF Record
  <2> QED BY <2>1, <2>2, RememberIs, RecordUndo
<1>11. ASSUME UNCHANGED vars PROVE TypeOK' /\ Record'
  <2>1. TypeOK'
    BY <1>11 DEF vars, TypeOK
  <2> QED BY <1>11, <2>1, RecordLess DEF vars
<1> QED BY <1>1, <1>2, <1>3, <1>4, <1>5, <1>6, <1>7, <1>8, <1>9, <1>10, <1>11, Steps

LEMMA InitIs ==
  ASSUME Init
  PROVE  /\ held \in Table /\ over = {} /\ flags = {} /\ exists = FALSE /\ ops = 0
         /\ \A b \in 1..MaxOps : before[b] = None
<1>1. ASSUME NEW s \in Secs, NEW k \in Keys, Feed[<<"fmp", s, k>>] # None
      PROVE  [val |-> Feed[<<"fmp", s, k>>], by |-> "fmp"] \in Row
  BY <1>1, FedRow, Given
<1>2. held \in Table
  BY <1>1 DEF Init, Table
<1> QED BY <1>2 DEF Init

LEMMA RecordAtFirst ==
  ASSUME Init
  PROVE  TypeOK /\ Record
<1>1. TypeOK
  <2>1. /\ held \in Table /\ over = {} /\ flags = {} /\ exists = FALSE /\ ops = 0
    BY InitIs
  <2>2. before \in [1..MaxOps -> Table \cup {None}] /\ since \in [1..MaxOps -> SUBSET (Secs \X Keys)]
    BY DEF Init
  <2>3. 0 \in 0..MaxOps /\ {} \subseteq Override /\ {} \subseteq Flag
    BY Given
  <2> QED BY <2>1, <2>2, <2>3 DEF TypeOK, Table
<1>2. over = {}
  BY InitIs
<1>3. Record
  BY <1>2 DEF Record, Unique, Numbered, OneHistory, SplitShape
<1> QED BY <1>1, <1>3

(* Every state of the histories is well typed: three tables of rows, the overrides in   *)
(* force, the flags, and what each operation still in force found.                      *)
THEOREM HistoryTypeCorrect == Spec => []TypeOK
<1>1. Init => TypeOK /\ Record
  BY RecordAtFirst
<1>2. TypeOK /\ Record /\ [Next]_vars => TypeOK' /\ Record'
  BY RecordKept
<1> QED BY <1>1, <1>2, PTL DEF Spec

-----------------------------------------------------------------------------
(* What was removed stays out *)

Kept(o) ==
  o.sec = Src /\ o.op = "delete" /\ held[Src][o.key] # None =>
        \/ held[Src][o.key].by = Operator
        \/ Moves(o) /\ held[Src][o.key].by # o.row.by

LEMMA KeptIs == RemovedStaysOut <=> \A o \in over : Kept(o)
BY DEF RemovedStaysOut, Kept

(* A row that stays, goes or becomes the operator's disturbs no removal. *)
Quieter(k) == \/ held'[Src][k] \in {None, held[Src][k]}
              \/ held'[Src][k].by = Operator

LEMMA QuieterKeeps ==
  ASSUME NEW o, Kept(o), Quieter(o.key)
  PROVE  Kept(o)'
BY DEF Kept, Quieter, Moves

LEMMA RemovedKept ==
  ASSUME TypeOK, Record, RemovedStaysOut, [Next]_vars
  PROVE  RemovedStaysOut'
<1>t. over \subseteq Override /\ \A o \in over : o.key \in Keys /\ o.sec \in Secs /\ Kept(o)
  BY Typed, OverrideFields, KeptIs
<1>u. Unique
  BY DEF Record
<1>g. Src \in Secs
  BY Given
<1>1. ASSUME NEW v \in Serving, NEW s \in Secs, NEW k \in Keys, Load(v, s, k) PROVE \A o \in over' : Kept(o)'
  <2>1. /\ over' = over /\ ~Suppressed(v, s, k) /\ held'[s][k] \in Row /\ held'[s][k].by = v
        /\ \A t \in Secs : \A j \in Keys : ~(t = s /\ j = k) => held'[t][j] = held[t][j]
    BY <1>1, LoadIs
  <2>2. ASSUME NEW o \in over' PROVE Kept(o)'
    <3>1. CASE s = Src /\ o.key = k
      BY <2>1, <3>1 DEF Kept, Suppressed, Sets, Moves
    <3>2. CASE ~(s = Src /\ o.key = k)
      <4>1. held'[Src][o.key] = held[Src][o.key]
        BY <1>t, <1>g, <2>1, <2>2, <3>2
      <4> QED BY <1>t, <2>1, <2>2, <4>1, QuieterKeeps DEF Quieter
    <3> QED BY <3>1, <3>2
  <2> QED BY <2>2
<1>2. ASSUME NEW s \in Secs, NEW a \in Subjects, Raise(s, a) PROVE \A o \in over' : Kept(o)'
  <2>1. UNCHANGED <<held, over>>
    BY <1>2, RaiseIs
  <2> QED BY <1>t, <2>1, QuieterKeeps DEF Quieter
<1>3. ASSUME NEW s \in Secs, NEW K, Removed(s, K) PROVE \A o \in over' : Kept(o)'
  <2>1. /\ \A o \in over' \ over : o \in Override /\ o.sec = s /\ o.key \in K
        /\ \A t \in Secs : \A k \in Keys : held'[t][k] = IF t = s /\ k \in K THEN None ELSE held[t][k]
    BY <1>3, RemovedIs
  <2>2. \A o \in over : Kept(o)'
    BY <1>t, <1>g, <2>1, QuieterKeeps DEF Quieter
  <2>3. \A o \in over' \ over : Kept(o)'
    BY <1>g, <2>1, OverrideFields DEF Kept
  <2> QED BY <2>2, <2>3
<1>4. ASSUME NEW s \in Secs, NEW k \in Keys, NEW v \in Values, AddAction(s, k, v) PROVE \A o \in over' : Kept(o)'
  <2>1. /\ \A o \in over' \ over : o.op = "add"
        /\ held'[s][k].by = Operator
        /\ \A t \in Secs : \A j \in Keys : ~(t = s /\ j = k) => held'[t][j] = held[t][j]
    BY <1>4, AddActionIs
  <2>2. \A o \in over : Kept(o)'
    BY <1>t, <1>g, <2>1, QuieterKeeps DEF Quieter
  <2>3. \A o \in over' \ over : Kept(o)'
    BY <2>1 DEF Kept
  <2> QED BY <2>2, <2>3
<1>5. ASSUME NEW s \in Secs, NEW k \in Keys, NEW day \in ExDates, Redate(s, k, day) PROVE \A o \in over' : Kept(o)'
  <2> DEFINE to == <<k[1], day>>
             r  == [held[s][k] EXCEPT !.by = Operator]
             new == {Plain(s, k, "delete", held[s][k]), Plain(s, to, "add", r)}
  <2> HIDE DEF to, r
  <2>0. RedateLeaves(s, k, to, r)
    BY <1>5, RedateIs DEF to, r
  <2>1. /\ AddsOnly(new) /\ held'[s][k] = None /\ held'[s][to] = r /\ r.by = Operator
        /\ \A t \in Secs : \A j \in Keys : ~(t = s /\ j \in {k, to}) => held'[t][j] = held[t][j]
    BY <2>0 DEF RedateLeaves
  <2>2. \A o \in over : Kept(o)'
    BY <1>t, <1>g, <2>1, QuieterKeeps DEF Quieter
  <2>3. \A o \in new : Kept(o)'
    BY <2>1 DEF Kept, Plain
  <2> QED BY <2>1, <2>2, <2>3 DEF AddsOnly
<1>6. ASSUME NEW s \in Secs, NEW K, NEW to, NEW scale, Edited(s, K, to, scale) PROVE \A o \in over' : Kept(o)'
  <2> DEFINE n == ops + 1
             new == {EditDelete(s, k, n) : k \in K} \cup {EditAdd(s, k, to, scale, n) : k \in K}
  <2>0. EditLeaves(s, K, to, scale, n)
    BY <1>6, EditedStep
  <2> HIDE DEF n
  <2>1. /\ AddsOnly(new) /\ K \subseteq Keys
        /\ \A k \in K : held'[s][to[k]].by = Operator
        /\ \A j \in Keys : (\A k \in K : to[k] # j) => held'[s][j] = IF j \in K THEN None ELSE held[s][j]
        /\ \A t \in Secs \ {s} : \A j \in Keys : held'[t][j] = held[t][j]
    BY <2>0 DEF EditLeaves
  <2>2. \A j \in Keys : Quieter(j)
    BY <1>g, <2>1 DEF Quieter
  <2>3. \A o \in over : Kept(o)'
    BY <1>t, <2>2, QuieterKeeps
  <2>4. ASSUME NEW k \in K, NEW o, o = EditDelete(s, k, n) \/ o = EditAdd(s, k, to, scale, n) PROVE Kept(o)'
    BY <2>1, <2>4 DEF Kept, EditDelete, EditAdd
  <2>5. ASSUME NEW o \in new PROVE Kept(o)'
    <3>1. (\E k \in K : o = EditDelete(s, k, n)) \/ (\E k \in K : o = EditAdd(s, k, to, scale, n))
      BY <2>5
    <3> QED BY <2>4, <3>1
  <2> HIDE DEF new
  <2> QED BY <2>1, <2>3, <2>5 DEF AddsOnly
<1>7. ASSUME NEW o \in over, Revoke(o) PROVE \A q \in over' : Kept(q)'
  <2>1. /\ over' \subseteq over
        /\ \A t \in Secs : \A k \in Keys : held'[t][k] = held[t][k] \/ held'[t][k] = None
    BY <1>7, RevokeIs
  <2> QED BY <1>t, <1>g, <2>1, QuieterKeeps DEF Quieter
<1>8. ASSUME NEW e \in 1..MaxOps, RevokeEdit(e) PROVE \A q \in over' : Kept(q)'
  <2>1. over' = over \ EditOf(e)
    BY <1>8, RevokeEditIs DEF Record
  <2>2. PICK s \in Secs :
              /\ \A o \in EditOf(e) : o.sec = s
              /\ \A t \in Secs \ {s} : \A k \in Keys : held'[t][k] = held[t][k]
              /\ \A k \in Keys : (\A o \in EditOf(e) : o.op = "delete" => o.key # k)
                          => held'[s][k] = None \/ held'[s][k] = held[s][k]
    BY <1>8, RevokeEditIs DEF Record
  <2>3. EditOf(e) \subseteq over
    BY DEF EditOf
  <2>4. ASSUME NEW q \in over', q.sec = Src, q.op = "delete" PROVE Kept(q)'
    <3>1. \A o \in EditOf(e) : o.op = "delete" => ~(o.sec = Src /\ o.key = q.key)
      BY <1>u, <2>1, <2>3, <2>4 DEF Unique, Same
    <3>2. Quieter(q.key)
      BY <1>t, <1>g, <2>1, <2>2, <2>4, <3>1 DEF Quieter
    <3> QED BY <1>t, <2>1, <2>4, <3>2, QuieterKeeps
  <2> QED BY <2>4 DEF Kept
<1>9. ASSUME NEW to \in {Dst, New}, NEW lo, NEW hi, NEW restore, Split(lo, hi, to, restore)
      PROVE  \A q \in over' : Kept(q)'
  <2> DEFINE n == ops + 1
  <2>1. PICK p : Planned(p, to) /\ SplitRecord(p, to, n) /\ SplitRows(p, to) /\ n \in 1..MaxOps
    BY <1>9, <1>u, SplitIs
  <2>2. \A k \in Keys : held'[Src][k] = IF k \in p.taken THEN None ELSE held[Src][k]
    BY <2>1 DEF SplitRows
  <2>3. p.taken \subseteq Keys /\ \A o \in p.lent : o \in over /\ o.key \in Keys /\ held[Src][o.key] = None
    BY <2>1 DEF Planned
  <2> HIDE DEF n
  <2>4. ASSUME NEW q \in over \ p.lent PROVE Kept(q)'
    BY <1>t, <2>2, <2>4, QuieterKeeps DEF Quieter
  <2>5. ASSUME NEW o \in p.lent, NEW q, q = Loan(p, o, to, n) PROVE Kept(q)'
    BY <2>2, <2>3, <2>5 DEF Kept, Loan
  <2>6. ASSUME NEW k \in p.taken, NEW q, q = TakenDelete(p, k, to, n) PROVE Kept(q)'
    BY <2>2, <2>3, <2>6 DEF Kept, TakenDelete
  <2>7. ASSUME NEW k \in p.taken, NEW q, q = TakenAdd(p, k, to, n) PROVE Kept(q)'
    BY <2>7 DEF Kept, TakenAdd
  <2>8. ASSUME NEW q \in over' PROVE Kept(q)'
    <3>1. \/ q \in over \ p.lent
          \/ \E o \in p.lent : q = Loan(p, o, to, n)
          \/ \E k \in p.taken : q = TakenDelete(p, k, to, n)
          \/ \E k \in p.taken : q = TakenAdd(p, k, to, n)
      BY <2>1, SplitOrigins
    <3> QED BY <2>4, <2>5, <2>6, <2>7, <3>1
  <2> QED BY <2>8
<1>10. ASSUME NEW to \in {Dst, New}, UndoSplit(to) PROVE \A q \in over' : Kept(q)'
  <2>1. UndoRecord(to) /\ UndoRows(to) /\ OfPair(to) # {}
    BY <1>10, UndoIs DEF Record
  <2>2. Undoable(to) \subseteq over /\ \A o \in Undoable(to) : o.split # None
    BY <2>1, UndoableIs DEF Record
  <2>3. \A o \in Undoable(to) : GivesBack(o) => o.sec = Src /\ o.op = "delete" /\ Moves(o)
    BY <2>2 DEF Record, SplitShape, Shape, GivesBack
  <2>4. \A k \in Keys : (\A o \in Undoable(to) : GivesBack(o) => o.key # k) => held'[Src][k] = held[Src][k]
    BY <2>1 DEF UndoRows
  <2>5. ASSUME NEW q \in over, q.sec = Src, q.op = "delete", q \notin Undoable(to) \/ ~Moves(q)
        PROVE  Kept(q)' /\ held'[Src][q.key] = held[Src][q.key]
    <3>1. \A o \in Undoable(to) : GivesBack(o) => o.key # q.key
      BY <1>u, <2>2, <2>3, <2>5 DEF Unique, Same
    <3>2. held'[Src][q.key] = held[Src][q.key]
      BY <1>t, <2>4, <2>5, <3>1
    <3> QED BY <1>t, <2>5, <3>2, QuieterKeeps DEF Quieter
  <2>6. ASSUME NEW o \in Undoable(to), ~Moves(o), NEW q, q = Freed(o) PROVE Kept(q)'
    <3>1. CASE o.sec = Src /\ o.op = "delete"
      <4>1. held'[Src][o.key] = held[Src][o.key] /\ Kept(o)
        BY <1>t, <2>2, <2>5, <2>6, <3>1
      <4> QED BY <2>6, <3>1, <4>1 DEF Kept, Freed
    <3>2. CASE ~(o.sec = Src /\ o.op = "delete")
      BY <2>6, <3>2 DEF Kept, Freed
    <3> QED BY <3>1, <3>2
  <2>7. ASSUME NEW q \in over \ Undoable(to) PROVE Kept(q)'
    BY <2>5, <2>7 DEF Kept
  <2> QED BY <2>1, <2>6, <2>7 DEF UndoRecord
<1>11. ASSUME UNCHANGED vars PROVE \A o \in over' : Kept(o)'
  BY <1>11, <1>t, QuieterKeeps DEF vars, Quieter
<1>12. \A o \in over' : Kept(o)'
  BY <1>1, <1>2, <1>3, <1>4, <1>5, <1>6, <1>7, <1>8, <1>9, <1>10, <1>11, Steps
<1> QED BY <1>12 DEF RemovedStaysOut, Kept

(* What an operator removed from the source stays out while its override is in force     *)
(* (RemovedStaysOut), for any vendors, feeds, dates and number of operations.            *)
THEOREM WhatWasRemovedStaysOut == Spec => []RemovedStaysOut
<1>1. Init => TypeOK /\ Record /\ RemovedStaysOut
  <2>1. Init => over = {}
    BY InitIs
  <2>2. over = {} => RemovedStaysOut
    BY DEF RemovedStaysOut
  <2> QED BY <2>1, <2>2, RecordAtFirst
<1>2. TypeOK /\ Record /\ RemovedStaysOut /\ [Next]_vars => TypeOK' /\ Record' /\ RemovedStaysOut'
  BY RecordKept, RemovedKept
<1> QED BY <1>1, <1>2, PTL DEF Spec

-----------------------------------------------------------------------------
(* What was moved returns *)

Returned(o) == held'[Src][o.key] # None /\ (o.split.kind = "moved" => held'[Src][o.key] = o.row)

LEMMA OnlyUndoLifts ==
  ASSUME TypeOK, Record, Next, NEW o \in over, o \notin over', Moves(o)
  PROVE  \E to \in {Dst, New} : UndoSplit(to)
<1>m. o.split # None /\ o.edit = 0
  BY DEF Record, SplitShape, Shape, Moves
<1>1. ASSUME NEW v \in Serving, NEW s \in Secs, NEW k \in Keys, Load(v, s, k) PROVE FALSE
  BY <1>1, LoadIs
<1>2. ASSUME NEW s \in Secs, NEW a \in Subjects, Raise(s, a) PROVE FALSE
  BY <1>2, RaiseIs
<1>3. ASSUME NEW s \in Secs, NEW K, Removed(s, K) PROVE FALSE
  BY <1>3, RemovedIs
<1>4. ASSUME NEW s \in Secs, NEW k \in Keys, NEW v \in Values, AddAction(s, k, v) PROVE FALSE
  BY <1>4, AddActionIs
<1>5. ASSUME NEW s \in Secs, NEW k \in Keys, NEW day \in ExDates, Redate(s, k, day) PROVE FALSE
  <2>1. over \subseteq over'
    BY <1>5 DEF Redate
  <2> QED BY <2>1
<1>6. ASSUME NEW s \in Secs, NEW K, NEW to, NEW scale, Edited(s, K, to, scale) PROVE FALSE
  <2>1. over \subseteq over'
    BY <1>6 DEF Edited, Replace
  <2> QED BY <2>1
<1>7. ASSUME NEW p \in over, Revoke(p) PROVE FALSE
  <2>1. over' = over \ {p} /\ p.split = None
    BY <1>7, RevokeIs
  <2> QED BY <1>m, <2>1
<1>8. ASSUME NEW e \in 1..MaxOps, RevokeEdit(e) PROVE FALSE
  <2>1. over' = over \ EditOf(e)
    BY <1>8, RevokeEditIs DEF Record
  <2> QED BY <1>m, <2>1 DEF EditOf
<1>9. ASSUME NEW to \in {Dst, New}, NEW lo, NEW hi, NEW restore, Split(lo, hi, to, restore) PROVE FALSE
  <2>1. PICK p : Planned(p, to) /\ SplitRecord(p, to, ops + 1)
    BY <1>9, SplitIs DEF Record
  <2>2. o \notin p.lent
    BY <1>m, <2>1 DEF Planned
  <2> QED BY <2>1, <2>2 DEF SplitRecord
<1> QED BY <1>1, <1>2, <1>3, <1>4, <1>5, <1>6, <1>7, <1>8, <1>9, Steps

LEMMA UndoReturns ==
  ASSUME TypeOK, Record, NEW to \in {Dst, New}, UndoSplit(to),
         NEW o \in over, o \notin over', o.op = "delete", Moves(o)
  PROVE  Returned(o)
<1>1. UndoRecord(to) /\ UndoRows(to) /\ OfPair(to) # {} /\ Occupied(Undoable(to)) = {}
  BY UndoIs DEF Record
<1>2. Undoable(to) \subseteq over /\ \A p \in Undoable(to) : p.split # None
  BY <1>1, UndoableIs DEF Record
<1>3. o \in Undoable(to)
  BY <1>1 DEF UndoRecord
<1>4. o.row # None /\ o.key \in Keys /\ o.sec = Src
  <2>1. o \in Override
    BY Typed
  <2>2. o.row \in Row /\ o.key \in Keys
    BY <2>1, OverrideFields
  <2>3. o.sec = Src
    BY <1>2, <1>3 DEF Record, SplitShape, Shape
  <2> QED BY <2>2, <2>3, Given
<1>5. CASE held[Src][o.key] = None
  <2>1. held'[Src][o.key] = o.row
    BY <1>1, <1>3, <1>5 DEF UndoRows, GivesBack
  <2> QED BY <1>4, <2>1 DEF Returned
<1>6. CASE held[Src][o.key] # None
  <2>1. o.split.kind # "moved"
    BY <1>1, <1>3, <1>4, <1>6 DEF Occupied
  <2>2. held'[Src][o.key] = held[Src][o.key]
    <3>1. \A p \in Undoable(to) : GivesBack(p) => p.key # o.key
      BY <1>6 DEF GivesBack
    <3> QED BY <1>1, <1>4, <3>1 DEF UndoRows
  <2> QED BY <1>6, <2>1, <2>2 DEF Returned
<1> QED BY <1>5, <1>6

(* The rows a split recorded as moved are on the source again when its record is lifted   *)
(* (MovedRowsReturn): the plan of an undo is refused unless each of them fits.            *)
THEOREM WhatWasMovedReturns == Spec => MovedRowsReturn
<1> DEFINE Back == \A o \in over \ over' : o.op = "delete" /\ Moves(o) => Returned(o)
<1>1. Init => TypeOK /\ Record
  BY RecordAtFirst
<1>2. TypeOK /\ Record /\ [Next]_vars => TypeOK' /\ Record'
  BY RecordKept
<1>3. TypeOK /\ Record /\ [Next]_vars => [Back]_vars
  <2>1. ASSUME TypeOK, Record, Next PROVE Back
    <3>1. ASSUME NEW o \in over \ over', o.op = "delete", Moves(o) PROVE Returned(o)
      BY <2>1, <3>1, OnlyUndoLifts, UndoReturns
    <3> QED BY <3>1
  <2> HIDE DEF Back
  <2> QED BY <2>1
<1>4. Spec => [][Back]_vars
  <2> HIDE DEF Back
  <2> QED BY <1>1, <1>2, <1>3, PTL DEF Spec
<1> QED BY <1>4 DEF MovedRowsReturn, Returned

-----------------------------------------------------------------------------
(* What is remembered *)

LEMMA Remembers ==
  ASSUME TypeOK, Record, Next
  PROVE  \/ Rest /\ Remember(0)
         \/ UNCHANGED <<held, over, before, since>>
         \/ \E s \in Secs : \E K, to, scale : Edited(s, K, to, scale)
         \/ \E to \in {Dst, New} : \E lo, hi, restore : Split(lo, hi, to, restore)
<1>1. ASSUME NEW v \in Serving, NEW s \in Secs, NEW k \in Keys, Load(v, s, k) PROVE Rest /\ Remember(0)
  BY <1>1, LoadIs
<1>2. ASSUME NEW s \in Secs, NEW a \in Subjects, Raise(s, a) PROVE UNCHANGED <<held, over, before, since>>
  BY <1>2, RaiseIs
<1>3. ASSUME NEW s \in Secs, NEW K, Removed(s, K) PROVE Rest /\ Remember(0)
  BY <1>3, RemovedIs
<1>4. ASSUME NEW s \in Secs, NEW k \in Keys, NEW v \in Values, AddAction(s, k, v) PROVE Rest /\ Remember(0)
  BY <1>4, AddActionIs
<1>5. ASSUME NEW s \in Secs, NEW k \in Keys, NEW day \in ExDates, Redate(s, k, day) PROVE Rest /\ Remember(0)
  BY <1>5, RedateIs DEF RedateLeaves
<1>7. ASSUME NEW p \in over, Revoke(p) PROVE Rest /\ Remember(0)
  BY <1>7, RevokeIs
<1>8. ASSUME NEW e \in 1..MaxOps, RevokeEdit(e) PROVE Rest /\ Remember(0)
  BY <1>8, RevokeEditIs DEF Record
<1>10. ASSUME NEW to \in {Dst, New}, UndoSplit(to) PROVE Rest /\ Remember(0)
  BY <1>10, UndoIs DEF Record
<1> QED BY <1>1, <1>2, <1>3, <1>4, <1>5, <1>7, <1>8, <1>10, Steps

Remembered == \A b \in 1..MaxOps : before[b] # None => InForce(b) /\ ~Entangled(b)

LEMMA RememberedKept ==
  ASSUME TypeOK, Record, Remembered, [Next]_vars
  PROVE  Remembered'
<1>1. ASSUME UNCHANGED <<over, before>> PROVE Remembered'
  BY <1>1 DEF Remembered, InForce, Batch, EditOf, Entangled
<1>2. ASSUME NEW n, Rest, Remember(n) PROVE Remembered'
  BY <1>2, RememberIs DEF Remembered
<1>4. ASSUME NEW s \in Secs, NEW K, NEW to, NEW scale, Edited(s, K, to, scale) PROVE Rest /\ Remember(ops + 1)
  <2>1. EditLeaves(s, K, to, scale, ops + 1)
    BY <1>4, EditedStep
  <2> QED BY <2>1 DEF EditLeaves
<1>5. ASSUME NEW to \in {Dst, New}, NEW lo, NEW hi, NEW restore, Split(lo, hi, to, restore) PROVE Rest /\ Remember(ops + 1)
  BY <1>5, SplitIs DEF Record
<1>3. CASE Next
  BY <1>1, <1>2, <1>3, <1>4, <1>5, Remembers
<1> QED BY <1>1, <1>3 DEF vars

(* Which override an operation or its undo leaves in force. *)
LEMMA Lifted ==
  ASSUME TypeOK, Record, Remembered, Next, NEW b \in 1..MaxOps, Undone(b)
  PROVE  \/ RevokeEdit(b) /\ EditOf(b) # {}
         \/ \E to \in {Dst, New} : UndoSplit(to) /\ b = Newest(to)
<1>b. b # 0 /\ InForce(b) /\ ~Entangled(b) /\ ~InForce(b)'
  BY DEF Undone, Remembered
<1>p. PICK o \in over : o \in Batch(b) \/ o \in EditOf(b)
  BY <1>b DEF InForce, Batch, EditOf
<1>q. \A q \in over' : q.edit # b /\ (q.split # None => q.split.batch # b)
  BY <1>b DEF InForce, Batch, EditOf
<1>r. \/ o.split # None /\ o.split.batch = b /\ o.edit = 0
      \/ o.edit = b
  BY <1>b, <1>p DEF Batch, EditOf, Entangled
<1>s. o \notin over'
  BY <1>q, <1>r
<1>1. ASSUME NEW v \in Serving, NEW s \in Secs, NEW k \in Keys, Load(v, s, k) PROVE FALSE
  BY <1>1, <1>s, LoadIs
<1>2. ASSUME NEW s \in Secs, NEW a \in Subjects, Raise(s, a) PROVE FALSE
  BY <1>2, <1>s, RaiseIs
<1>3. ASSUME NEW s \in Secs, NEW K, Removed(s, K) PROVE FALSE
  BY <1>3, <1>s, RemovedIs
<1>4. ASSUME NEW s \in Secs, NEW k \in Keys, NEW v \in Values, AddAction(s, k, v) PROVE FALSE
  BY <1>4, <1>s, AddActionIs
<1>5. ASSUME NEW s \in Secs, NEW k \in Keys, NEW day \in ExDates, Redate(s, k, day) PROVE FALSE
  <2>1. over \subseteq over'
    BY <1>5 DEF Redate
  <2> QED BY <1>s, <2>1
<1>6. ASSUME NEW s \in Secs, NEW K, NEW to, NEW scale, Edited(s, K, to, scale) PROVE FALSE
  <2>1. over \subseteq over'
    BY <1>6 DEF Edited, Replace
  <2> QED BY <1>s, <2>1
<1>7. ASSUME NEW p \in over, Revoke(p) PROVE FALSE
  <2>1. over' = over \ {p} /\ p.split = None /\ p.edit = 0
    BY <1>7, RevokeIs
  <2> QED BY <1>b, <1>r, <1>s, <2>1
<1>8. ASSUME NEW e \in 1..MaxOps, RevokeEdit(e) PROVE RevokeEdit(b) /\ EditOf(b) # {}
  <2>1. over' = over \ EditOf(e)
    BY <1>8, RevokeEditIs DEF Record
  <2>2. o.edit = e /\ e # 0
    BY <1>s, <2>1 DEF EditOf
  <2> QED BY <1>8, <1>r, <2>2 DEF EditOf
<1>9. ASSUME NEW to \in {Dst, New}, NEW lo, NEW hi, NEW restore, Split(lo, hi, to, restore) PROVE FALSE
  <2> DEFINE n == ops + 1
  <2>1. PICK p : Planned(p, to) /\ SplitRecord(p, to, n) /\ n \in 1..MaxOps
    BY <1>9, SplitIs DEF Record
  <2> HIDE DEF n
  <2>2. o \in p.lent
    BY <1>s, <2>1 DEF SplitRecord
  <2>3. o.split = None
    BY <2>1, <2>2 DEF Planned
  <2>4. Loan(p, o, to, n) \in over'
    BY <2>1, <2>2 DEF SplitRecord
  <2>5. Loan(p, o, to, n).edit = o.edit
    BY DEF Loan
  <2> QED BY <1>q, <1>r, <2>3, <2>4, <2>5
<1>10. ASSUME NEW to \in {Dst, New}, UndoSplit(to) PROVE UndoSplit(to) /\ b = Newest(to)
  <2>1. UndoRecord(to) /\ OfPair(to) # {}
    BY <1>10, UndoIs DEF Record
  <2>2. \A p \in Undoable(to) : p \in over /\ p.split # None /\ p.split.batch = Newest(to)
    BY <2>1, UndoableIs DEF Record
  <2>3. o \in Undoable(to)
    BY <1>s, <2>1 DEF UndoRecord
  <2>4. CASE o.edit = b
    <3>1. ~Moves(o)
      BY <1>b, <2>2, <2>3, <2>4 DEF Record, SplitShape, Shape, Moves
    <3>2. Freed(o) \in over' /\ Freed(o).edit = o.edit
      BY <2>1, <2>3, <3>1 DEF UndoRecord, Freed
    <3> QED BY <1>q, <2>4, <3>2
  <2> QED BY <1>10, <1>r, <2>2, <2>3, <2>4
<1> QED BY <1>1, <1>2, <1>3, <1>4, <1>5, <1>6, <1>7, <1>8, <1>9, <1>10, Steps

-----------------------------------------------------------------------------
(* Flags *)

FlagFine(f) ==
  /\ f.stamp = 0 => f.on = f.home
  /\ f.stamp # 0 => /\ f.home = Src /\ f.on # Src /\ f.stamp <= ops
                    /\ \A o \in over : /\ o.edit # f.stamp
                                       /\ o.split # None /\ o.split.batch = f.stamp => o.split.to = f.on

FlagsInv == \A f \in flags : FlagFine(f)

(* No override of the step carries a stamp a flag has had. *)
LEMMA FlagStays ==
  ASSUME NEW f, FlagFine(f), ops' \in Nat, ops \in Nat, ops <= ops', f.stamp \in Nat,
         \A q \in over' : f.stamp # 0 =>
            /\ q.edit # f.stamp
            /\ q.split # None /\ q.split.batch = f.stamp => q.split.to = f.on
  PROVE  FlagFine(f)'
BY DEF FlagFine

LEMMA FlagFields ==
  ASSUME NEW f \in Flag
  PROVE  f.on \in Secs /\ f.home \in Secs /\ f.stamp \in Nat /\ f.stamp \in 0..MaxOps
BY Given DEF Flag

LEMMA FlagsKept ==
  ASSUME TypeOK, Record, FlagsInv, [Next]_vars
  PROVE  FlagsInv'
<1>t. /\ over \subseteq Override /\ flags \subseteq Flag /\ ops \in Nat
      /\ \A f \in flags : f.stamp \in Nat /\ f \in Flag /\ FlagFine(f)
  BY Typed, FlagFields DEF FlagsInv
<1>o. \A f \in flags : f.stamp # 0 => f.stamp <= ops
  BY DEF FlagsInv, FlagFine
<1>f. \A f \in flags, o \in over : f.stamp # 0 =>
            /\ o.edit # f.stamp
            /\ o.split # None /\ o.split.batch = f.stamp => o.split.to = f.on
  BY DEF FlagsInv, FlagFine
(* Less of the record, or more of none or of a new number. *)
<1>a. ASSUME flags' = flags, ops' \in Nat, ops <= ops',
             \A q \in over' : q \in over \/ (q.split = None /\ q.edit \in {0, ops + 1})
      PROVE  FlagsInv'
  <2>1. ASSUME NEW f \in flags PROVE FlagFine(f)'
    <3>1. f.stamp \in Nat /\ FlagFine(f) /\ (f.stamp # 0 => f.stamp <= ops)
      BY <1>t, <1>o
    <3>2. ASSUME NEW q \in over', f.stamp # 0
          PROVE  q.edit # f.stamp /\ (q.split # None /\ q.split.batch = f.stamp => q.split.to = f.on)
      <4>1. CASE q \in over
        BY <1>f, <3>2, <4>1
      <4>2. CASE q.split = None /\ q.edit \in {0, ops + 1}
        BY <1>t, <3>1, <3>2, <4>2
      <4> QED BY <1>a, <4>1, <4>2
    <3> QED BY <1>t, <1>a, <3>1, <3>2, FlagStays
  <2> QED BY <1>a, <2>1 DEF FlagsInv
<1>1. ASSUME NEW v \in Serving, NEW s \in Secs, NEW k \in Keys, Load(v, s, k) PROVE FlagsInv'
  <2>1. UNCHANGED <<over, flags, ops>>
    BY <1>1, LoadIs
  <2> QED BY <1>a, <1>t, <2>1
<1>2. ASSUME NEW s \in Secs, NEW a \in Subjects, Raise(s, a) PROVE FlagsInv'
  <2>1. /\ UNCHANGED <<over, ops>>
        /\ \A f \in flags' : f \in flags \/ (f.stamp = 0 /\ f.on = f.home)
    BY <1>2, RaiseIs
  <2> QED BY <2>1 DEF FlagsInv, FlagFine
<1>3. ASSUME NEW s \in Secs, NEW K, Removed(s, K) PROVE FlagsInv'
  <2>1. /\ UNCHANGED flags /\ ops' = ops + 1
        /\ \A o \in over' \ over : o.edit = 0 /\ o.split = None
    BY <1>3, RemovedIs
  <2> QED BY <1>a, <1>t, <2>1
<1>4. ASSUME NEW s \in Secs, NEW k \in Keys, NEW v \in Values, AddAction(s, k, v) PROVE FlagsInv'
  <2>1. /\ UNCHANGED flags /\ ops' = ops + 1
        /\ \A o \in over' \ over : o.edit = 0 /\ o.split = None
    BY <1>4, AddActionIs
  <2> QED BY <1>a, <1>t, <2>1
<1>5. ASSUME NEW s \in Secs, NEW k \in Keys, NEW day \in ExDates, Redate(s, k, day) PROVE FlagsInv'
  <2> DEFINE to == <<k[1], day>>
             r  == [held[s][k] EXCEPT !.by = Operator]
             new == {Plain(s, k, "delete", held[s][k]), Plain(s, to, "add", r)}
  <2> HIDE DEF to, r
  <2>0. RedateLeaves(s, k, to, r)
    BY <1>5, RedateIs DEF to, r
  <2>1. /\ UNCHANGED flags /\ ops' = ops + 1 /\ over' = over \cup new
    BY <2>0 DEF RedateLeaves, AddsOnly
  <2>2. \A o \in new : o.split = None /\ o.edit = 0
    BY DEF Plain
  <2> HIDE DEF new
  <2> QED BY <1>a, <1>t, <2>1, <2>2
<1>6. ASSUME NEW s \in Secs, NEW K, NEW to, NEW scale, Edited(s, K, to, scale) PROVE FlagsInv'
  <2> DEFINE n == ops + 1
             new == {EditDelete(s, k, n) : k \in K} \cup {EditAdd(s, k, to, scale, n) : k \in K}
  <2>0. EditLeaves(s, K, to, scale, n)
    BY <1>6, EditedStep
  <2>1. UNCHANGED flags /\ ops' = n /\ over' = over \cup new
    BY <2>0 DEF EditLeaves, AddsOnly
  <2>2. \A o \in new : o.split = None /\ o.edit = n
    BY DEF EditDelete, EditAdd
  <2> HIDE DEF new
  <2> QED BY <1>a, <1>t, <2>1, <2>2
<1>7. ASSUME NEW o \in over, Revoke(o) PROVE FlagsInv'
  <2>1. over' \subseteq over /\ UNCHANGED <<flags, ops>>
    BY <1>7, RevokeIs
  <2> QED BY <1>a, <1>t, <2>1
<1>8. ASSUME NEW e \in 1..MaxOps, RevokeEdit(e) PROVE FlagsInv'
  <2>1. over' \subseteq over /\ UNCHANGED <<flags, ops>>
    BY <1>8, RevokeEditIs DEF Record
  <2> QED BY <1>a, <1>t, <2>1
<1>9. ASSUME NEW to \in {Dst, New}, NEW lo, NEW hi, NEW restore, Split(lo, hi, to, restore)
      PROVE  FlagsInv'
  <2> DEFINE n == ops + 1
  <2>1. /\ ops' = n /\ n \in 1..MaxOps
        /\ \E p : Planned(p, to) /\ SplitRecord(p, to, n) /\ SplitRows(p, to)
        /\ \E F : MovedFlags(F, to, n)
    BY <1>9, SplitIs DEF Record
  <2>n. n \in Nat \ {0} /\ ops <= n /\ ~(n <= ops)
    BY <1>t
  <2> HIDE DEF n
  <2>p. PICK p : Planned(p, to) /\ SplitRecord(p, to, n)
    BY <2>1
  <2>F. PICK F : MovedFlags(F, to, n)
    BY <2>1
  <2>2. ASSUME NEW q \in over'
        PROVE  /\ q \in over \/ (q.split # None /\ q.split.batch = n /\ q.split.to = to)
               /\ q.edit = 0 \/ \E o \in over : o.edit = q.edit
    <3>1. \A o \in p.lent : o \in over
      BY <2>p DEF Planned
    <3>2. ASSUME NEW o \in p.lent, q = Loan(p, o, to, n)
          PROVE  q.edit = o.edit /\ q.split # None /\ q.split.batch = n /\ q.split.to = to
      BY <2>1, <3>2, SplitParts
    <3>3. ASSUME NEW k \in p.taken, q = TakenDelete(p, k, to, n)
          PROVE  q.edit = 0 /\ q.split # None /\ q.split.batch = n /\ q.split.to = to
      BY <2>1, <3>3, SplitParts
    <3>4. ASSUME NEW k \in p.taken, q = TakenAdd(p, k, to, n)
          PROVE  q.edit = 0 /\ q.split # None /\ q.split.batch = n /\ q.split.to = to
      BY <2>1, <3>4, SplitParts
    <3>5. \/ q \in over \ p.lent
          \/ \E o \in p.lent : q = Loan(p, o, to, n)
          \/ \E k \in p.taken : q = TakenDelete(p, k, to, n)
          \/ \E k \in p.taken : q = TakenAdd(p, k, to, n)
      BY <2>p, SplitOrigins
    <3> QED BY <3>1, <3>2, <3>3, <3>4, <3>5
  <2>3. \A q \in over' : q.edit # n
    <3>1. \A o \in over : o.edit <= ops
      BY BatchIs
    <3> QED BY <2>2, <2>n, <3>1
  <2>4. ASSUME NEW f \in flags PROVE FlagFine(f)'
    <3>1. f.stamp \in Nat /\ FlagFine(f) /\ (f.stamp # 0 => f.stamp <= ops)
      BY <1>t, <1>o
    <3>2. ASSUME NEW q \in over', f.stamp # 0
          PROVE  q.edit # f.stamp /\ (q.split # None /\ q.split.batch = f.stamp => q.split.to = f.on)
      <4>1. q.edit # f.stamp
        BY <1>f, <2>2, <3>2
      <4>2. n # f.stamp
        BY <2>n, <3>1, <3>2
      <4>3. q.split # None /\ q.split.batch = f.stamp => q.split.to = f.on
        BY <1>f, <2>2, <3>2, <4>2
      <4> QED BY <4>1, <4>3
    <3> QED BY <1>t, <2>1, <2>n, <3>1, <3>2, FlagStays
  <2>5. ASSUME NEW f \in F, NEW g, g = Along(f, to, n) PROVE FlagFine(g)'
    <3>1. f \in flags /\ f.on = Src
      BY <2>F, <2>5 DEF MovedFlags
    <3>2. f.home = Src /\ f \in Flag
      BY <1>t, <3>1 DEF FlagFine
    <3>3. to \in Secs /\ to # Src /\ n \in 0..MaxOps
      BY <2>1, Given
    <3>4. g.on = to /\ g.stamp = n /\ g.home = f.home
      BY <2>5, <3>2, <3>3, FlagMoved
    <3>5. \A q \in over' : q.split # None /\ q.split.batch = n => q.split.to = to
      <4>1. \A o \in over : o.split # None => o.split.batch # n
        BY BatchIs, <2>n
      <4> QED BY <2>2, <4>1
    <3>6. ops' = n /\ n <= n
      BY <2>1, <2>n
    <3> QED BY <2>3, <2>n, <3>2, <3>3, <3>4, <3>5, <3>6 DEF FlagFine
  <2>6. \A g \in flags' : g \in flags \/ \E f \in F : g = Along(f, to, n)
    BY <2>F DEF MovedFlags
  <2>7. \A g \in flags' : FlagFine(g)'
    BY <2>4, <2>5, <2>6
  <2> QED BY <2>7 DEF FlagsInv
<1>10. ASSUME NEW to \in {Dst, New}, UndoSplit(to) PROVE FlagsInv'
  <2>1. UndoRecord(to) /\ UndoFlags(to) /\ OfPair(to) # {} /\ UNCHANGED ops
    BY <1>10, UndoIs DEF Record
  <2>2. Newest(to) # 0 /\ Undoable(to) \subseteq over
    BY <2>1, UndoableIs DEF Record
  <2>3. \A q \in over' : \E o \in over : q.edit = o.edit /\ (q.split # None => q = o)
    BY <2>1, <2>2 DEF UndoRecord, Freed
  <2>4. ASSUME NEW f \in flags PROVE FlagFine(f)'
    <3>1. f.stamp \in Nat /\ FlagFine(f)
      BY <1>t
    <3>2. ASSUME NEW q \in over', f.stamp # 0
          PROVE  q.edit # f.stamp /\ (q.split # None /\ q.split.batch = f.stamp => q.split.to = f.on)
      BY <1>f, <2>3, <3>2
    <3> QED BY <1>t, <2>1, <3>1, <3>2, FlagStays
  <2>5. ASSUME NEW g \in flags' PROVE FlagFine(g)'
    <3>1. CASE g \in flags
      BY <2>4, <3>1
    <3>2. CASE g.on = Src /\ g.stamp = 0 /\ g.home = Src
      BY <3>2 DEF FlagFine
    <3>3. CASE g.on = Src /\ g.stamp = 0 /\ \E f \in flags : f.on = to /\ f.stamp = Newest(to) /\ g.home = f.home
      <4>1. g.home = Src
        BY <1>t, <2>2, <3>3 DEF FlagFine
      <4> QED BY <3>3, <4>1 DEF FlagFine
    <3> QED BY <2>1, <3>1, <3>2, <3>3 DEF UndoFlags
  <2> QED BY <2>5 DEF FlagsInv
<1>11. ASSUME UNCHANGED vars PROVE FlagsInv'
  BY <1>11 DEF vars, FlagsInv, FlagFine
<1> QED BY <1>1, <1>2, <1>3, <1>4, <1>5, <1>6, <1>7, <1>8, <1>9, <1>10, <1>11, Steps

HomeAgain ==
  /\ \A f \in flags' : f.stamp = 0 => f.on = f.home
  /\ \A b \in 1..MaxOps : Undone(b) => \A f \in flags' : f.stamp # b

LEMMA FlagsHome ==
  ASSUME TypeOK, Record, Remembered, FlagsInv, Next
  PROVE  HomeAgain
<1>1. \A f \in flags' : f.stamp = 0 => f.on = f.home
  <2>1. FlagsInv'
    BY FlagsKept
  <2> QED BY <2>1 DEF FlagsInv, FlagFine
<1>2. ASSUME NEW b \in 1..MaxOps, Undone(b), NEW g \in flags', g.stamp = b PROVE FALSE
  <2>1. CASE RevokeEdit(b) /\ EditOf(b) # {}
    <3>1. flags' = flags
      BY <2>1, RevokeEditIs DEF Record
    <3>2. \A o \in EditOf(b) : o \in over /\ o.edit = b
      BY DEF EditOf
    <3> QED BY <1>2, <2>1, <3>1, <3>2 DEF FlagsInv, FlagFine
  <2>2. ASSUME NEW to \in {Dst, New}, UndoSplit(to), b = Newest(to) PROVE FALSE
    <3>1. UndoFlags(to) /\ OfPair(to) # {}
      BY <2>2, UndoIs DEF Record
    <3>2. PICK o \in over : o.split # None /\ o.split.batch = b /\ o.split.to = to
      BY <2>2, <3>1, UndoableIs DEF Record
    <3>3. g \in flags /\ g.on # to
      BY <1>2, <2>2, <3>1 DEF UndoFlags
    <3> QED BY <1>2, <3>2, <3>3 DEF FlagsInv, FlagFine
  <2> QED BY <1>2, <2>1, <2>2, Lifted
<1> QED BY <1>1, <1>2 DEF HomeAgain

(* A flag is with the history it is about (FlagsComeHome).  The invariant (FlagsInv) says  *)
(* that a flag without a stamp is at home, and that the overrides of a flag's stamp go   *)
(* where the flag is.                                                                    *)
THEOREM FlagsFollowTheirHistory == Spec => FlagsComeHome
<1> DEFINE Inv == TypeOK /\ Record /\ Remembered /\ FlagsInv
<1>1. Init => Inv
  <2>1. Init => Remembered
    BY InitIs DEF Remembered
  <2>2. Init => FlagsInv
    BY InitIs DEF FlagsInv
  <2> QED BY <2>1, <2>2, RecordAtFirst
<1>2. Inv /\ [Next]_vars => Inv'
  BY RecordKept, RememberedKept, FlagsKept
<1>3. Inv /\ [Next]_vars => [HomeAgain]_vars
  BY FlagsHome
<1>4. Spec => [][HomeAgain]_vars
  <2> HIDE DEF Inv
  <2> QED BY <1>1, <1>2, <1>3, PTL DEF Spec
<1> QED BY <1>4 DEF FlagsComeHome, HomeAgain

-----------------------------------------------------------------------------
(* What an edit found, and what stands since *)

EditAt(b, s, k, op) == \E o \in EditOf(b) : o.sec = s /\ o.key = k /\ o.op = op

EditFound(b) ==
  \A o \in EditOf(b) :
    /\ o.op = "delete" => o.row = before[b][o.sec][o.key]
    /\ o.op = "add" /\ ~EditAt(b, o.sec, o.key, "delete") => before[b][o.sec][o.key] = None

EditStands(b) ==
  \A s \in Secs, k \in Keys : <<s, k>> \notin since[b] =>
    /\ EditAt(b, s, k, "add") => held[s][k] # None /\ held[s][k].by = Operator
    /\ ~EditAt(b, s, k, "add") /\ EditAt(b, s, k, "delete") => held[s][k] = None
    /\ ~EditAt(b, s, k, "add") /\ ~EditAt(b, s, k, "delete") => held[s][k] = before[b][s][k]

EditsInv ==
  \A b \in 1..MaxOps : before[b] # None /\ EditOf(b) # {} => EditFound(b) /\ EditStands(b)

(* The override is the same one, in a split or out of it. *)
Alike(q, o) == Same(q, o) /\ q.row = o.row /\ q.edit = o.edit

AlikeEdits(b) ==
  /\ \A q \in over' : q.edit = b => \E o \in over : Alike(q, o)
  /\ \A o \in over : o.edit = b => \E q \in over' : Alike(q, o)

Aside(b) ==
  \A s \in Secs, k \in Keys : <<s, k>> \notin since'[b] => <<s, k>> \notin since[b] /\ held'[s][k] = held[s][k]

LEMMA EditFrame ==
  ASSUME NEW b \in 1..MaxOps, EditFound(b), EditStands(b), AlikeEdits(b), Aside(b), before'[b] = before[b]
  PROVE  EditFound(b)' /\ EditStands(b)'
<1>1. \A s, k, op : EditAt(b, s, k, op)' <=> EditAt(b, s, k, op)
  BY DEF EditAt, EditOf, AlikeEdits, Alike, Same
<1>2. EditFound(b)'
  <2>1. ASSUME NEW q \in EditOf(b)'
        PROVE  /\ q.op = "delete" => q.row = before'[b][q.sec][q.key]
               /\ q.op = "add" /\ ~EditAt(b, q.sec, q.key, "delete")' => before'[b][q.sec][q.key] = None
    <3>1. q \in over' /\ q.edit = b /\ b # 0
      BY <2>1 DEF EditOf
    <3>2. PICK o \in over : Alike(q, o)
      BY <3>1 DEF AlikeEdits
    <3>3. o \in EditOf(b)
      BY <3>1, <3>2 DEF EditOf, Alike
    <3>4. q.sec = o.sec /\ q.key = o.key /\ q.op = o.op /\ q.row = o.row
      BY <3>2 DEF Alike, Same
    <3> QED BY <1>1, <3>3, <3>4 DEF EditFound
  <2> QED BY <2>1 DEF EditFound
<1>3. EditStands(b)'
  <2>1. ASSUME NEW s \in Secs, NEW k \in Keys, <<s, k>> \notin since'[b]
        PROVE  /\ EditAt(b, s, k, "add")' => held'[s][k] # None /\ held'[s][k].by = Operator
               /\ ~EditAt(b, s, k, "add")' /\ EditAt(b, s, k, "delete")' => held'[s][k] = None
               /\ ~EditAt(b, s, k, "add")' /\ ~EditAt(b, s, k, "delete")' => held'[s][k] = before'[b][s][k]
    BY <1>1, <2>1 DEF EditStands, Aside
  <2> QED BY <2>1 DEF EditStands
<1> QED BY <1>2, <1>3

LEMMA EditsStay ==
  ASSUME TypeOK, Record, Next, NEW b \in 1..MaxOps, b <= ops, EditOf(b)' # {}
  PROVE  AlikeEdits(b)
<1>t. ops \in Nat /\ b # ops + 1 /\ b # 0
  BY Typed
<1>a. ASSUME over' = over PROVE AlikeEdits(b)
  BY <1>a DEF AlikeEdits, Alike, Same
<1>m. ASSUME over \subseteq over', \A q \in over' \ over : q.edit \in {0, ops + 1} PROVE AlikeEdits(b)
  BY <1>m, <1>t DEF AlikeEdits, Alike, Same
<1>l. ASSUME over' \subseteq over, \A q \in over \ over' : q.edit # b PROVE AlikeEdits(b)
  BY <1>l DEF AlikeEdits, Alike, Same
<1>1. ASSUME NEW v \in Serving, NEW s \in Secs, NEW k \in Keys, Load(v, s, k) PROVE AlikeEdits(b)
  BY <1>1, <1>a, LoadIs
<1>2. ASSUME NEW s \in Secs, NEW a \in Subjects, Raise(s, a) PROVE AlikeEdits(b)
  BY <1>2, <1>a, RaiseIs
<1>3. ASSUME NEW s \in Secs, NEW K, Removed(s, K) PROVE AlikeEdits(b)
  <2>1. over \subseteq over' /\ \A q \in over' \ over : q.edit = 0
    BY <1>3, RemovedIs
  <2> QED BY <1>m, <2>1
<1>4. ASSUME NEW s \in Secs, NEW k \in Keys, NEW v \in Values, AddAction(s, k, v) PROVE AlikeEdits(b)
  <2>1. over \subseteq over' /\ \A q \in over' \ over : q.edit = 0
    BY <1>4, AddActionIs
  <2> QED BY <1>m, <2>1
<1>5. ASSUME NEW s \in Secs, NEW k \in Keys, NEW day \in ExDates, Redate(s, k, day) PROVE AlikeEdits(b)
  <2>1. over \subseteq over' /\ \A q \in over' \ over : q.edit = 0
    BY <1>5 DEF Redate, Plain
  <2> QED BY <1>m, <2>1
<1>6. ASSUME NEW s \in Secs, NEW K, NEW to, NEW scale, Edited(s, K, to, scale) PROVE AlikeEdits(b)
  <2> DEFINE n == ops + 1
             new == {EditDelete(s, k, n) : k \in K} \cup {EditAdd(s, k, to, scale, n) : k \in K}
  <2>0. EditLeaves(s, K, to, scale, n)
    BY <1>6, EditedStep
  <2>1. over' = over \cup new
    BY <2>0 DEF EditLeaves, AddsOnly
  <2>2. \A o \in new : o.edit = n
    BY DEF EditDelete, EditAdd
  <2> HIDE DEF new
  <2> QED BY <1>m, <2>1, <2>2
<1>7. ASSUME NEW o \in over, Revoke(o) PROVE AlikeEdits(b)
  <2>1. over' = over \ {o} /\ o.edit = 0
    BY <1>7, RevokeIs
  <2> QED BY <1>l, <1>t, <2>1
<1>8. ASSUME NEW e \in 1..MaxOps, RevokeEdit(e) PROVE AlikeEdits(b)
  <2>1. over' = over \ EditOf(e)
    BY <1>8, RevokeEditIs DEF Record
  <2>2. e # b
    BY <2>1 DEF EditOf
  <2> QED BY <1>l, <2>1, <2>2 DEF EditOf
<1>9. ASSUME NEW to \in {Dst, New}, NEW lo, NEW hi, NEW restore, Split(lo, hi, to, restore) PROVE AlikeEdits(b)
  <2> DEFINE n == ops + 1
  <2>1. PICK p : Planned(p, to) /\ SplitRecord(p, to, n) /\ n \in 1..MaxOps
    BY <1>9, SplitIs DEF Record
  <2> HIDE DEF n
  <2>2. \A o \in p.lent : o \in over
    BY <2>1 DEF Planned
  <2>3. ASSUME NEW o \in p.lent PROVE Loan(p, o, to, n) \in over' /\ Alike(Loan(p, o, to, n), o)
    BY <2>1, <2>3 DEF SplitRecord, Loan, Alike, Same
  <2>4. \A k \in p.taken : TakenDelete(p, k, to, n).edit = 0 /\ TakenAdd(p, k, to, n).edit = 0
    BY DEF TakenDelete, TakenAdd
  <2>5. \A o \in over \ p.lent : o \in over' /\ Alike(o, o)
    BY <2>1 DEF SplitRecord, Alike, Same
  <2>6. ASSUME NEW q \in over', q.edit = b PROVE \E o \in over : Alike(q, o)
    <3>1. \/ q \in over \ p.lent
          \/ \E o \in p.lent : q = Loan(p, o, to, n)
          \/ \E k \in p.taken : q = TakenDelete(p, k, to, n)
          \/ \E k \in p.taken : q = TakenAdd(p, k, to, n)
      BY <2>1, SplitOrigins
    <3> QED BY <1>t, <2>2, <2>3, <2>4, <2>5, <2>6, <3>1
  <2>7. ASSUME NEW o \in over PROVE \E q \in over' : Alike(q, o)
    BY <2>3, <2>5
  <2> QED BY <2>6, <2>7 DEF AlikeEdits
<1>10. ASSUME NEW to \in {Dst, New}, UndoSplit(to) PROVE AlikeEdits(b)
  <2>1. UndoRecord(to) /\ OfPair(to) # {}
    BY <1>10, UndoIs DEF Record
  <2>2. \A p \in Undoable(to) : p \in over /\ p.split # None
    BY <2>1, UndoableIs DEF Record
  <2>3. ASSUME NEW o \in Undoable(to), ~Moves(o) PROVE Freed(o) \in over' /\ Alike(Freed(o), o)
    BY <2>1, <2>3 DEF UndoRecord, Freed, Alike, Same
  <2>4. \A o \in over \ Undoable(to) : o \in over' /\ Alike(o, o)
    BY <2>1 DEF UndoRecord, Alike, Same
  <2>5. \A o \in Undoable(to) : Moves(o) => o.edit = 0
    BY <2>2 DEF Record, SplitShape, Shape, Moves
  <2>6. \A q \in over' : \E o \in over : Alike(q, o)
    <3>1. ASSUME NEW q \in over' PROVE q \in over \ Undoable(to) \/ \E o \in Undoable(to) : ~Moves(o) /\ q = Freed(o)
      BY <2>1 DEF UndoRecord
    <3> QED BY <2>2, <2>3, <2>4, <3>1
  <2>7. \A o \in over : o.edit = b => \E q \in over' : Alike(q, o)
    BY <1>t, <2>3, <2>4, <2>5
  <2> QED BY <2>6, <2>7 DEF AlikeEdits
<1> QED BY <1>1, <1>2, <1>3, <1>4, <1>5, <1>6, <1>7, <1>8, <1>9, <1>10, Steps

(* What a step that is not b's own leaves to b. *)
LEMMA RememberedFrame ==
  ASSUME TypeOK, Record, Remembered, NEW n, Rest, Remember(n), NEW b \in 1..MaxOps, b # n, before'[b] # None
  PROVE  before[b] # None /\ before'[b] = before[b] /\ b <= ops /\ Aside(b) /\ ~Entangled(b)
<1>1. before'[b] = before[b] /\ InForce(b)'
  BY RememberIs
<1>2. Aside(b)
  BY <1>1, RememberIs DEF Aside
<1>3. InForce(b) /\ ~Entangled(b)
  BY <1>1 DEF Remembered
<1>4. b <= ops
  BY <1>3 DEF InForce, Batch, EditOf, Record, Numbered
<1> QED BY <1>1, <1>2, <1>3, <1>4

LEMMA EditMade ==
  ASSUME TypeOK, Record, NEW s \in Secs, NEW K, NEW to, NEW scale, Edited(s, K, to, scale),
         NEW n, n = ops + 1, before'[n] # None
  PROVE  EditFound(n)' /\ EditStands(n)'
<1> DEFINE new == {EditDelete(s, k, n) : k \in K} \cup {EditAdd(s, k, to, scale, n) : k \in K}
<1>0. /\ EditLeaves(s, K, to, scale, n) /\ K \subseteq Keys /\ \A k \in K : to[k] \in Keys
      /\ \A k \in K : to[k] \notin K => held[s][to[k]] = None
  BY EditedStep
<1>n. n \in 1..MaxOps /\ n # 0 /\ \A o \in over : o.edit # n
  <2>1. \A o \in over : o.edit \in Nat /\ o.edit <= ops
    BY BatchIs
  <2>2. n \in 1..MaxOps
    BY <1>0 DEF EditLeaves
  <2> QED BY <2>1, <2>2, Typed
<1>1. /\ over' = over \cup new /\ Rest /\ Remember(n)
      /\ \A k \in K : held'[s][to[k]] # None /\ held'[s][to[k]].by = Operator
      /\ \A j \in Keys : (\A k \in K : to[k] # j) => held'[s][j] = IF j \in K THEN None ELSE held[s][j]
      /\ \A t \in Secs \ {s} : \A j \in Keys : held'[t][j] = held[t][j]
  BY <1>0 DEF EditLeaves, AddsOnly
<1>2. before'[n] = held
  BY <1>1, <1>n, RememberIs
<1>3. \A o : o \in EditOf(n)' <=> o \in new
  <2>1. \A o \in new : o.edit = n
    BY DEF EditDelete, EditAdd
  <2> HIDE DEF new
  <2> QED BY <1>1, <1>n, <2>1 DEF EditOf
<1>4. \A o \in new : \/ \E k \in K : o = EditDelete(s, k, n)
                     \/ \E k \in K : o = EditAdd(s, k, to, scale, n)
  OBVIOUS
<1>5. \A k \in K : EditDelete(s, k, n) \in new /\ EditAdd(s, k, to, scale, n) \in new
  OBVIOUS
<1> HIDE DEF new
<1>6. \A k \in K : LET o == EditDelete(s, k, n) IN o.sec = s /\ o.key = k /\ o.op = "delete" /\ o.row = held[s][k]
  BY DEF EditDelete
<1>7. \A k \in K : LET o == EditAdd(s, k, to, scale, n) IN o.sec = s /\ o.key = to[k] /\ o.op = "add"
  BY DEF EditAdd
<1>8. \A t, j : EditAt(n, t, j, "delete")' <=> t = s /\ j \in K
  BY <1>3, <1>4, <1>5, <1>6, <1>7 DEF EditAt
<1>9. \A t, j : EditAt(n, t, j, "add")' <=> t = s /\ \E k \in K : to[k] = j
  BY <1>3, <1>4, <1>5, <1>6, <1>7 DEF EditAt
<1>10. EditFound(n)'
  <2>1. ASSUME NEW o \in EditOf(n)'
        PROVE  /\ o.op = "delete" => o.row = before'[n][o.sec][o.key]
               /\ o.op = "add" /\ ~EditAt(n, o.sec, o.key, "delete")' => before'[n][o.sec][o.key] = None
    <3>1. ASSUME NEW k \in K, o = EditDelete(s, k, n) PROVE o.op = "delete" /\ o.row = before'[n][o.sec][o.key]
      BY <1>2, <1>6, <3>1
    <3>2. ASSUME NEW k \in K, o = EditAdd(s, k, to, scale, n), ~EditAt(n, o.sec, o.key, "delete")'
          PROVE  o.op = "add" /\ before'[n][o.sec][o.key] = None
      BY <1>0, <1>2, <1>7, <1>8, <3>2
    <3>3. ASSUME NEW k \in K, o = EditAdd(s, k, to, scale, n) PROVE o.op = "add"
      BY <1>7, <3>3
    <3> QED BY <1>3, <1>4, <2>1, <3>1, <3>2, <3>3
  <2> QED BY <2>1 DEF EditFound
<1>11. EditStands(n)'
  <2>1. ASSUME NEW t \in Secs, NEW j \in Keys
        PROVE  /\ EditAt(n, t, j, "add")' => held'[t][j] # None /\ held'[t][j].by = Operator
               /\ ~EditAt(n, t, j, "add")' /\ EditAt(n, t, j, "delete")' => held'[t][j] = None
               /\ ~EditAt(n, t, j, "add")' /\ ~EditAt(n, t, j, "delete")' => held'[t][j] = before'[n][t][j]
    <3>1. CASE t # s
      BY <1>1, <1>2, <1>8, <1>9, <3>1
    <3>2. CASE t = s
      BY <1>1, <1>2, <1>8, <1>9, <3>2
    <3> QED BY <3>1, <3>2
  <2> QED BY <2>1 DEF EditStands
<1> QED BY <1>10, <1>11

LEMMA EditsKept ==
  ASSUME TypeOK, Record, Remembered, EditsInv, [Next]_vars
  PROVE  EditsInv'
<1>f. ASSUME NEW n, Rest, Remember(n), NEW b \in 1..MaxOps, b # n, before'[b] # None, EditOf(b)' # {}, Next
      PROVE  EditFound(b)' /\ EditStands(b)'
  <2>1. before[b] # None /\ before'[b] = before[b] /\ b <= ops /\ Aside(b)
    BY <1>f, RememberedFrame
  <2>2. AlikeEdits(b)
    BY <1>f, <2>1, EditsStay
  <2>3. EditOf(b) # {}
    <3>1. PICK q \in over' : q.edit = b /\ b # 0
      BY <1>f DEF EditOf
    <3>2. PICK o \in over : Alike(q, o)
      BY <2>2, <3>1 DEF AlikeEdits
    <3>3. o \in EditOf(b)
      BY <3>1, <3>2 DEF EditOf, Alike
    <3> QED BY <3>3
  <2>4. EditFound(b) /\ EditStands(b)
    BY <2>1, <2>3 DEF EditsInv
  <2> QED BY <2>1, <2>2, <2>4, EditFrame
<1>1. ASSUME Next, Rest, Remember(0), NEW b \in 1..MaxOps, before'[b] # None, EditOf(b)' # {}
      PROVE  EditFound(b)' /\ EditStands(b)'
  <2>1. b # 0
    BY Given
  <2> QED BY <1>1, <1>f, <2>1
<1>2. ASSUME UNCHANGED <<held, over, before, since>> PROVE EditsInv'
  BY <1>2 DEF EditsInv, EditFound, EditStands, EditAt, EditOf
<1>3. ASSUME Next, NEW s \in Secs, NEW K, NEW to, NEW scale, Edited(s, K, to, scale),
             NEW b \in 1..MaxOps, before'[b] # None, EditOf(b)' # {}
      PROVE  EditFound(b)' /\ EditStands(b)'
  <2>1. EditLeaves(s, K, to, scale, ops + 1)
    BY <1>3, EditedStep
  <2>2. Rest /\ Remember(ops + 1)
    BY <2>1 DEF EditLeaves
  <2>3. CASE b = ops + 1
    BY <1>3, <2>3, EditMade
  <2>4. CASE b # ops + 1
    BY <1>3, <1>f, <2>2, <2>4
  <2> QED BY <2>3, <2>4
<1>4. ASSUME Next, NEW to \in {Dst, New}, NEW lo, NEW hi, NEW restore, Split(lo, hi, to, restore),
             NEW b \in 1..MaxOps, before'[b] # None, EditOf(b)' # {}
      PROVE  EditFound(b)' /\ EditStands(b)'
  <2> DEFINE n == ops + 1
  <2>1. PICK p : Planned(p, to) /\ SplitRecord(p, to, n) /\ n \in 1..MaxOps /\ Rest /\ Remember(n)
    BY <1>4, SplitIs DEF Record
  <2>2. n # 0 /\ \A o \in over : o.edit # n
    BY BatchIs, Typed
  <2> HIDE DEF n
  <2>3. b # n
    <3>1. PICK q \in over' : q.edit = b /\ b # 0
      BY <1>4 DEF EditOf
    <3>2. \A o \in p.lent : o \in over /\ Loan(p, o, to, n).edit = o.edit
      BY <2>1 DEF Planned, Loan
    <3>3. \A k \in p.taken : TakenDelete(p, k, to, n).edit = 0 /\ TakenAdd(p, k, to, n).edit = 0
      BY DEF TakenDelete, TakenAdd
    <3>4. \/ q \in over \ p.lent
          \/ \E o \in p.lent : q = Loan(p, o, to, n)
          \/ \E k \in p.taken : q = TakenDelete(p, k, to, n)
          \/ \E k \in p.taken : q = TakenAdd(p, k, to, n)
      BY <2>1, SplitOrigins
    <3> QED BY <2>2, <3>1, <3>2, <3>3, <3>4
  <2> QED BY <1>4, <1>f, <2>1, <2>3
<1>5. ASSUME Next PROVE EditsInv'
  <2>1. CASE UNCHANGED <<held, over, before, since>>
    BY <1>2, <2>1
  <2>2. CASE ~UNCHANGED <<held, over, before, since>>
    <3>1. ASSUME NEW b \in 1..MaxOps, before'[b] # None, EditOf(b)' # {} PROVE EditFound(b)' /\ EditStands(b)'
      BY <1>1, <1>3, <1>4, <1>5, <2>2, <3>1, Remembers
    <3> QED BY <3>1 DEF EditsInv
  <2> QED BY <2>1, <2>2
<1> QED BY <1>2, <1>5 DEF vars

(* Taking an edit back: what it found is there again, but for what changed since. *)
LEMMA EditRestores ==
  ASSUME TypeOK, Record, EditsInv, NEW b \in 1..MaxOps, RevokeEdit(b), EditOf(b) # {}, before[b] # None,
         NEW t \in Secs, NEW k \in Keys, <<t, k>> \notin since[b]
  PROVE  held'[t][k] = before[b][t][k]
<1>1. EditFound(b) /\ EditStands(b)
  BY DEF EditsInv
<1>2. PICK s \in Secs :
              /\ \A o \in EditOf(b) : o.sec = s
              /\ \A r \in Secs \ {s} : \A j \in Keys : held'[r][j] = held[r][j]
              /\ LET Goes(j) == /\ held[s][j] # None /\ held[s][j].by = Operator
                                /\ \E o \in EditOf(b) : o.op = "add" /\ o.key = j
                     Back(o) == /\ o \in EditOf(b) /\ o.op = "delete"
                                /\ o.key \in Bars \/ held[s][o.key] = None \/ Goes(o.key)
                 IN /\ \A o \in EditOf(b) : Back(o) => held'[s][o.key] = o.row
                    /\ \A j \in Keys : (\A o \in EditOf(b) : Back(o) => o.key # j)
                          => held'[s][j] = IF Goes(j) THEN None ELSE held[s][j]
  BY RevokeEditIs DEF Record
<1> DEFINE Goes(j) == /\ held[s][j] # None /\ held[s][j].by = Operator
                      /\ \E o \in EditOf(b) : o.op = "add" /\ o.key = j
           Back(o) == /\ o \in EditOf(b) /\ o.op = "delete"
                      /\ o.key \in Bars \/ held[s][o.key] = None \/ Goes(o.key)
<1>3. \A o \in EditOf(b) : Back(o) => held'[s][o.key] = o.row
  BY <1>2
<1>4. \A j \in Keys : (\A o \in EditOf(b) : Back(o) => o.key # j)
                          => held'[s][j] = IF Goes(j) THEN None ELSE held[s][j]
  BY <1>2
<1>5. /\ EditAt(b, t, k, "add") => held[t][k] # None /\ held[t][k].by = Operator
      /\ ~EditAt(b, t, k, "add") /\ EditAt(b, t, k, "delete") => held[t][k] = None
      /\ ~EditAt(b, t, k, "add") /\ ~EditAt(b, t, k, "delete") => held[t][k] = before[b][t][k]
  BY <1>1 DEF EditStands
<1>6. CASE t # s
  BY <1>2, <1>5, <1>6 DEF EditAt
<1>7. CASE t = s /\ EditAt(b, s, k, "delete")
  <2>1. PICK o \in EditOf(b) : o.op = "delete" /\ o.key = k /\ o.sec = s
    BY <1>7 DEF EditAt
  <2>2. EditAt(b, s, k, "add") => Goes(k)
    BY <1>5, <1>7 DEF EditAt
  <2>3. Back(o)
    BY <1>5, <1>7, <2>1, <2>2
  <2>4. o.row = before[b][s][k]
    BY <1>1, <2>1 DEF EditFound
  <2> QED BY <1>3, <1>7, <2>1, <2>3, <2>4
<1>8. CASE t = s /\ ~EditAt(b, s, k, "delete")
  <2>1. \A o \in EditOf(b) : Back(o) => o.key # k
    BY <1>2, <1>8 DEF EditAt
  <2>2. held'[s][k] = IF Goes(k) THEN None ELSE held[s][k]
    BY <1>4, <2>1
  <2>3. CASE EditAt(b, s, k, "add")
    <3>1. Goes(k)
      BY <1>5, <1>8, <2>3 DEF EditAt
    <3>2. before[b][s][k] = None
      BY <1>1, <1>8, <2>3 DEF EditFound, EditAt
    <3> QED BY <1>8, <2>2, <3>1, <3>2
  <2>4. CASE ~EditAt(b, s, k, "add")
    <3>1. ~Goes(k)
      BY <1>2, <2>4 DEF EditAt
    <3> QED BY <1>5, <1>8, <2>2, <2>4, <3>1
  <2> QED BY <2>3, <2>4
<1> QED BY <1>6, <1>7, <1>8

-----------------------------------------------------------------------------
(* What a split found, and what stands since *)

(* What it took from the source, and where it put a row. *)
TookFrom(o, s) == s = Src /\ o.op = "delete" /\ Moves(o)
PutOn(o, s) ==
  s = o.split.to /\ (o.op = "add" \/ (o.key \in Bars /\ o.split.kind \in {"moved", "restored"}))

SplitFound(b) ==
  \A o \in Batch(b) : \A s \in Secs :
    /\ TookFrom(o, s) => o.row = before[b][s][o.key]
    /\ PutOn(o, s) => before[b][s][o.key] = None

SplitStands(b) ==
  \A s \in Secs, k \in Keys : <<s, k>> \notin since[b] =>
    /\ \A o \in Batch(b) : o.key = k /\ TookFrom(o, s) => held[s][k] = None
    /\ \A o \in Batch(b) : o.key = k /\ o.op = "add" /\ s = o.split.to =>
         held[s][k] # None /\ held[s][k].by = Operator
    /\ (\A o \in Batch(b) : o.key = k => ~TookFrom(o, s) /\ ~PutOn(o, s)) => held[s][k] = before[b][s][k]

SplitsInv ==
  \A b \in 1..MaxOps : before[b] # None /\ Batch(b) # {} => SplitFound(b) /\ SplitStands(b)

LEMMA SplitFrame ==
  ASSUME NEW b \in 1..MaxOps, SplitFound(b), SplitStands(b), Batch(b)' = Batch(b), Aside(b),
         before'[b] = before[b]
  PROVE  SplitFound(b)' /\ SplitStands(b)'
<1>1. SplitFound(b)'
  <2>1. ASSUME NEW o \in Batch(b)', NEW s \in Secs
        PROVE  /\ TookFrom(o, s) => o.row = before'[b][s][o.key]
               /\ PutOn(o, s) => before'[b][s][o.key] = None
    BY <2>1 DEF SplitFound
  <2> QED BY <2>1 DEF SplitFound, TookFrom, PutOn, Moves
<1>2. SplitStands(b)'
  <2>1. ASSUME NEW s \in Secs, NEW k \in Keys, <<s, k>> \notin since'[b]
        PROVE  /\ \A o \in Batch(b)' : o.key = k /\ TookFrom(o, s) => held'[s][k] = None
               /\ \A o \in Batch(b)' : o.key = k /\ o.op = "add" /\ s = o.split.to =>
                    held'[s][k] # None /\ held'[s][k].by = Operator
               /\ (\A o \in Batch(b)' : o.key = k => ~TookFrom(o, s) /\ ~PutOn(o, s)) => held'[s][k] = before'[b][s][k]
    BY <2>1 DEF SplitStands, Aside
  <2> QED BY <2>1 DEF SplitStands, TookFrom, PutOn, Moves
<1> QED BY <1>1, <1>2

LEMMA BatchStays ==
  ASSUME TypeOK, Record, Next, NEW b \in 1..MaxOps, b <= ops, Batch(b)' # {}, ~Entangled(b)
  PROVE  Batch(b)' = Batch(b)
<1>t. ops \in Nat /\ b # ops + 1 /\ b # 0 /\ \A o \in over : o.edit \in Nat
  BY Typed, BatchIs
<1>u. \A o \in Batch(b) : o.edit = 0 /\ o.split # None
  BY DEF Batch, Entangled
<1>a. ASSUME over' = over PROVE Batch(b)' = Batch(b)
  BY <1>a DEF Batch
<1>m. ASSUME over \subseteq over', \A q \in over' \ over : q.split = None PROVE Batch(b)' = Batch(b)
  BY <1>m DEF Batch
<1>l. ASSUME over' \subseteq over, \A q \in over \ over' : q.split = None \/ q.edit # 0 PROVE Batch(b)' = Batch(b)
  BY <1>l, <1>u DEF Batch
<1>1. ASSUME NEW v \in Serving, NEW s \in Secs, NEW k \in Keys, Load(v, s, k) PROVE Batch(b)' = Batch(b)
  BY <1>1, <1>a, LoadIs
<1>2. ASSUME NEW s \in Secs, NEW a \in Subjects, Raise(s, a) PROVE Batch(b)' = Batch(b)
  BY <1>2, <1>a, RaiseIs
<1>3. ASSUME NEW s \in Secs, NEW K, Removed(s, K) PROVE Batch(b)' = Batch(b)
  <2>1. over \subseteq over' /\ \A q \in over' \ over : q.split = None
    BY <1>3, RemovedIs
  <2> QED BY <1>m, <2>1
<1>4. ASSUME NEW s \in Secs, NEW k \in Keys, NEW v \in Values, AddAction(s, k, v) PROVE Batch(b)' = Batch(b)
  <2>1. over \subseteq over' /\ \A q \in over' \ over : q.split = None
    BY <1>4, AddActionIs
  <2> QED BY <1>m, <2>1
<1>5. ASSUME NEW s \in Secs, NEW k \in Keys, NEW day \in ExDates, Redate(s, k, day) PROVE Batch(b)' = Batch(b)
  <2>1. over \subseteq over' /\ \A q \in over' \ over : q.split = None
    BY <1>5 DEF Redate, Plain
  <2> QED BY <1>m, <2>1
<1>6. ASSUME NEW s \in Secs, NEW K, NEW to, NEW scale, Edited(s, K, to, scale) PROVE Batch(b)' = Batch(b)
  <2> DEFINE n == ops + 1
             new == {EditDelete(s, k, n) : k \in K} \cup {EditAdd(s, k, to, scale, n) : k \in K}
  <2>0. EditLeaves(s, K, to, scale, n)
    BY <1>6, EditedStep
  <2>1. over' = over \cup new
    BY <2>0 DEF EditLeaves, AddsOnly
  <2>2. \A o \in new : o.split = None
    BY DEF EditDelete, EditAdd
  <2> HIDE DEF new
  <2> QED BY <1>m, <2>1, <2>2
<1>7. ASSUME NEW o \in over, Revoke(o) PROVE Batch(b)' = Batch(b)
  <2>1. over' = over \ {o} /\ o.split = None
    BY <1>7, RevokeIs
  <2> QED BY <1>l, <2>1
<1>8. ASSUME NEW e \in 1..MaxOps, RevokeEdit(e) PROVE Batch(b)' = Batch(b)
  <2>1. over' = over \ EditOf(e)
    BY <1>8, RevokeEditIs DEF Record
  <2> QED BY <1>l, <2>1 DEF EditOf
<1>9. ASSUME NEW to \in {Dst, New}, NEW lo, NEW hi, NEW restore, Split(lo, hi, to, restore) PROVE Batch(b)' = Batch(b)
  <2> DEFINE n == ops + 1
  <2>1. PICK p : Planned(p, to) /\ SplitRecord(p, to, n) /\ n \in 1..MaxOps
    BY <1>9, SplitIs DEF Record
  <2>n. n # b
    BY <1>t
  <2> HIDE DEF n
  <2>2. \A o \in p.lent : o.split = None
    BY <2>1 DEF Planned
  <2>3. ASSUME NEW o \in p.lent PROVE Loan(p, o, to, n).split.batch = n
    BY <2>1, SplitParts
  <2>4. ASSUME NEW k \in p.taken
        PROVE  TakenDelete(p, k, to, n).split.batch = n /\ TakenAdd(p, k, to, n).split.batch = n
    BY <2>1, SplitParts
  <2>5. ASSUME NEW q \in Batch(b)' PROVE q \in Batch(b)
    <3>1. q \in over' /\ q.split # None /\ q.split.batch = b
      BY <2>5 DEF Batch
    <3>2. \/ q \in over \ p.lent
          \/ \E o \in p.lent : q = Loan(p, o, to, n)
          \/ \E k \in p.taken : q = TakenDelete(p, k, to, n)
          \/ \E k \in p.taken : q = TakenAdd(p, k, to, n)
      BY <2>1, <3>1, SplitOrigins
    <3>3. q \in over
      BY <2>n, <2>3, <2>4, <3>1, <3>2
    <3> QED BY <3>1, <3>3 DEF Batch
  <2>6. ASSUME NEW q \in Batch(b) PROVE q \in Batch(b)'
    BY <2>1, <2>2, <2>6 DEF Batch, SplitRecord
  <2> QED BY <2>5, <2>6
<1>10. ASSUME NEW to \in {Dst, New}, UndoSplit(to) PROVE Batch(b)' = Batch(b)
  <2>1. UndoRecord(to) /\ OfPair(to) # {}
    BY <1>10, UndoIs DEF Record
  <2>2. \A p \in over : p \in Undoable(to) <=> p.split # None /\ p.split.batch = Newest(to)
    BY <2>1, UndoableIs DEF Record
  <2>3. \A q \in over' : q \in over \ Undoable(to) \/ q.split = None
    BY <2>1 DEF UndoRecord, Freed
  <2>4. Newest(to) # b
    BY <2>2, <2>3 DEF Batch
  <2>5. \A q \in over \ Undoable(to) : q \in over'
    BY <2>1 DEF UndoRecord
  <2> QED BY <2>2, <2>3, <2>4, <2>5 DEF Batch
<1> QED BY <1>1, <1>2, <1>3, <1>4, <1>5, <1>6, <1>7, <1>8, <1>9, <1>10, Steps

LEMMA SplitMade ==
  ASSUME TypeOK, Record, NEW to \in {Dst, New}, NEW lo, NEW hi, NEW restore, Split(lo, hi, to, restore),
         NEW n, n = ops + 1, before'[n] # None
  PROVE  SplitFound(n)' /\ SplitStands(n)'
<1>1. PICK p : Planned(p, to) /\ SplitRecord(p, to, n) /\ SplitRows(p, to) /\ n \in 1..MaxOps /\ Rest /\ Remember(n)
  BY SplitIs DEF Record
<1>2. before'[n] = held
  BY <1>1, RememberIs
<1>g. to # Src /\ to \in Secs /\ Src \in Secs
  BY Given
<1> DEFINE IsLoan(q) == /\ q.key \in Bars /\ q.key \in DOMAIN p.rows /\ q.op = "delete"
                        /\ q.split.kind = IF q.key \in p.dup THEN "duplicate-restored" ELSE "restored"
           IsDelete(q) == /\ q.key \in p.taken /\ q.sec = Src /\ q.op = "delete" /\ q.row = p.rows[q.key]
                          /\ q.split.kind = IF q.key \in p.dup THEN "duplicate" ELSE "moved"
           IsAdd(q) == /\ q.key \in (p.taken \ Bars) \ p.dup /\ q.op = "add"
<1>3. ASSUME NEW q \in Batch(n)'
      PROVE  q.split # None /\ q.split.to = to /\ q.key \in Keys /\ (IsLoan(q) \/ IsDelete(q) \/ IsAdd(q))
  <2>1. q \in over' /\ q.split # None /\ q.split.batch = n
    BY <1>3 DEF Batch
  <2>2. q \notin over \ p.lent
    <3>1. \A o \in over : o.split # None => o.split.batch \in Nat /\ o.split.batch <= ops
      BY BatchIs
    <3> QED BY <2>1, <3>1, Typed
  <2>3. \/ \E o \in p.lent : q = Loan(p, o, to, n)
        \/ \E k \in p.taken : q = TakenDelete(p, k, to, n)
        \/ \E k \in (p.taken \ Bars) \ p.dup : q = TakenAdd(p, k, to, n)
    BY <1>1, <2>1, <2>2, SplitOrigins
  <2>4. ASSUME NEW o \in p.lent, q = Loan(p, o, to, n) PROVE q.split.to = to /\ IsLoan(q)
    <3>1. o.key \in Bars /\ o.key \in DOMAIN p.rows /\ o.op = "delete"
      BY <1>1 DEF Planned
    <3>2. /\ Same(q, o) /\ q.split.to = to
          /\ q.split.kind = IF o.key \in p.dup THEN "duplicate-restored" ELSE "restored"
      BY <1>1, <2>4, SplitParts
    <3> QED BY <3>1, <3>2 DEF Same
  <2>5. ASSUME NEW k \in p.taken, q = TakenDelete(p, k, to, n) PROVE q.split.to = to /\ IsDelete(q)
    BY <1>1, <2>5, SplitParts
  <2>6. ASSUME NEW k \in (p.taken \ Bars) \ p.dup, q = TakenAdd(p, k, to, n) PROVE q.split.to = to /\ IsAdd(q)
    BY <1>1, <2>6, SplitParts
  <2>7. q \in Override
    BY <1>1, <2>1 DEF Rest
  <2> QED BY <2>1, <2>3, <2>4, <2>5, <2>6, <2>7, OverrideFields
<1>4. /\ \A k \in p.taken : \E q \in Batch(n)' : q.key = k /\ TookFrom(q, Src)
      /\ \A k \in p.taken \cap Bars : k \notin p.dup => \E q \in Batch(n)' : q.key = k /\ PutOn(q, to)
      /\ \A k \in (p.taken \ Bars) \ p.dup : \E q \in Batch(n)' : q.key = k /\ PutOn(q, to)
      /\ \A o \in p.lent : o.key \notin p.dup => \E q \in Batch(n)' : q.key = o.key /\ PutOn(q, to)
  <2>1. ASSUME NEW k \in p.taken
        PROVE  \E q \in Batch(n)' : /\ q.key = k /\ TookFrom(q, Src)
                                    /\ k \in Bars /\ k \notin p.dup => PutOn(q, to)
    <3> DEFINE q == TakenDelete(p, k, to, n)
    <3>1. /\ q.sec = Src /\ q.key = k /\ q.op = "delete" /\ q.split # None /\ q.split.to = to /\ q.split.batch = n
          /\ q.split.kind = IF k \in p.dup THEN "duplicate" ELSE "moved"
      BY <1>1, SplitParts
    <3>2. q \in over'
      BY <1>1 DEF SplitRecord
    <3> HIDE DEF q
    <3>3. q \in Batch(n)'
      BY <3>1, <3>2 DEF Batch
    <3> QED BY <3>1, <3>3 DEF TookFrom, PutOn, Moves
  <2>2. ASSUME NEW k \in (p.taken \ Bars) \ p.dup PROVE \E q \in Batch(n)' : q.key = k /\ PutOn(q, to)
    <3> DEFINE q == TakenAdd(p, k, to, n)
    <3>1. q.key = k /\ q.op = "add" /\ q.split # None /\ q.split.to = to /\ q.split.batch = n
      BY <1>1, SplitParts
    <3>2. q \in over'
      BY <1>1 DEF SplitRecord
    <3> HIDE DEF q
    <3>3. q \in Batch(n)'
      BY <3>1, <3>2 DEF Batch
    <3> QED BY <3>1, <3>3 DEF PutOn
  <2>3. ASSUME NEW o \in p.lent, o.key \notin p.dup PROVE \E q \in Batch(n)' : q.key = o.key /\ PutOn(q, to)
    <3> DEFINE q == Loan(p, o, to, n)
    <3>1. Same(q, o) /\ q.split # None /\ q.split.to = to /\ q.split.batch = n /\ q.split.kind = "restored"
      BY <1>1, <2>3, SplitParts
    <3>2. q \in over'
      BY <1>1 DEF SplitRecord
    <3>3. o.key \in Bars
      BY <1>1 DEF Planned
    <3> HIDE DEF q
    <3>4. q \in Batch(n)'
      BY <3>1, <3>2 DEF Batch
    <3> QED BY <3>1, <3>3, <3>4 DEF PutOn, Same
  <2> QED BY <2>1, <2>2, <2>3
<1>5. /\ p.taken \subseteq Keys /\ \A k \in p.taken : p.rows[k] = held[Src][k]
      /\ DOMAIN p.rows = p.taken \cup {o.key : o \in p.lent}
      /\ \A o \in p.lent : o.key \in Bars
      /\ \A k \in Keys : k \in p.dup <=> k \in DOMAIN p.rows /\ held[to][k] # None
  BY <1>1 DEF Planned
<1>6. /\ \A k \in Keys : held'[Src][k] = IF k \in p.taken THEN None ELSE held[Src][k]
      /\ \A k \in DOMAIN p.rows \ p.dup : held'[to][k] \in Row /\ (k \notin Bars => held'[to][k].by = Operator)
      /\ \A k \in Keys : k \notin DOMAIN p.rows \/ k \in p.dup => held'[to][k] = held[to][k]
      /\ \A t \in Secs \ {Src, to} : \A k \in Keys : held'[t][k] = held[t][k]
  BY <1>1 DEF SplitRows
<1>7. SplitFound(n)'
  <2>1. ASSUME NEW q \in Batch(n)', NEW s \in Secs
        PROVE  /\ TookFrom(q, s) => q.row = held[s][q.key]
               /\ PutOn(q, s) => held[s][q.key] = None
    <3>1. q.split.to = to /\ q.key \in Keys
      BY <1>3
    <3>2. CASE IsLoan(q)
      BY <1>5, <3>1, <3>2 DEF TookFrom, PutOn, Moves
    <3>3. CASE IsDelete(q)
      BY <1>5, <3>1, <3>3 DEF TookFrom, PutOn, Moves
    <3>4. CASE IsAdd(q)
      BY <1>5, <3>1, <3>4 DEF TookFrom, PutOn, Moves
    <3> QED BY <1>3, <3>2, <3>3, <3>4
  <2> QED BY <1>2, <2>1 DEF SplitFound, TookFrom, PutOn, Moves
<1>8. SplitStands(n)'
  <2>1. ASSUME NEW s \in Secs, NEW q \in Batch(n)', TookFrom(q, s) PROVE held'[s][q.key] = None
    <3>1. IsDelete(q) /\ s = Src /\ q.key \in Keys
      BY <1>3, <2>1 DEF TookFrom, Moves
    <3> QED BY <1>6, <3>1
  <2>2. ASSUME NEW s \in Secs, NEW q \in Batch(n)', q.op = "add", s = q.split.to
        PROVE  held'[s][q.key] # None /\ held'[s][q.key].by = Operator
    <3>1. IsAdd(q) /\ s = to
      BY <1>3, <2>2
    <3>2. held'[to][q.key] \in Row /\ held'[to][q.key].by = Operator
      BY <1>5, <1>6, <3>1
    <3> QED BY <3>1, <3>2, Given
  <2>3. ASSUME NEW s \in Secs, NEW k \in Keys, \A q \in Batch(n)' : q.key = k => ~TookFrom(q, s) /\ ~PutOn(q, s)
        PROVE  held'[s][k] = held[s][k]
    <3>1. CASE s = Src
      <4>1. k \notin p.taken
        BY <1>4, <2>3, <3>1
      <4> QED BY <1>6, <3>1, <4>1
    <3>2. CASE s = to
      <4>1. k \notin DOMAIN p.rows \/ k \in p.dup
        BY <1>4, <1>5, <2>3, <3>2
      <4> QED BY <1>6, <3>2, <4>1
    <3>3. CASE s \notin {Src, to}
      BY <1>6, <3>3
    <3> QED BY <3>1, <3>2, <3>3
  <2> QED BY <1>2, <2>1, <2>2, <2>3 DEF SplitStands, TookFrom, PutOn, Moves
<1> QED BY <1>7, <1>8

LEMMA SplitsKept ==
  ASSUME TypeOK, Record, Remembered, SplitsInv, [Next]_vars
  PROVE  SplitsInv'
<1>f. ASSUME NEW n, Rest, Remember(n), NEW b \in 1..MaxOps, b # n, before'[b] # None, Batch(b)' # {}, Next
      PROVE  SplitFound(b)' /\ SplitStands(b)'
  <2>1. before[b] # None /\ before'[b] = before[b] /\ b <= ops /\ Aside(b) /\ ~Entangled(b)
    BY <1>f, RememberedFrame
  <2>2. Batch(b)' = Batch(b)
    BY <1>f, <2>1, BatchStays
  <2>3. SplitFound(b) /\ SplitStands(b)
    BY <1>f, <2>1, <2>2 DEF SplitsInv
  <2> QED BY <2>1, <2>2, <2>3, SplitFrame
<1>1. ASSUME Next, Rest, Remember(0), NEW b \in 1..MaxOps, before'[b] # None, Batch(b)' # {}
      PROVE  SplitFound(b)' /\ SplitStands(b)'
  <2>1. b # 0
    BY Given
  <2> QED BY <1>1, <1>f, <2>1
<1>2. ASSUME UNCHANGED <<held, over, before, since>> PROVE SplitsInv'
  BY <1>2 DEF SplitsInv, SplitFound, SplitStands, Batch, TookFrom, PutOn, Moves
<1>3. ASSUME Next, NEW s \in Secs, NEW K, NEW to, NEW scale, Edited(s, K, to, scale),
             NEW b \in 1..MaxOps, before'[b] # None, Batch(b)' # {}
      PROVE  SplitFound(b)' /\ SplitStands(b)'
  <2> DEFINE n == ops + 1
             new == {EditDelete(s, k, n) : k \in K} \cup {EditAdd(s, k, to, scale, n) : k \in K}
  <2>1. EditLeaves(s, K, to, scale, n)
    BY <1>3, EditedStep
  <2>2. Rest /\ Remember(n) /\ over' = over \cup new
    BY <2>1 DEF EditLeaves, AddsOnly
  <2>3. \A o \in new : o.split = None
    BY DEF EditDelete, EditAdd
  <2>4. n \in Nat /\ ops \in Nat /\ \A o \in over : o.split # None => o.split.batch # n
    BY BatchIs, Typed
  <2> HIDE DEF n, new
  <2>5. b # n
    BY <1>3, <2>2, <2>3, <2>4 DEF Batch
  <2> QED BY <1>3, <1>f, <2>2, <2>5
<1>4. ASSUME Next, NEW to \in {Dst, New}, NEW lo, NEW hi, NEW restore, Split(lo, hi, to, restore),
             NEW b \in 1..MaxOps, before'[b] # None, Batch(b)' # {}
      PROVE  SplitFound(b)' /\ SplitStands(b)'
  <2>1. Rest /\ Remember(ops + 1)
    BY <1>4, SplitIs DEF Record
  <2>2. CASE b = ops + 1
    BY <1>4, <2>2, SplitMade
  <2>3. CASE b # ops + 1
    BY <1>4, <1>f, <2>1, <2>3
  <2> QED BY <2>2, <2>3
<1>5. ASSUME Next PROVE SplitsInv'
  <2>1. CASE UNCHANGED <<held, over, before, since>>
    BY <1>2, <2>1
  <2>2. CASE ~UNCHANGED <<held, over, before, since>>
    <3>1. ASSUME NEW b \in 1..MaxOps, before'[b] # None, Batch(b)' # {} PROVE SplitFound(b)' /\ SplitStands(b)'
      BY <1>1, <1>3, <1>4, <1>5, <2>2, <3>1, Remembers
    <3> QED BY <3>1 DEF SplitsInv
  <2> QED BY <2>1, <2>2
<1> QED BY <1>2, <1>5 DEF vars

(* Undoing a split: what it found is there again, but for what changed since. *)
LEMMA SplitRestores ==
  ASSUME TypeOK, Record, SplitsInv, NEW to \in {Dst, New}, UndoSplit(to),
         NEW b \in 1..MaxOps, b = Newest(to), before[b] # None,
         NEW t \in Secs, NEW k \in Keys, <<t, k>> \notin since[b]
  PROVE  held'[t][k] = before[b][t][k]
<1>1. UndoRows(to) /\ OfPair(to) # {}
  BY UndoIs DEF Record
<1>2. /\ Undoable(to) # {} /\ \A o : o \in Undoable(to) <=> o \in Batch(b)
      /\ \A o \in Batch(b) : o \in over /\ o.split # None /\ o.split.to = to /\ Shape(o)
  BY <1>1, UndoableIs DEF Record, SplitShape, Batch
<1>3. SplitFound(b) /\ SplitStands(b)
  BY <1>2 DEF SplitsInv
<1>4. /\ \A o \in Batch(b) : o.key = k /\ TookFrom(o, t) => held[t][k] = None
      /\ \A o \in Batch(b) : o.key = k /\ o.op = "add" /\ t = o.split.to => held[t][k] # None /\ held[t][k].by = Operator
      /\ (\A o \in Batch(b) : o.key = k => ~TookFrom(o, t) /\ ~PutOn(o, t)) => held[t][k] = before[b][t][k]
  BY <1>3 DEF SplitStands
<1>g. to # Src /\ to \in Secs /\ Src \in Secs
  BY Given
<1>5. CASE t = Src
  <2>1. CASE \E o \in Batch(b) : o.key = k /\ GivesBack(o)
    <3>1. PICK o \in Batch(b) : o.key = k /\ GivesBack(o)
      BY <2>1
    <3>2. TookFrom(o, Src)
      BY <1>2, <3>1 DEF TookFrom, GivesBack
    <3>3. o.row = before[b][Src][k]
      BY <1>3, <1>g, <3>1, <3>2 DEF SplitFound
    <3> QED BY <1>1, <1>2, <1>5, <3>1, <3>3 DEF UndoRows
  <2>2. CASE \A o \in Batch(b) : GivesBack(o) => o.key # k
    <3>1. held'[Src][k] = held[Src][k]
      BY <1>1, <1>2, <2>2 DEF UndoRows
    <3>2. \A o \in Batch(b) : o.key = k => ~TookFrom(o, Src) /\ ~PutOn(o, Src)
      BY <1>2, <1>4, <1>5, <1>g, <2>2 DEF TookFrom, PutOn, GivesBack
    <3> QED BY <1>4, <1>5, <3>1, <3>2
  <2> QED BY <2>1, <2>2
<1>6. CASE t = to
  <2>1. CASE \E o \in Batch(b) : o.key = k /\ Takes(o, to)
    <3>1. PICK o \in Batch(b) : o.key = k /\ Takes(o, to)
      BY <2>1
    <3>2. PutOn(o, to)
      BY <1>2, <3>1 DEF PutOn, Takes
    <3>3. before[b][to][k] = None
      BY <1>3, <1>g, <3>1, <3>2 DEF SplitFound
    <3> QED BY <1>1, <1>2, <1>6, <3>1, <3>3 DEF UndoRows
  <2>2. CASE \A o \in Batch(b) : Takes(o, to) => o.key # k
    <3>1. held'[to][k] = held[to][k]
      BY <1>1, <1>2, <2>2 DEF UndoRows
    <3>2. \A o \in Batch(b) : o.key = k => ~TookFrom(o, to) /\ ~PutOn(o, to)
      BY <1>2, <1>4, <1>6, <1>g, <2>2 DEF TookFrom, PutOn, Takes
    <3> QED BY <1>4, <1>6, <3>1, <3>2
  <2> QED BY <2>1, <2>2
<1>7. CASE t \notin {Src, to}
  <2>1. held'[t][k] = held[t][k]
    BY <1>1, <1>7 DEF UndoRows
  <2>2. \A o \in Batch(b) : o.key = k => ~TookFrom(o, t) /\ ~PutOn(o, t)
    BY <1>2, <1>7 DEF TookFrom, PutOn
  <2> QED BY <1>4, <2>1, <2>2
<1> QED BY <1>5, <1>6, <1>7

Restored ==
  \A b \in 1..MaxOps : Undone(b) =>
    \A x \in (Secs \X Keys) \ since[b] : held'[x[1]][x[2]] = before[b][x[1]][x[2]]

LEMMA StepRestores ==
  ASSUME TypeOK, Record, Remembered, EditsInv, SplitsInv, Next
  PROVE  Restored
<1>1. ASSUME NEW b \in 1..MaxOps, Undone(b), NEW t \in Secs, NEW k \in Keys, <<t, k>> \notin since[b]
      PROVE  held'[t][k] = before[b][t][k]
  <2>1. before[b] # None
    BY <1>1 DEF Undone
  <2>2. CASE RevokeEdit(b) /\ EditOf(b) # {}
    BY <1>1, <2>1, <2>2, EditRestores
  <2>3. ASSUME NEW to \in {Dst, New}, UndoSplit(to), b = Newest(to) PROVE held'[t][k] = before[b][t][k]
    BY <1>1, <2>1, <2>3, SplitRestores
  <2> QED BY <1>1, <2>2, <2>3, Lifted
<1>2. \A x \in Secs \X Keys : x = <<x[1], x[2]>> /\ x[1] \in Secs /\ x[2] \in Keys
  OBVIOUS
<1> QED BY <1>1, <1>2 DEF Restored

(* Undoing a split, or revoking an edit, gives every row back as the operation found it,   *)
(* but for what something else changed since (UndoRestores).  The invariant relates what *)
(* the operation found to the overrides it left: EditsInv for edits, SplitsInv for       *)
(* splits, both on top of a record in which no two overrides are alike (Record).         *)
THEOREM UndoGivesItAllBack == Spec => UndoRestores
<1> DEFINE Inv == TypeOK /\ Record /\ Remembered /\ EditsInv /\ SplitsInv
<1>1. Init => Inv
  BY InitIs, RecordAtFirst DEF Remembered, EditsInv, SplitsInv
<1>2. Inv /\ [Next]_vars => Inv'
  BY RecordKept, RememberedKept, EditsKept, SplitsKept
<1>3. Inv /\ [Next]_vars => [Restored]_vars
  BY StepRestores
<1>4. Spec => [][Restored]_vars
  <2> HIDE DEF Inv
  <2> QED BY <1>1, <1>2, <1>3, PTL DEF Spec
<1> QED BY <1>4 DEF UndoRestores, Restored
=============================================================================
