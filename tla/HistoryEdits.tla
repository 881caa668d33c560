---------------------------- MODULE HistoryEdits ----------------------------
(***************************************************************************)
(* What an operator does to a stored history and takes back again           *)
(* (db/repository.py, ingest/price_edits.py, cli.py): rows deleted, bars     *)
(* re-dated or re-scaled as one edit, a range split off onto another         *)
(* security, and the undo of each, beside vendors that load.                *)
(*                                                                         *)
(* Every operation plans and writes in one step (what changes at its prompt *)
(* is left out); the table's indexes refuse the rest.  What it did is read   *)
(* back from the active overrides alone.                                    *)
(***************************************************************************)
EXTENDS Integers, FiniteSets, FiniteSetsExt

CONSTANTS
    Src, Dst, New,   \* the row that holds two histories; another row; what a mint gives
    Dates, ExDates,  \* dates of bars, of actions
    Vendors, Own,    \* vendors other than FMP; the rank of each vendor's rows
    Feed,            \* <<vendor, security, key>> -> value served, or None
    MaxOps,          \* bound on what an operator does
    MaxFlags,        \* bound on flags at a time
    Subjects,        \* <<check, date>> that may be flagged
    Counted,         \* the price_* checks, whose repeats are counted
    None

Secs     == {Src, Dst, New}
Keys     == ({"bar"} \X Dates) \cup ({"action"} \X ExDates)
Serving  == Vendors \cup {"fmp"}
Operator == "operator"

\* A value below zero is the same price at another scale.
Values == {Feed[x] : x \in DOMAIN Feed} \ {None}
Row    == [val : Values \cup {-v : v \in Values}, by : Serving \cup {Operator}]

Mark == [to : {Dst, New}, batch : 1..MaxOps,
         kind : {"moved", "duplicate", "restored", "duplicate-restored"}]

\* ops.operator_override, those not revoked; edit 0 is none.
Override == [sec : Secs, key : Keys, op : {"delete", "add"}, row : Row,
             edit : 0..MaxOps, split : Mark \cup {None}]

Flag == [on : Secs, home : Secs, about : Subjects, stamp : 0..MaxOps]

ASSUME EditsAssumption ==
    /\ Src # Dst /\ Src # New /\ Dst # New
    /\ "fmp" \notin Vendors /\ Operator \notin Serving
    /\ None \notin Row \cup Mark
    /\ Dates \subseteq Nat /\ ExDates \subseteq Dates
    /\ Own \in [Serving -> Nat]
    /\ DOMAIN Feed = Serving \X Secs \X Keys
    /\ \A x \in DOMAIN Feed : Feed[x] = None \/ (x[2] # New /\ Feed[x] \in Nat \ {0})
    /\ MaxOps \in Nat /\ MaxFlags \in Nat
    /\ \A a \in Subjects : a[2] \in Dates

VARIABLES
    held,     \* core.daily_price and core.corporate_action: the row at each key
    exists,   \* core.security: the minted row is there
    over,     \* the active overrides
    flags,    \* open flags about a date; home is the history they are about
    ops,      \* the operator's operations so far
    before,   \* history: per edit and split in force, the rows it found
    since     \* history: ... and which something else changed since

vars == <<held, exists, over, flags, ops, before, since>>

Stored(s) == {k \in Keys : held[s][k] # None}
In(lo, hi) == {k \in Keys : k[2] \in lo..hi}
Bars == {k \in Keys : k[1] = "bar"}

At(s, k, op) == {o \in over : o.sec = s /\ o.key = k /\ o.op = op}

\* ux_operator_override_active.
Insertable(new) == \A o \in new : At(o.sec, o.key, o.op) = {}

Batch(b) == {o \in over : o.split # None /\ o.split.batch = b}
EditOf(e) == {o \in over : e # 0 /\ o.edit = e}
InForce(b) == Batch(b) \cup EditOf(b) # {}

\* A split that took along the bar of an edit: neither undoes the other.
Entangled(b) == \E o \in Batch(b) : o.edit # 0

\* What an edit or split found, and what moved since; n is its number, 0 of the rest.
Remember(n) ==
    LET changed == {x \in Secs \X Keys : held'[x[1]][x[2]] # held[x[1]][x[2]]}
    IN /\ before' = [b \in 1..MaxOps |->
                      IF ~InForce(b)' \/ Entangled(b)' THEN None
                      ELSE IF b = n THEN held ELSE before[b]]
       /\ since'  = [b \in 1..MaxOps |->
                      IF b # n /\ InForce(b)' THEN since[b] \cup changed ELSE {}]

Operation == ops < MaxOps /\ ops' = ops + 1

Without(s, K)   == [held EXCEPT ![s] = [k \in Keys |-> IF k \in K THEN None ELSE @[k]]]
Placed(h, s, f) == [h EXCEPT ![s] = [k \in Keys |-> IF k \in DOMAIN f THEN f[k] ELSE @[k]]]

-----------------------------------------------------------------------------
\* FMP's full history of the ticker is stored on the row that holds it today.
Init ==
    /\ held = [s \in Secs |-> [k \in Keys |->
                 IF s = Src /\ Feed[<<"fmp", s, k>>] # None
                 THEN [val |-> Feed[<<"fmp", s, k>>], by |-> "fmp"] ELSE None]]
    /\ exists = FALSE
    /\ over = {} /\ flags = {}
    /\ ops = 0
    /\ before = [b \in 1..MaxOps |-> None] /\ since = [b \in 1..MaxOps |-> {}]

-----------------------------------------------------------------------------
(* The loads and the checks *)

Moves(o) == o.split # None /\ o.split.kind \in {"moved", "duplicate"}

\* Of bars every override counts, of actions the deletes.
Sets(o, s, k) == o.sec = s /\ o.key = k /\ (k \in Bars \/ o.op = "delete")

\* Mutant: a split holds the others back, and not the vendor it moved.
SuppressedOthers(v, s, k) ==
    \E o \in over : Sets(o, s, k) /\ ~(Moves(o) /\ o.row.by = v)

\* A history split holds back the vendor it moved; FMP's loaders read every key.
Suppressed(v, s, k) ==
    \E o \in over : Sets(o, s, k) /\ ~(v # "fmp" /\ Moves(o) /\ o.row.by # v)

Lands(r, v) == r # None => r.by # Operator /\ Own[r.by] <= Own[v]

Load(v, s, k) ==
    LET r == [val |-> Feed[<<v, s, k>>], by |-> v]
    IN /\ r.val # None
       /\ ~Suppressed(v, s, k)
       /\ Lands(held[s][k], v) /\ held[s][k] # r
       /\ held' = [held EXCEPT ![s][k] = r]
    /\ UNCHANGED <<exists, over, flags, ops>>
    /\ Remember(0)

Has(F, s, a) == \E f \in F : f.on = s /\ f.about = a

\* A condition about a date is flagged once, a price_* one at every load.
Raise(s, a) ==
    /\ Cardinality(flags) < MaxFlags
    /\ s = New => exists
    /\ Has(flags, s, a) => a[1] \in Counted
    /\ flags' = flags \cup {[on |-> s, home |-> s, about |-> a, stamp |-> 0]}
    /\ UNCHANGED <<held, exists, over, ops, before, since>>

-----------------------------------------------------------------------------
(* Deletes and additions, one override a key *)

Plain(s, k, op, r) == [sec |-> s, key |-> k, op |-> op, row |-> r, edit |-> 0, split |-> None]

\* A row an operator wrote is undone, not deleted.
Deletable(s, k) == At(s, k, "add") = {}

Removed(s, K) ==
    LET new == {Plain(s, k, "delete", held[s][k]) : k \in K}
    IN /\ Operation
       /\ K # {} /\ K \subseteq Stored(s)
       /\ \A k \in K : Deletable(s, k)
       /\ Insertable(new)
       /\ over' = over \cup new
    /\ held' = Without(s, K)
    /\ UNCHANGED <<exists, flags>>
    /\ Remember(0)

DeleteBars(s, K)    == K \subseteq Bars /\ Removed(s, K)
DeleteActions(s, K) == K \cap Bars = {} /\ Removed(s, K)

AddAction(s, k, v) ==
    LET r == [val |-> v, by |-> Operator]
    IN /\ Operation
       /\ k \notin Bars /\ held[s][k] = None
       /\ s = New => exists
       /\ Insertable({Plain(s, k, "add", r)})
       /\ over' = over \cup {Plain(s, k, "add", r)}
       /\ held' = [held EXCEPT ![s][k] = r]
    /\ UNCHANGED <<exists, flags>>
    /\ Remember(0)

\* Two overrides, each revoked on its own.
Redate(s, k, day) ==
    LET to  == <<k[1], day>>
        r   == [held[s][k] EXCEPT !.by = Operator]
        new == {Plain(s, k, "delete", held[s][k]), Plain(s, to, "add", r)}
    IN /\ Operation
       /\ k \in Stored(s) \ Bars /\ held[s][to] = None
       /\ Deletable(s, k)
       /\ Insertable(new)
       /\ over' = over \cup new
       /\ held' = Placed(Without(s, {k}), s, [j \in {to} |-> r])
    /\ UNCHANGED <<exists, flags>>
    /\ Remember(0)

\* One half of an edit or a split is not revoked alone.
Alone(o) == o.edit = 0 /\ o.split = None

\* A delete's row is not written back: the next load does that.
Revoke(o) ==
    /\ o \in over /\ Alone(o)
    /\ over' = over \ {o}
    /\ held' = IF o.op = "add" /\ held[o.sec][o.key] # None /\ held[o.sec][o.key].by = Operator
               THEN Without(o.sec, {o.key}) ELSE held
    /\ UNCHANGED <<exists, flags, ops>>
    /\ Remember(0)

-----------------------------------------------------------------------------
(* prices rescale and prices shift: one edit of many bars *)

\* The same row at the new scale, written by the operator.
Copied(s, k, scale) == [val |-> scale * held[s][k].val, by |-> Operator]

\* Each old row gets a delete, each copy an add, all with the number of the edit.
EditRecord(s, K, to, scale, n) ==
    {[Plain(s, k, "delete", held[s][k]) EXCEPT !.edit = n] : k \in K} \cup
    {[Plain(s, to[k], "add", Copied(s, k, scale)) EXCEPT !.edit = n] : k \in K}

Replace(s, K, to, scale) ==
    LET n    == ops + 1
        new  == EditRecord(s, K, to, scale, n)
        back == [j \in {to[k] : k \in K} |-> Copied(s, CHOOSE k \in K : to[k] = j, scale)]
    IN /\ Operation
       /\ Insertable(new)
       /\ over' = over \cup new
       /\ held' = Placed(Without(s, K), s, back)
       /\ UNCHANGED <<exists, flags>>
       /\ Remember(n)

\* Bars an operator already wrote are not edited again.
Unedited(s, K) == \A k \in K : At(s, k, "add") = {}

Rescale(s, lo, hi) ==
    LET K == Stored(s) \cap Bars \cap In(lo, hi)
    IN /\ K # {} /\ Unedited(s, K)
       /\ Replace(s, K, [k \in K |-> k], -1)

\* Actions move onto dates free of other actions, and none that an operator wrote.
ActionsMove(s, A, to) ==
    \A k \in A : held[s][k].by # Operator /\ to[k] \notin Stored(s) \ A

\* A date outside the range that holds a bar or an override is refused.
Shift(s, lo, hi, days, actions) ==
    LET K     == Stored(s) \cap Bars \cap In(lo, hi)
        A     == IF actions THEN (Stored(s) \ Bars) \cap In(lo, hi) ELSE {}
        to    == [k \in K \cup A |-> <<k[1], k[2] + days>>]
    IN /\ K # {} /\ Unedited(s, K)
       /\ \A k \in K \cup A : to[k] \in Keys
       /\ \A k \in K : to[k] \notin K =>
            to[k] \notin Stored(s) /\ \A o \in over : ~(o.sec = s /\ o.key = to[k])
       /\ ActionsMove(s, A, to)
       /\ Replace(s, K \cup A, to, 1)

\* The edit's rows go, then the rows it replaced come back; one in the way refuses it.
\* Of actions, one in the way stays.
RevokeEdit(e) ==
    LET all  == EditOf(e)
        s    == (CHOOSE o \in all : TRUE).sec
        gone == {o.key : o \in {p \in all : p.op = "add" /\ held[s][p.key] # None
                                            /\ held[s][p.key].by = Operator}}
        left == Stored(s) \ gone
        back == {o \in all : o.op = "delete" /\ (o.key \in Bars \/ o.key \notin left)}
    IN /\ all # {}
       /\ \A o \in back : o.key \in Bars => o.key \notin left
       /\ over' = over \ all
       /\ held' = Placed(Without(s, gone), s,
                         [k \in {o.key : o \in back} |-> (CHOOSE o \in back : o.key = k).row])
       /\ UNCHANGED <<exists, flags, ops>>
       /\ Remember(0)

-----------------------------------------------------------------------------
(* security split-history *)

\* A deleted bar of the source that --restore-deleted takes along.
Restorable(lo, hi) ==
    {o \in over : o.sec = Src /\ o.op = "delete" /\ o.key \in Bars \cap In(lo, hi)
               /\ held[Src][o.key] = None}

\* Flags go along, but for those the other side has already and none counts.
Redundant(F, to) == {f \in F : f.about[1] \notin Counted /\ Has(flags, to, f.about)}

MoveFlags(F, to, stamp) ==
    (flags \ F) \cup {[f EXCEPT !.on = to, !.stamp = stamp] : f \in F \ Redundant(F, to)}

\* What it would take, what it would lend, and what the other side has of it.
PlanSplit(lo, hi, to, restore) ==
    LET K == Stored(Src) \cap In(lo, hi)
        R == IF restore THEN Restorable(lo, hi) ELSE {}
        rows == [k \in K \cup {o.key : o \in R} |->
                   IF k \in K THEN held[Src][k] ELSE (CHOOSE o \in R : o.key = k).row]
    IN [taken |-> K, lent |-> R, rows |-> rows, dup |-> DOMAIN rows \cap Stored(to)]

\* A key taken carries no delete yet: a second one at the same key.
KeysFree(p) == \A k \in p.taken : At(Src, k, "delete") = {}

\* Refused: nothing, a part already split off, the whole history, a session the other
\* side holds differently.
Splittable(p, lo, hi, to) ==
    /\ DOMAIN p.rows # {}
    /\ \A o \in over : ~(o.sec = Src /\ o.split # None /\ o.key \in In(lo, hi))
    /\ p.taken \cap Bars # {} => (Stored(Src) \cap Bars) \ p.taken # {}
    /\ \A k \in p.dup : held[to][k].val = p.rows[k].val

Marked(p, k, to, n, fresh, same) ==
    [to |-> to, batch |-> n, kind |-> IF k \in p.dup THEN same ELSE fresh]

\* A delete of each row taken; of an action moved, also an operator's row there.
SplitDeletes(p, to, n) ==
    {[Plain(Src, k, "delete", p.rows[k]) EXCEPT !.split = Marked(p, k, to, n, "moved", "duplicate")]
     : k \in p.taken}

SplitAdds(p, to, n) ==
    {[Plain(to, k, "add", p.rows[k]) EXCEPT !.split = Marked(p, k, to, n, "moved", "moved")]
     : k \in (p.taken \ Bars) \ p.dup}

Loans(p, to, n) ==
    {[o EXCEPT !.split = Marked(p, o.key, to, n, "restored", "duplicate-restored")] : o \in p.lent}

\* The other row is minted on the way when it is a new one.
Minted(to) == exists \/ to = New

\* The flags about a date between the first and the last that moved.
FlagsAlong(p) ==
    LET dates == {k[2] : k \in DOMAIN p.rows}
    IN {f \in flags : f.on = Src /\ f.about[2] \in Min(dates)..Max(dates)}

Split(lo, hi, to, restore) ==
    LET n   == ops + 1
        p   == PlanSplit(lo, hi, to, restore)
        new == SplitDeletes(p, to, n) \cup SplitAdds(p, to, n)
        put(k) == IF k \in Bars THEN p.rows[k] ELSE [p.rows[k] EXCEPT !.by = Operator]
    IN /\ Operation
       /\ Splittable(p, lo, hi, to) /\ KeysFree(p)
       /\ Insertable(new)
       /\ over' = (over \ p.lent) \cup Loans(p, to, n) \cup new
       /\ held' = Placed(Without(Src, p.taken), to, [k \in DOMAIN p.rows \ p.dup |-> put(k)])
       /\ exists' = Minted(to)
       /\ flags' = MoveFlags(FlagsAlong(p), to, n)
       /\ Remember(n)

Newest(to) == Max({o.split.batch : o \in {p \in over : p.split # None /\ p.split.to = to}})

\* Mutant: all that was split between the two.
OfPair(to)  == {o \in over : o.split # None /\ o.split.to = to}
\* Of the splits between the two, the newest.
Undoable(to) == {o \in over : o.split # None /\ o.split.to = to /\ o.split.batch = Newest(to)}

\* Mutant: nothing is in the way.
OccupiedNever(all) == {}
\* A moved key on which another vendor has written to the source since.
Occupied(all) ==
    {o \in all : o.sec = Src /\ o.op = "delete" /\ o.split.kind = "moved" /\ held[Src][o.key] # None}

\* Mutant: what the other side held before goes too.
TakenBackAll(all) == {o.key : o \in all}
\* What the split put on the other side: of bars whatever is there, of actions the
\* operator's.
TakenBack(all) ==
    {o.key : o \in {p \in all :
        \/ p.key \in Bars /\ p.split.kind \in {"moved", "restored"}
        \/ p.op = "add" /\ held[p.sec][p.key] # None /\ held[p.sec][p.key].by = Operator}}

\* Mutant: flags about the dates that come back.
ReturningByDate(to, b) == {f \in flags : f.on = to /\ \E o \in Batch(b) : o.key[2] = f.about[2]}
\* The flags the split moved.
Returning(to, b) == {f \in flags : f.on = to /\ f.stamp = b}

\* The moved rows and the duplicates, as the overrides keep them.
PutBack(all) ==
    LET back == {o \in all : o.op = "delete" /\ Moves(o) /\ held[Src][o.key] = None}
    IN [k \in {o.key : o \in back} |-> (CHOOSE o \in back : o.key = k).row]

\* A minted row left with no row and no override is deleted, and its flags follow.
Emptied(to, h, left) ==
    to = New /\ (\A k \in Keys : h[New][k] = None) /\ \A o \in left : o.sec # New

FlagsFollow(G) ==
    LET rest == {f \in G : f.on = New}
    IN (G \ rest) \cup {[f EXCEPT !.on = Src, !.home = Src, !.stamp = 0]
                        : f \in {g \in rest : g.about[1] \in Counted \/ ~Has(G, Src, g.about)}}

UndoSplit(to) ==
    LET all  == Undoable(to)
        h    == Placed(Without(to, TakenBack(all)), Src, PutBack(all))
        left == (over \ all) \cup {[o EXCEPT !.split = None] : o \in {p \in all : ~Moves(p)}}
        G    == MoveFlags(Returning(to, Newest(to)), Src, 0)
    IN /\ OfPair(to) # {}
       /\ Occupied(all) = {}
       /\ over' = left
       /\ held' = h
       /\ exists' = (exists /\ ~Emptied(to, h, left))
       /\ flags' = IF Emptied(to, h, left) THEN FlagsFollow(G) ELSE G
       /\ UNCHANGED ops
       /\ Remember(0)

-----------------------------------------------------------------------------
(* The commands *)

PricesDelete  == \E s \in Secs, K \in SUBSET Bars : DeleteBars(s, K)
ActionsDelete == \E s \in Secs, K \in SUBSET (Keys \ Bars) : DeleteActions(s, K)
ActionsAdd    == \E s \in Secs, k \in Keys, v \in Values : AddAction(s, k, v)
ActionsRedate == \E s \in Secs, k \in Keys, day \in ExDates : Redate(s, k, day)
PricesRescale == \E s \in Secs, lo, hi \in Dates : Rescale(s, lo, hi)
PricesShift ==
    \E s \in Secs, lo, hi \in Dates, days \in {-1, 1}, actions \in BOOLEAN :
        Shift(s, lo, hi, days, actions)
OverrideRevoke == (\E o \in over : Revoke(o)) \/ \E e \in 1..MaxOps : RevokeEdit(e)
SplitHistory ==
    \/ \E lo, hi \in Dates, to \in {Dst, New}, restore \in BOOLEAN : Split(lo, hi, to, restore)
    \/ \E to \in {Dst, New} : UndoSplit(to)

OperatorStep ==
    \/ PricesDelete \/ ActionsDelete \/ ActionsAdd \/ ActionsRedate
    \/ PricesRescale \/ PricesShift \/ OverrideRevoke \/ SplitHistory

Next ==
    \/ \E v \in Serving, s \in Secs, k \in Keys : Load(v, s, k)
    \/ \E s \in Secs, a \in Subjects : Raise(s, a)
    \/ OperatorStep

Spec == Init /\ [][Next]_vars

-----------------------------------------------------------------------------
(* Properties *)

TypeOK ==
    /\ held \in [Secs -> [Keys -> Row \cup {None}]]
    /\ exists \in BOOLEAN
    /\ over \subseteq Override
    /\ flags \subseteq Flag
    /\ ops \in 0..MaxOps
    /\ before \in [1..MaxOps -> [Secs -> [Keys -> Row \cup {None}]] \cup {None}]
    /\ since \in [1..MaxOps -> SUBSET (Secs \X Keys)]

\* What an operator removed from the source is not there again while the override is
\* in force, whatever is loaded, edited, split off or undone meanwhile: no vendor's row
\* on a deleted key, and not the moved vendor's on a key split off
\* (suppressed_price_dates; split_security_history: "so a load of the ticker's full
\* history cannot re-insert them").
RemovedStaysOut ==
    \A o \in over : o.sec = Src /\ o.op = "delete" /\ held[Src][o.key] # None =>
        \/ held[Src][o.key].by = Operator
        \/ Moves(o) /\ held[Src][o.key].by # o.row.by

Undone(b) == before[b] # None /\ ~InForce(b)'

\* Undoing a split, or revoking an edit, leaves every row of all three securities as
\* the operation found it, but for those something else changed since
\* (undo_history_split: "exactly what was moved and nothing the destination held
\* before"; revoke_price_edit: "exactly as they stood").
UndoRestores ==
    [][\A b \in 1..MaxOps : Undone(b) =>
        \A x \in (Secs \X Keys) \ since[b] : held'[x[1]][x[2]] = before[b][x[1]][x[2]]]_vars

\* No row falls between the two: what a split recorded as moved is on the source again
\* when its record is lifted, although another vendor may have loaded there since
\* (undo_history_split: "so it would keep neither").
MovedRowsReturn ==
    [][\A o \in over \ over' : o.op = "delete" /\ Moves(o) =>
        held'[Src][o.key] # None /\ (o.split.kind = "moved" => held'[Src][o.key] = o.row)]_vars

\* A flag is with the history it is about: on the other side only while the split that
\* moved it stands.  No undo hands the source a flag the other side raised itself, and
\* none stays behind because its date holds no row (_move_dated_flags).
FlagsComeHome ==
    [][/\ \A f \in flags' : f.stamp = 0 => f.on = f.home
       /\ \A b \in 1..MaxOps : Undone(b) => \A f \in flags' : f.stamp # b]_vars

-----------------------------------------------------------------------------
(* Known limits of the code: no run lists these *)

\* A bar of an edit is where the edit put it (doc/operations.md: a split is refused over
\* "a bar or action an operator re-dated or re-scaled").
EditedBarsStay ==
    \A o \in over : o.edit # 0 /\ o.op = "add" /\ o.key \in Bars =>
        held[o.sec][o.key] # None /\ held[o.sec][o.key].by = Operator

\* A row that blocks the undo can be deleted (undo_history_split: "Delete those rows
\* from the source first").
BlockedCanBeFreed ==
    \A b \in 1..MaxOps : \A o \in Occupied(Batch(b)) :
        Insertable({Plain(Src, o.key, "delete", held[Src][o.key])})

\* A bar lent to the destination leaves it when the record of the loan goes
\* (undo_history_split: "is removed from the destination").
RestoredGoesBack ==
    [][\A o \in over \ over' : o.split # None /\ o.split.kind = "restored" =>
        held'[o.split.to][o.key] = None]_vars

\* A delete of the destination's stands when history is moved there.
DeletedStaysOutThere ==
    \A o \in over : o.op = "delete" /\ held[o.sec][o.key] # None =>
        held[o.sec][o.key].by = Operator \/ (Moves(o) /\ held[o.sec][o.key].by # o.row.by)
=============================================================================
