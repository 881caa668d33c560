------------------------- MODULE FundamentalsProofs -------------------------
(* Type correctness of the statement tables, the chain each period's versions  *)
(* form, and that the tables implement the two-axis history; then what the     *)
(* loads make of the files: reading them again is quiet, a split makes no      *)
(* version, and what SF1 lists is held once the files are applied.             *)
EXTENDS Fundamentals, TLAPS, WellFoundedInduction, FiniteSetTheorems, SequenceTheorems

-----------------------------------------------------------------------------
(* Extremal elements *)

(* Every non-empty set of naturals has a least element, by the well-foundedness of < *)
(* on Nat, the one inductive fact used here.                                         *)
LEMMA LeastElement ==
  ASSUME NEW T, T \subseteq Nat, T # {}
  PROVE  \E x \in T : \A y \in T : x <= y
<1> DEFINE R == OpToRel(<, Nat)
<1>1. IsWellFoundedOn(R, Nat)
  BY NatLessThanWellFounded
<1> HIDE DEF R
<1>2. \E x \in T : \A y \in T : <<y, x>> \notin R
  BY <1>1, WFMin
<1>3. \A x, y \in T : <<y, x>> \notin R => x <= y
  <2>1. SUFFICES ASSUME NEW x \in T, NEW y \in T, y < x PROVE <<y, x>> \in R
    BY SMT
  <2>2. <<y, x>> \in Nat \X Nat /\ <<y,x>>[1] < <<y,x>>[2]
    BY <2>1
  <2> QED BY <2>2 DEF R, OpToRel
<1> QED BY <1>2, <1>3

-----------------------------------------------------------------------------
(* Reading a chain of versions *)

(* The versions a read finds: one per number, each known after those before. *)
Linear(V) ==
    /\ \A v \in V : v.no \in Nat \ {0} /\ v.from \in Nat
    /\ \A v, w \in V : v.no = w.no => v = w
    /\ \A v, w \in V : v.no < w.no => v.from < w.from

(* The version v is known by day d, and no later one is. *)
Stands(V, v, d) == v \in V /\ v.from <= d /\ \A w \in V : w.no > v.no => d < w.from

(* The next version begins after day d only if every later one does. *)
LEMMA NextDecides ==
  ASSUME NEW V, Linear(V), NEW d \in Nat, NEW v \in V
  PROVE  NotYetFollowed(V, v, d) <=> \A w \in V : w.no > v.no => d < w.from
<1>1. SUFFICES ASSUME NotYetFollowed(V, v, d), NEW w \in V, w.no > v.no PROVE d < w.from
  BY DEF NotYetFollowed
<1> DEFINE T == {u.no : u \in {x \in V : x.no > v.no}}
<1>2. T \subseteq Nat /\ T # {}
  BY <1>1 DEF Linear
<1>3. PICK n \in T : \A m \in T : n <= m
  <2> HIDE DEF T
  <2> QED BY <1>2, LeastElement
<1>4. PICK u \in V : u.no > v.no /\ u.no = n
  BY <1>3
<1>5. \A x \in V : x.no > v.no => u.no <= x.no
  BY <1>3, <1>4
<1>6. d < u.from
  BY <1>1, <1>4, <1>5 DEF NotYetFollowed
<1>7. u.no = w.no \/ u.no < w.no
  BY <1>1, <1>5 DEF Linear
<1>8. u.from <= w.from
  BY <1>7 DEF Linear
<1> QED BY <1>6, <1>8 DEF Linear

LEMMA InForceStands ==
  ASSUME NEW V, Linear(V), NEW d \in Nat
  PROVE  InForceOn(V, d) = {v \in V : Stands(V, v, d)}
BY NextDecides DEF InForceOn, Stands

(* At most one version stands on a day, and a read answers with it. *)
LEMMA AnswerStands ==
  ASSUME NEW V, Linear(V), NEW d \in Nat
  PROVE  /\ \A v : Stands(V, v, d) => Answer(V, d) = v
         /\ (\A v \in V : ~Stands(V, v, d)) => Answer(V, d) = Unknown
<1>1. ASSUME NEW v, NEW w, Stands(V, v, d), Stands(V, w, d) PROVE v = w
  <2>1. v.no = w.no \/ v.no < w.no \/ w.no < v.no
    BY <1>1 DEF Stands, Linear
  <2> QED BY <1>1, <2>1 DEF Stands, Linear
<1>2. ASSUME NEW v, Stands(V, v, d) PROVE Answer(V, d) = v
  <2>1. InForceOn(V, d) = {v}
    BY <1>1, <1>2, InForceStands DEF Stands
  <2> QED BY <2>1 DEF Answer
<1>3. (\A v \in V : ~Stands(V, v, d)) => Answer(V, d) = Unknown
  BY InForceStands DEF Answer
<1> QED BY <1>2, <1>3

(* An answer is a version that stands, or Unknown. *)
LEMMA AnswerCases ==
  ASSUME NEW V, Linear(V), NEW d \in Nat
  PROVE  \/ Answer(V, d) = Unknown /\ \A v \in V : ~Stands(V, v, d)
         \/ Stands(V, Answer(V, d), d) /\ Answer(V, d).no \in Nat \ {0}
<1>1. CASE \A v \in V : ~Stands(V, v, d)
  BY <1>1, AnswerStands
<1>2. CASE \E v \in V : Stands(V, v, d)
  <2>1. PICK v \in V : Stands(V, v, d)
    BY <1>2
  <2> QED BY <2>1, AnswerStands DEF Linear
<1> QED BY <1>1, <1>2

(* What first reports do to the answers: only version 1 comes, goes or moves. *)
LEMMA ReportsMove ==
  ASSUME NEW V, NEW W, Linear(V), Linear(W), NEW d \in Nat,
         {v \in V : v.no > 1} = {w \in W : w.no > 1}
  PROVE  \/ Answer(W, d) = Answer(V, d)
         \/ Answer(V, d).no <= 1 /\ Answer(W, d).no <= 1
<1>1. Unknown.no = 0
  BY DEF Unknown
<1>2. ASSUME NEW v, v.no > 1 PROVE Stands(V, v, d) <=> Stands(W, v, d)
  <2>1. v \in V <=> v \in W
    BY <1>2
  <2>2. ASSUME NEW x, x.no > v.no, v \in V PROVE x \in V <=> x \in W
    <3>1. ASSUME x \in V \/ x \in W PROVE x.no > 1
      BY <1>2, <2>1, <2>2, <3>1 DEF Linear
    <3> QED BY <3>1
  <2> QED BY <2>1, <2>2 DEF Stands
<1>3. ASSUME Answer(V, d).no > 1 PROVE Answer(W, d) = Answer(V, d)
  <2>1. Stands(V, Answer(V, d), d)
    BY <1>1, <1>3, AnswerCases
  <2> QED BY <1>2, <1>3, <2>1, AnswerStands
<1>4. ASSUME Answer(W, d).no > 1 PROVE Answer(W, d) = Answer(V, d)
  <2>1. Stands(W, Answer(W, d), d)
    BY <1>1, <1>4, AnswerCases
  <2> QED BY <1>2, <1>4, <2>1, AnswerStands
<1>5. Answer(V, d).no \in Nat /\ Answer(W, d).no \in Nat
  BY <1>1, AnswerCases
<1> QED BY <1>3, <1>4, <1>5

(* What a new last version does to the answers: nothing before it is known. *)
LEMMA NewVersionMoves ==
  ASSUME NEW V, NEW n, Linear(V), Linear(V \union {n}), NEW d \in Nat,
         \A v \in V : v.no < n.no, V = {} => n.no = 1,
         NEW t \in Nat, V # {} => n.from >= t
  PROVE  LET old == Answer(V, d)
             new == Answer(V \union {n}, d)
         IN  \/ new = old
             \/ old.no <= 1 /\ new.no <= 1
             \/ d >= t /\ new.no > old.no
<1>1. Unknown.no = 0
  BY DEF Unknown
<1> DEFINE W == V \union {n}
<1>2. n \in W /\ n.no \in Nat \ {0} /\ n.from \in Nat
  BY DEF Linear
<1>3. CASE n.from <= d
  <2>1. Stands(W, n, d)
    BY <1>2, <1>3 DEF Stands, Linear
  <2>2. Answer(W, d) = n
    BY <2>1, AnswerStands
  <2>3. Answer(V, d) = Unknown \/ Answer(V, d) \in V
    BY AnswerCases DEF Stands
  <2>4. CASE V = {}
    BY <1>1, <1>2, <2>2, <2>3, <2>4
  <2>5. CASE V # {}
    BY <1>1, <1>2, <1>3, <2>2, <2>3, <2>5
  <2> QED BY <2>4, <2>5
<1>4. CASE d < n.from
  <2>1. \A v \in V : Stands(V, v, d) <=> Stands(W, v, d)
    BY <1>4 DEF Stands
  <2>2. ~Stands(W, n, d)
    BY <1>2, <1>4 DEF Stands
  <2>3. Answer(W, d) = Answer(V, d)
    <3>1. CASE \E v \in V : Stands(V, v, d)
      BY <2>1, <3>1, AnswerStands
    <3>2. CASE \A v \in V : ~Stands(V, v, d)
      <4>1. \A v \in W : ~Stands(W, v, d)
        BY <2>1, <2>2, <3>2
      <4> QED BY <3>2, <4>1, AnswerStands
    <3> QED BY <3>1, <3>2
  <2> QED BY <2>3
<1> QED BY <1>2, <1>3, <1>4

-----------------------------------------------------------------------------
(* The chain of a period's current versions *)

(* Chained, of one period, with what keeps it: each version but the last ends  *)
(* after it starts, and no later than the versions after it begin.             *)
Chain(H) ==
    /\ \A r, s \in H : r.no = s.no => r = s
    /\ \A r \in H : r.no > 1 => \E s \in H : s.no = r.no - 1 /\ s.to = r.from /\ s.from < r.from
    /\ \A r \in H : r.to = Null <=> \A s \in H : s.no <= r.no
    /\ \A r \in H : r.to # Null => r.from < r.to
    /\ \A r, s \in H : r.no < s.no => r.to # Null /\ r.to <= s.from

(* What a version's numbers are. *)
Numbered(H) == \A r \in H : r.no \in Nat \ {0} /\ r.from \in Nat \ {0} /\ r.to \in Nat

(* A chain has a first version. *)
LEMMA ChainStarts ==
  ASSUME NEW H, Numbered(H), Chain(H), H # {}
  PROVE  \E r \in H : r.no = 1
<1> DEFINE T == {r.no : r \in H}
<1>1. T \subseteq Nat /\ T # {}
  BY DEF Numbered
<1>2. PICK n \in T : \A m \in T : n <= m
  <2> HIDE DEF T
  <2> QED BY <1>1, LeastElement
<1>3. PICK r \in H : r.no = n
  BY <1>2
<1>4. \A s \in H : r.no <= s.no
  BY <1>2, <1>3
<1>5. ~(r.no > 1)
  BY <1>4 DEF Chain, Numbered
<1> QED BY <1>5 DEF Numbered

LEMMA ChainOfOne ==
  ASSUME NEW n, Numbered({n}), n.no = 1, n.to = Null
  PROVE  Chain({n})
BY DEF Chain, Numbered

(* A first report re-dated within its own interval leaves the chain. *)
LEMMA ChainRedated ==
  ASSUME NEW H, Numbered(H), Chain(H), NEW r \in H, r.no = 1,
         NEW n, Numbered({n}), n.no = 1, n.to = r.to, n.to = Null \/ n.from < n.to
  PROVE  Chain((H \ {r}) \union {n})
<1> DEFINE W == (H \ {r}) \union {n}
<1>1. \A s \in H \ {r} : s.no > 1
  BY DEF Chain, Numbered
<1>2. \A q, s \in W : q.no = s.no => q = s
  BY <1>1 DEF Chain
<1>3. ASSUME NEW q \in W, q.no > 1
      PROVE  \E s \in W : s.no = q.no - 1 /\ s.to = q.from /\ s.from < q.from
  <2>1. q \in H
    BY <1>3
  <2>2. PICK s \in H : s.no = q.no - 1 /\ s.to = q.from /\ s.from < q.from
    BY <1>3, <2>1 DEF Chain
  <2>3. CASE s = r
    <3>1. n.to = q.from /\ n.to # Null
      BY <2>1, <2>2, <2>3 DEF Numbered, Null
    <3> QED BY <2>2, <2>3, <3>1
  <2> QED BY <2>2, <2>3
<1>4. \A q \in W : q.to = Null <=> \A s \in W : s.no <= q.no
  BY <1>1 DEF Chain, Numbered
<1>5. \A q \in W : q.to # Null => q.from < q.to
  BY DEF Chain
<1>6. \A q, s \in W : q.no < s.no => q.to # Null /\ q.to <= s.from
  BY <1>1 DEF Chain, Numbered
<1> QED BY <1>2, <1>3, <1>4, <1>5, <1>6 DEF Chain

(* A version that closes the last one follows it. *)
LEMMA ChainExtended ==
  ASSUME NEW H, Numbered(H), Chain(H), NEW f \in H, f.to = Null,
         NEW k \in Nat, k > f.from,
         NEW g, Numbered({g}), g.no = f.no, g.from = f.from, g.to = k,
         NEW n, Numbered({n}), n.no = f.no + 1, n.from = k, n.to = Null
  PROVE  Chain(((H \ {f}) \union {g}) \union {n})
<1> DEFINE W == ((H \ {f}) \union {g}) \union {n}
<1>1. \A s \in H \ {f} : s.no < f.no
  BY DEF Chain, Numbered
<1>2. \A q, s \in W : q.no = s.no => q = s
  BY <1>1 DEF Chain, Numbered
<1>3. ASSUME NEW q \in W, q.no > 1
      PROVE  \E s \in W : s.no = q.no - 1 /\ s.to = q.from /\ s.from < q.from
  <2>1. CASE q = n
    BY <2>1 DEF Numbered
  <2>2. CASE q # n
    <3>1. PICK x \in H : x.no = q.no /\ x.from = q.from
      BY <2>2
    <3>2. PICK s \in H : s.no = q.no - 1 /\ s.to = q.from /\ s.from < q.from
      BY <1>3, <3>1 DEF Chain
    <3>3. s # f
      BY <3>1, <3>2 DEF Numbered, Null
    <3> QED BY <3>2, <3>3
  <2> QED BY <2>1, <2>2
<1>4. \A q \in W : q.to = Null <=> \A s \in W : s.no <= q.no
  <2>1. \A q \in H \ {f} : q.to # Null
    BY <1>1 DEF Chain, Numbered
  <2> QED BY <1>1, <2>1 DEF Numbered, Null
<1>5. \A q \in W : q.to # Null => q.from < q.to
  BY DEF Chain
<1>6. \A q, s \in W : q.no < s.no => q.to # Null /\ q.to <= s.from
  <2>1. \A q \in H \ {f} : q.to # Null /\ q.to <= f.from
    BY <1>1 DEF Chain
  <2>2. \A q \in H \ {f} : q.to <= k /\ q.to \in Nat
    BY <2>1 DEF Numbered
  <2> QED BY <1>1, <2>1, <2>2 DEF Chain, Numbered, Null
<1> QED BY <1>2, <1>3, <1>4, <1>5, <1>6 DEF Chain

-----------------------------------------------------------------------------
(* The statement table, of one period, before and after a plan *)

(* What every table of versions satisfies: rows of the period, loaded and      *)
(* superseded by today, whose current versions form a chain.                   *)
Good(T, p) ==
    /\ T \subseteq Row
    /\ \A r \in T : r.period = p /\ (r.source = "filed" => r.filed # Null)
    /\ \A r \in T : r.loaded <= today /\ r.until <= today
    /\ Chain(Current(T, p))

(* What a read on load day t finds in the table T. *)
Versions(T, t, p) == {Shown(r) : r \in {s \in T : s.period = p /\ Loaded(s, t)}}

Visible(T, p) == {Shown(r) : r \in Current(T, p)}

(* What a load may do to the answers (StatementHistory), whatever the day read. *)
Moves(T, W, p) ==
    /\ \A t \in Nat : t < today => Versions(W, t, p) = Versions(T, t, p)
    /\ \A d \in Nat : History!MayBecome(d, Answer(Visible(T, p), d), Answer(Visible(W, p), d))

(* A row kept, or superseded today. *)
Keeps(r, q) ==
    /\ Shown(r) = Shown(q) /\ r.period = q.period /\ r.loaded = q.loaded
    /\ r.until = q.until \/ (r.until = Null /\ q.until = today)

LEMMA KeepsItself == \A r : Keeps(r, r)
BY DEF Keeps, Shown

LEMMA CurrentNumbered ==
  ASSUME NEW T, NEW p, T \subseteq Row
  PROVE  Numbered(Current(T, p))
BY DEF Numbered, Current, Row

(* Rows kept or superseded, and rows loaded today, leave the days gone by alone. *)
LEMMA PastStands ==
  ASSUME NEW T, NEW W, NEW p, NEW t \in Nat, t < today, today \in Days,
         T \subseteq Row, W \subseteq Row, MaxDay \in Nat,
         \A r \in T : \E q \in W : Keeps(r, q),
         \A q \in W : q.loaded = today \/ \E r \in T : Keeps(r, q)
  PROVE  Versions(W, t, p) = Versions(T, t, p)
<1>1. ASSUME NEW r \in T, NEW q \in W, Keeps(r, q)
      PROVE  /\ Loaded(r, t) <=> Loaded(q, t)
             /\ r.period = q.period /\ Shown(r) = Shown(q)
  BY <1>1 DEF Keeps, Loaded, Row, Days, Null
<1>2. \A q \in W : q.loaded = today => ~Loaded(q, t)
  BY DEF Loaded, Days
<1>3. ASSUME NEW v \in Versions(T, t, p) PROVE v \in Versions(W, t, p)
  <2>1. PICK r \in T : r.period = p /\ Loaded(r, t) /\ v = Shown(r)
    BY <1>3 DEF Versions
  <2>2. PICK q \in W : Keeps(r, q)
    OBVIOUS
  <2>3. q.period = p /\ Loaded(q, t) /\ v = Shown(q)
    BY <1>1, <2>1, <2>2
  <2> QED BY <2>3 DEF Versions
<1>4. ASSUME NEW v \in Versions(W, t, p) PROVE v \in Versions(T, t, p)
  <2>1. PICK q \in W : q.period = p /\ Loaded(q, t) /\ v = Shown(q)
    BY <1>4 DEF Versions
  <2>2. PICK r \in T : Keeps(r, q)
    BY <1>2, <2>1
  <2>3. r.period = p /\ Loaded(r, t) /\ v = Shown(r)
    BY <1>1, <2>1, <2>2
  <2> QED BY <2>3 DEF Versions
<1> QED BY <1>3, <1>4

(* From today on a read finds the current versions, and they are linear. *)
LEMMA TodayIsCurrent ==
  ASSUME NEW T, NEW p, Good(T, p), NEW t \in Nat, today <= t, today \in Nat, MaxDay \in Nat
  PROVE  Versions(T, t, p) = Visible(T, p)
<1>1. \A r \in T : Loaded(r, t) <=> r.until = Null
  BY DEF Good, Loaded, Row, Days, Null
<1> QED BY <1>1 DEF Versions, Visible, Current

LEMMA VisibleLinear ==
  ASSUME NEW T, NEW p, Good(T, p)
  PROVE  Linear(Visible(T, p))
<1> DEFINE H == Current(T, p)
<1>1. Numbered(H) /\ Chain(H)
  BY CurrentNumbered DEF Good
<1>2. \A r \in H : Shown(r).no = r.no /\ Shown(r).from = r.from
  BY DEF Shown
<1>3. \A r, s \in H : r.no < s.no => r.from < s.from
  BY <1>1 DEF Chain, Numbered
<1> HIDE DEF H
<1>4. Visible(T, p) = {Shown(r) : r \in H}
  BY DEF Visible, H
<1> QED BY <1>1, <1>2, <1>3, <1>4 DEF Linear, Chain, Numbered

(* A plan that keeps the versions after the first only moves first reports. *)
LEMMA FirstReportsMove ==
  ASSUME NEW T, NEW W, NEW p, Good(T, p), Good(W, p), today \in Days, MaxDay \in Nat,
         \A r \in T : \E q \in W : Keeps(r, q),
         \A q \in W : q.loaded = today \/ \E r \in T : Keeps(r, q),
         {v \in Visible(T, p) : v.no > 1} = {w \in Visible(W, p) : w.no > 1}
  PROVE  Moves(T, W, p)
<1>1. \A t \in Nat : t < today => Versions(W, t, p) = Versions(T, t, p)
  BY PastStands DEF Good
<1>2. ASSUME NEW d \in Nat
      PROVE  History!MayBecome(d, Answer(Visible(T, p), d), Answer(Visible(W, p), d))
  <2> DEFINE old == Answer(Visible(T, p), d)
             new == Answer(Visible(W, p), d)
  <2>1. Linear(Visible(T, p)) /\ Linear(Visible(W, p))
    BY VisibleLinear
  <2>2. new = old \/ (old.no <= 1 /\ new.no <= 1)
    BY <2>1, ReportsMove
  <2> QED BY <2>2 DEF History!MayBecome
<1> QED BY <1>1, <1>2 DEF Moves

(* One that adds a last version, known from today at the earliest where the    *)
(* period has one, only moves forward.                                         *)
LEMMA NewVersionsMove ==
  ASSUME NEW T, NEW W, NEW p, Good(T, p), Good(W, p), today \in Days, MaxDay \in Nat,
         \A r \in T : \E q \in W : Keeps(r, q),
         \A q \in W : q.loaded = today \/ \E r \in T : Keeps(r, q),
         NEW n, Visible(W, p) = Visible(T, p) \union {n},
         \A v \in Visible(T, p) : v.no < n.no,
         Visible(T, p) = {} => n.no = 1, Visible(T, p) # {} => n.from >= today
  PROVE  Moves(T, W, p)
<1>1. \A t \in Nat : t < today => Versions(W, t, p) = Versions(T, t, p)
  BY PastStands DEF Good
<1>2. ASSUME NEW d \in Nat
      PROVE  History!MayBecome(d, Answer(Visible(T, p), d), Answer(Visible(W, p), d))
  <2> DEFINE V == Visible(T, p)
             old == Answer(V, d)
             new == Answer(V \union {n}, d)
  <2>1. Linear(V) /\ Linear(V \union {n})
    BY VisibleLinear
  <2>2. today \in Nat
    BY DEF Days
  <2>3. \/ new = old
        \/ old.no <= 1 /\ new.no <= 1
        \/ d >= today /\ new.no > old.no
    <3> HIDE DEF V
    <3> QED BY <2>1, <2>2, NewVersionMoves DEF V
  <2> QED BY <2>3 DEF History!MayBecome
<1> QED BY <1>1, <1>2 DEF Moves

(* One plan after another moves as StatementHistory allows. *)
LEMMA MovesCompose ==
  ASSUME NEW T, NEW U, NEW W, NEW p, Good(T, p), Good(U, p), Good(W, p),
         Moves(T, U, p), Moves(U, W, p), MaxDay \in Nat
  PROVE  Moves(T, W, p)
<1>1. ASSUME NEW d \in Nat
      PROVE  History!MayBecome(d, Answer(Visible(T, p), d), Answer(Visible(W, p), d))
  <2>1. \A X : Good(X, p) => Answer(Visible(X, p), d).no \in Nat
    BY VisibleLinear, AnswerCases DEF Unknown
  <2>2. /\ History!MayBecome(d, Answer(Visible(T, p), d), Answer(Visible(U, p), d))
        /\ History!MayBecome(d, Answer(Visible(U, p), d), Answer(Visible(W, p), d))
    BY <1>1 DEF Moves
  <2> QED BY <2>1, <2>2, SMT DEF History!MayBecome
<1> QED BY <1>1 DEF Moves

-----------------------------------------------------------------------------
(* What one period's plan does *)

ReadFirst == [filed : Days, figure : Figures, terms : Nat]
ReadLater == [figure : Figures, terms : Nat]

LEMMA SplitsCounted ==
  ASSUME splits \subseteq Days, MaxDay \in Nat, NEW d
  PROVE  SplitsAfter(d) \in Nat
<1>1. IsFiniteSet(1..MaxDay)
  BY FS_Interval
<1>2. IsFiniteSet({s \in splits : s > d})
  BY <1>1, FS_Subset DEF Days
<1> QED BY <1>2, FS_CardinalityType DEF SplitsAfter

LEMMA FirstReportedMoves ==
  ASSUME NEW p \in Periods, NEW T, Good(T, p), today \in Days, splits \subseteq Days,
         MaxDay \in Nat, NEW row \in ReadFirst
  PROVE  Good(FirstReported(T, p, row), p) /\ Moves(T, FirstReported(T, p, row), p)
<1> DEFINE H == Current(T, p)
           first == {r \in H : r.no = 1}
           new == Filed(p, row)
           corrected == {r \in first : ~Unchanged(r, new) /\ ~Refused(r, new)}
           W == FirstReported(T, p, row)
<1>1. /\ new \in Row /\ new.period = p /\ new.no = 1 /\ new.to = Null
      /\ new.source = "filed" /\ new.filed # Null /\ new.loaded = today /\ new.until = Null
  <2>1. SplitsAfter(row.filed) \in Nat
    BY SplitsCounted
  <2>2. Shares(row.terms, row.filed) \in Int
    BY <2>1 DEF Shares, ReadFirst
  <2> QED BY <2>2 DEF Filed, Row, ReadFirst, Days, Null
<1>2. Numbered(H) /\ Chain(H) /\ H \subseteq T
  BY CurrentNumbered DEF Good, Current
<1>3. CASE first = {}
  <2>1. H = {}
    BY <1>2, <1>3, ChainStarts
  <2>2. W = T \union {new}
    BY <1>3 DEF FirstReported
  <2>3. Current(W, p) = {new}
    BY <1>1, <2>1, <2>2 DEF Current
  <2>4. Numbered({new})
    BY <1>1 DEF Numbered, Row
  <2> HIDE DEF W, new, H
  <2>5. Good(W, p)
    BY <1>1, <2>2, <2>3, <2>4, ChainOfOne DEF Good, Days, Null
  <2>6. \A r \in T : Keeps(r, r)
    BY KeepsItself
  <2>7. {v \in Visible(T, p) : v.no > 1} = {w \in Visible(W, p) : w.no > 1}
    BY <1>1, <2>1, <2>3 DEF Visible, Shown, H
  <2> QED BY <1>1, <2>2, <2>5, <2>6, <2>7, FirstReportsMove DEF W
<1>4. CASE first # {} /\ corrected = {}
  <2>1. W = T
    BY <1>4 DEF FirstReported
  <2>2. \A r \in T : Keeps(r, r)
    BY KeepsItself
  <2> HIDE DEF W, new, H
  <2> QED BY <2>1, <2>2, FirstReportsMove DEF W
<1>5. CASE first # {} /\ corrected # {}
  <2>1. PICK r \in corrected : TRUE
    BY <1>5
  <2>2. corrected = {r} /\ r \in H /\ r.no = 1
    BY <1>2, <2>1 DEF Chain
  <2> DEFINE x == [r EXCEPT !.until = today]
             n == [new EXCEPT !.to = r.to]
  <2>3. W = ((T \ {r}) \union {x}) \union {n}
    BY <1>5, <2>2 DEF FirstReported
  <2>4. r \in Row /\ r \in T /\ r.period = p /\ r.until = Null
    BY <2>2 DEF Good, Current
  <2>5. /\ x \in Row /\ x.period = p /\ x.source = r.source /\ x.filed = r.filed
        /\ x.loaded = r.loaded /\ x.until = today /\ Keeps(r, x)
    BY <2>4, Zenon DEF Row, Keeps, Shown
  <2>6. n \in Row /\ n.to = r.to /\ n.period = p /\ n.no = 1 /\ n.from = new.from
        /\ n.source = "filed" /\ n.filed = new.filed /\ n.loaded = today /\ n.until = Null
    <3>1. r.to \in Nat
      BY <2>4 DEF Row
    <3> HIDE DEF new
    <3> QED BY <1>1, <3>1, Zenon DEF Row
  <2>7. n.to = Null \/ n.from < n.to
    <3>1. ~Refused(r, new)
      BY <2>1
    <3>2. r.to \in Nat /\ new.from \in Nat
      BY <1>1, <2>4 DEF Row
    <3> HIDE DEF new, n
    <3> QED BY <2>6, <3>1, <3>2 DEF Refused
  <2>8. Current(W, p) = (H \ {r}) \union {n}
    <3>1. x.until # Null
      BY <2>5 DEF Days, Null
    <3> HIDE DEF x, n
    <3> QED BY <2>3, <2>6, <3>1 DEF Current
  <2> HIDE DEF W, new, H, x, n, corrected, first
  <2>9. Chain(Current(W, p))
    <3>1. Numbered({n})
      BY <2>6 DEF Numbered, Row
    <3> QED BY <1>2, <2>2, <2>6, <2>7, <2>8, <3>1, ChainRedated
  <2>10. Good(W, p)
    BY <1>1, <2>3, <2>4, <2>5, <2>6, <2>9 DEF Good, Days, Null
  <2>11. \A s \in T : Keeps(s, s)
    BY KeepsItself
  <2>12. \A s \in T : \E q \in W : Keeps(s, q)
    BY <2>3, <2>5, <2>11
  <2>13. \A q \in W : q.loaded = today \/ \E s \in T : Keeps(s, q)
    BY <2>3, <2>4, <2>5, <2>6, <2>11
  <2>14. {v \in Visible(T, p) : v.no > 1} = {w \in Visible(W, p) : w.no > 1}
    <3>1. \A s : Shown(s).no = s.no
      BY DEF Shown
    <3>2. Visible(T, p) = {Shown(s) : s \in H} /\ Visible(W, p) = {Shown(s) : s \in (H \ {r}) \union {n}}
      BY <2>8 DEF Visible, H
    <3> QED BY <2>2, <2>6, <3>1, <3>2
  <2> QED BY <2>10, <2>12, <2>13, <2>14, FirstReportsMove DEF W
<1> QED BY <1>3, <1>4, <1>5

LEMMA RestatedMoves ==
  ASSUME NEW p \in Periods, NEW T, Good(T, p), today \in Days, splits \subseteq Days,
         MaxDay \in Nat, NEW row \in ReadLater, NEW filings, \A f \in filings : f.filed \in Days
  PROVE  Good(Restated(T, p, row, filings), p) /\ Moves(T, Restated(T, p, row, filings), p)
<1> DEFINE H == Current(T, p)
           closed == {r \in InForce(T, p) : Moved(r, Compared(r, row), FALSE)}
           W == Restated(T, p, row, filings)
<1>1. Numbered(H) /\ Chain(H) /\ H \subseteq T
  BY CurrentNumbered DEF Good, Current
<1>2. \A r \in T : Keeps(r, r)
  BY KeepsItself
<1>3. \A r : Shown(r).no = r.no /\ Shown(r).from = r.from
  BY DEF Shown
<1>4. CASE H = {}
  <2> DEFINE n == RestatedAlone(p, row, filings)
             later == NextFiling(filings, p)
             from == IF later = {} THEN today ELSE Min(later)
  <2>1. from \in Days
    <3>1. later \subseteq Days /\ later \subseteq Nat
      BY DEF NextFiling, Days
    <3>2. later # {} => \E d \in later : \A e \in later : d <= e
      <4> HIDE DEF later
      <4>1. SUFFICES ASSUME later # {} PROVE \E d \in later : \A e \in later : d <= e
        OBVIOUS
      <4> QED BY <3>1, <4>1, LeastElement
    <3> HIDE DEF later
    <3>3. later # {} => Min(later) \in later
      BY <3>2 DEF Min
    <3> QED BY <3>1, <3>3
  <2>2. /\ n \in Row /\ n.period = p /\ n.no = 1 /\ n.to = Null /\ n.source # "filed"
        /\ n.loaded = today /\ n.until = Null
    <3>1. Shares(row.terms, from) \in Int
      BY SplitsCounted DEF Shares, ReadLater
    <3> HIDE DEF later, from
    <3>2. n = [period |-> p, no |-> 1, from |-> from, to |-> Null,
               source |-> IF later = {} THEN "observed" ELSE "estimated",
               filed |-> Null, figure |-> row.figure,
               shares |-> Shares(row.terms, from), cover |-> NoCount,
               loaded |-> today, until |-> Null]
      BY DEF RestatedAlone, from, later
    <3> HIDE DEF n
    <3> QED BY <2>1, <3>1, <3>2 DEF Row, ReadLater, Days, Null, NoCount
  <2>3. W = T \union {n}
    BY <1>4 DEF Restated
  <2>4. Current(W, p) = {n}
    BY <1>4, <2>2, <2>3 DEF Current
  <2> HIDE DEF W, n, H
  <2>5. Numbered({n})
    BY <2>2 DEF Numbered, Row
  <2>6. Good(W, p)
    <3>1. Chain(Current(W, p))
      BY <2>2, <2>4, <2>5, ChainOfOne
    <3> QED BY <2>2, <2>3, <3>1 DEF Good, Days, Null
  <2>7. Visible(T, p) = {} /\ Visible(W, p) = Visible(T, p) \union {Shown(n)}
    BY <1>4, <2>4 DEF Visible, H
  <2> QED BY <1>2, <1>3, <2>2, <2>3, <2>6, <2>7, NewVersionsMove DEF W
<1>5. CASE H # {} /\ closed = {}
  <2>1. W = T
    BY <1>5 DEF Restated
  <2> HIDE DEF W, closed, H
  <2> QED BY <1>2, <2>1, FirstReportsMove DEF W
<1>6. CASE H # {} /\ closed # {}
  <2>1. PICK f \in closed : TRUE
    BY <1>6
  <2>2. f \in H /\ f.to = Null
    BY <2>1 DEF InForce
  <2>3. closed = {f}
    <3>1. \A r \in closed : r \in H /\ r.to = Null
      BY DEF InForce
    <3>2. ASSUME NEW r \in closed PROVE r.no = f.no
      <4>1. r.no <= f.no /\ f.no <= r.no
        BY <1>1, <2>2, <3>1 DEF Chain
      <4>2. r \in H /\ f \in H
        BY <2>2, <3>1
      <4> HIDE DEF H, closed
      <4>3. r.no \in Nat /\ f.no \in Nat
        BY <1>1, <4>2 DEF Numbered
      <4> QED BY <4>1, <4>3
    <3> QED BY <1>1, <2>1, <2>2, <3>1, <3>2 DEF Chain
  <2> DEFINE k == KnownFrom(f)
             g == [f EXCEPT !.to = k]
             n == Restatement(H, f, row)
  <2>4. W = ((T \ {f}) \union {g}) \union {n}
    BY <1>6, <2>3 DEF Restated
  <2>5. f \in Row /\ f \in T /\ f.period = p /\ f.until = Null
    BY <2>2 DEF Good, Current
  <2>6. k \in Nat \ {0} /\ k > f.from /\ k >= today
    BY <2>5 DEF KnownFrom, Row, Days
  <2>7. /\ g \in Row /\ g.period = p /\ g.source = f.source /\ g.filed = f.filed /\ g.to = k
        /\ g.no = f.no /\ g.from = f.from /\ g.loaded = f.loaded /\ g.until = f.until
        /\ Keeps(f, g) /\ Shown(g) = Shown(f)
    BY <2>5, <2>6, Zenon DEF Row, Keeps, Shown
  <2>8. Max({r.no : r \in H}) = f.no
    <3>1. \A r \in H : r.no <= f.no
      BY <1>1, <2>2 DEF Chain
    <3>2. f.no \in {r.no : r \in H} /\ \A m \in {r.no : r \in H} : m <= f.no /\ m \in Nat
      BY <1>1, <2>2, <3>1 DEF Numbered
    <3>3. \A S : f.no \in S /\ (\A m \in S : m <= f.no /\ m \in Nat) => Max(S) = f.no
      BY DEF Max
    <3> QED BY <3>2, <3>3
  <2>9. /\ n \in Row /\ n.period = p /\ n.no = f.no + 1 /\ n.from = k /\ n.to = Null
        /\ n.source # "filed" /\ n.loaded = today /\ n.until = Null
    <3>1. Shares(row.terms, k) \in Int
      BY SplitsCounted DEF Shares, ReadLater
    <3>2. f.cover + (SplitsAfter(f.from) - SplitsAfter(k)) \in Int
      BY <2>5, SplitsCounted DEF Row
    <3> DEFINE c == IF f.cover = NoCount THEN NoCount
                    ELSE f.cover + (SplitsAfter(f.from) - SplitsAfter(k))
    <3>3. c \in Int
      BY <3>2 DEF NoCount
    <3> HIDE DEF k, c, H
    <3>4. n = [period |-> f.period, no |-> f.no + 1, from |-> k, to |-> Null,
               source |-> "observed", filed |-> Null, figure |-> row.figure,
               shares |-> Shares(row.terms, k), cover |-> c,
               loaded |-> today, until |-> Null]
      BY <2>8 DEF Restatement, k, c
    <3> HIDE DEF n
    <3> QED BY <2>5, <2>6, <3>1, <3>3, <3>4 DEF Row, ReadLater, Days, Null
  <2>10. Current(W, p) = ((H \ {f}) \union {g}) \union {n}
    <3> HIDE DEF g, n, k
    <3> QED BY <2>4, <2>5, <2>7, <2>9 DEF Current
  <2> HIDE DEF W, H, k, g, n, closed
  <2>11. Chain(Current(W, p))
    <3>1. Numbered({g}) /\ Numbered({n})
      BY <2>7, <2>9 DEF Numbered, Row
    <3>2. Chain(((H \ {f}) \union {g}) \union {n})
      BY <1>1, <2>2, <2>6, <2>7, <2>9, <3>1, ChainExtended
    <3> QED BY <2>10, <3>2
  <2>12. Good(W, p)
    BY <2>4, <2>5, <2>7, <2>9, <2>11 DEF Good, Days, Null
  <2>13. \A s \in T : \E q \in W : Keeps(s, q)
    BY <1>2, <2>4, <2>7
  <2>14. \A q \in W : q.loaded = today \/ \E s \in T : Keeps(s, q)
    BY <1>2, <2>4, <2>5, <2>7, <2>9
  <2>15. Visible(W, p) = Visible(T, p) \union {Shown(n)} /\ Visible(T, p) # {}
    <3>1. Visible(T, p) = {Shown(s) : s \in H}
      BY DEF Visible, H
    <3>2. Visible(W, p) = {Shown(s) : s \in ((H \ {f}) \union {g}) \union {n}}
      BY <2>10 DEF Visible
    <3>3. f \in H /\ Shown(g) = Shown(f)
      BY <2>2, <2>7
    <3> QED BY <3>1, <3>2, <3>3
  <2>16. \A v \in Visible(T, p) : v.no < Shown(n).no
    BY <1>1, <1>3, <2>2, <2>9 DEF Visible, H, Chain, Numbered
  <2>17. Shown(n).from >= today
    BY <1>3, <2>6, <2>9
  <2> QED BY <2>12, <2>13, <2>14, <2>15, <2>16, <2>17, NewVersionsMove DEF W
<1> QED BY <1>4, <1>5, <1>6

LEMMA StaysPut ==
  ASSUME NEW T, NEW p, Good(T, p), today \in Days, MaxDay \in Nat
  PROVE  Moves(T, T, p)
BY KeepsItself, FirstReportsMove

LEMMA PlannedMoves ==
  ASSUME NEW p \in Periods, NEW T, Good(T, p), today \in Days, splits \subseteq Days,
         MaxDay \in Nat, NEW said, said.first \subseteq ReadFirst, said.later \subseteq ReadLater,
         NEW filings, \A f \in filings : f.filed \in Days
  PROVE  Good(Planned(T, p, said, filings), p) /\ Moves(T, Planned(T, p, said, filings), p)
<1> DEFINE U == IF said.first = {} THEN T
                ELSE FirstReported(T, p, CHOOSE r \in said.first : TRUE)
           W == IF said.later = {} THEN U
                ELSE Restated(U, p, CHOOSE r \in said.later : TRUE, filings)
<1>1. Good(U, p) /\ Moves(T, U, p)
  <2>1. CASE said.first = {}
    BY <2>1, StaysPut
  <2>2. CASE said.first # {}
    <3>1. (CHOOSE r \in said.first : TRUE) \in ReadFirst
      BY <2>2
    <3> QED BY <2>2, <3>1, FirstReportedMoves
  <2> QED BY <2>1, <2>2
<1> HIDE DEF U
<1>2. Good(W, p) /\ Moves(U, W, p)
  <2>1. CASE said.later = {}
    BY <1>1, <2>1, StaysPut
  <2>2. CASE said.later # {}
    <3>1. (CHOOSE r \in said.later : TRUE) \in ReadLater
      BY <2>2
    <3> QED BY <1>1, <2>2, <3>1, RestatedMoves
  <2> QED BY <2>1, <2>2
<1>3. Planned(T, p, said, filings) = W
  BY DEF Planned, U
<1> HIDE DEF W
<1> QED BY <1>1, <1>2, <1>3, MovesCompose

(* What the files a load reads hold. *)
LEMMA ReadTypes ==
  ASSUME NEW files \in Seq(File1), NEW p \in Periods
  PROVE  Said(files)[p].first \subseteq ReadFirst /\ Said(files)[p].later \subseteq ReadLater
<1>1. ASSUME NEW f \in File1
      PROVE  Rows(f, p).first \subseteq ReadFirst /\ Rows(f, p).later \subseteq ReadLater
  <2>1. f.reports[p] \subseteq Report /\ f.restated[p] \in Figures \union {NoFigure} /\ f.terms \in Nat
    BY DEF File1
  <2>2. FirstFiling(f.reports[p]) \subseteq Report
    BY <2>1 DEF FirstFiling
  <2>3. Rows(f, p).first = {[filed |-> r.filed, figure |-> r.figure, terms |-> f.terms]
                            : r \in FirstFiling(f.reports[p])}
    BY DEF Rows
  <2>4. Rows(f, p).first \subseteq ReadFirst
    BY <2>1, <2>2, <2>3 DEF Report, ReadFirst
  <2>5. Rows(f, p).later = IF f.restated[p] = NoFigure THEN {}
                           ELSE {[figure |-> f.restated[p], terms |-> f.terms]}
    BY DEF Rows
  <2> QED BY <2>1, <2>4, <2>5 DEF ReadLater
<1>2. \A i \in DOMAIN files : files[i] \in File1
  OBVIOUS
<1>3. ASSUME NEW S, NEW found, \A i \in DOMAIN found : found[i] \subseteq S
      PROVE  Newest(found) \subseteq S
  BY <1>3 DEF Newest
<1>4. Newest([i \in DOMAIN files |-> Rows(files[i], p).first]) \subseteq ReadFirst
  BY <1>1, <1>2, <1>3
<1>5. Newest([i \in DOMAIN files |-> Rows(files[i], p).later]) \subseteq ReadLater
  BY <1>1, <1>2, <1>3
<1>6. Said(files)[p] = Merged(files, p)
  BY DEF Said
<1> QED BY <1>4, <1>5, <1>6 DEF Merged

-----------------------------------------------------------------------------
(* The whole table *)

Of(T, p) == {r \in T : r.period = p}

(* The filings a plan looks at are of days. *)
LEMMA FilingsOnDays ==
  ASSUME rows \subseteq Row, \A p \in Periods : Good(Of(rows, p), p),
         NEW said, \A p \in Periods : said[p].first \subseteq ReadFirst
  PROVE  \A f \in Filings(rows, said) : f.filed \in Days
<1>1. ASSUME NEW r \in rows, r.source = "filed" PROVE r.filed \in Days
  <2>1. r.period \in Periods /\ r \in Of(rows, r.period)
    BY DEF Of, Row
  <2>2. r.filed # Null /\ r \in Row
    BY <1>1, <2>1 DEF Good
  <2> QED BY <2>2 DEF Row
<1>2. \A p \in Periods : \A r \in said[p].first : r.filed \in Days
  BY DEF ReadFirst
<1> DEFINE of(p) == {[period |-> p, filed |-> r.filed] : r \in said[p].first}
           read == UNION {of(p) : p \in Periods}
           held == {[period |-> r.period, filed |-> r.filed]
                    : r \in {s \in rows : s.until = Null /\ s.source = "filed"}}
<1>3. Filings(rows, said) = read \union held
  BY DEF Filings
<1>4. ASSUME NEW f \in held PROVE f.filed \in Days
  BY <1>1
<1>5. ASSUME NEW f \in read PROVE f.filed \in Days
  <2>1. PICK p \in Periods : f \in of(p)
    BY Zenon
  <2> QED BY <1>2, <2>1
<1> HIDE DEF read, held
<1> QED BY <1>3, <1>4, <1>5

LEMMA WrittenMoves ==
  ASSUME rows \subseteq Row, \A p \in Periods : Good(Of(rows, p), p),
         today \in Days, splits \subseteq Days, MaxDay \in Nat,
         NEW files \in Seq(File1)
  PROVE  LET W == Written(rows, Said(files))
         IN  /\ W \subseteq Row
             /\ \A p \in Periods : Good(Of(W, p), p) /\ Moves(Of(rows, p), Of(W, p), p)
<1> DEFINE said == Said(files)
           filings == Filings(rows, said)
           plan(p) == Planned(Of(rows, p), p, said[p], filings)
           W == Written(rows, said)
<1>1. \A p \in Periods : said[p].first \subseteq ReadFirst /\ said[p].later \subseteq ReadLater
  BY ReadTypes
<1>2. \A f \in filings : f.filed \in Days
  BY <1>1, FilingsOnDays
<1> HIDE DEF said, filings
<1>3. \A p \in Periods : Good(plan(p), p) /\ Moves(Of(rows, p), plan(p), p)
  BY <1>1, <1>2, PlannedMoves
<1>4. W = UNION {plan(p) : p \in Periods}
  BY DEF Written, Of, filings
<1> HIDE DEF plan, W
<1>5. \A p \in Periods : plan(p) \subseteq Row /\ \A r \in plan(p) : r.period = p
  BY <1>3 DEF Good
<1>6. \A p \in Periods : Of(W, p) = plan(p)
  BY <1>4, <1>5 DEF Of
<1> QED BY <1>3, <1>4, <1>5, <1>6 DEF W, said

-----------------------------------------------------------------------------
(* The inductive invariant *)

(* A night runs on a day of the model, and a full file was recorded no later   *)
(* than the deltas that wait.                                                  *)
Clock ==
    /\ phase = "night" => today <= MaxDay
    /\ full.after <= Len(pending)

Inv == TypeOK /\ Clock /\ \A p \in Periods : Good(Of(rows, p), p)

(* What a step does to the table, if it does anything. *)
RowsStep ==
    /\ today \in Days /\ rows' \subseteq Row
    /\ \A p \in Periods : Good(Of(rows', p), p) /\ Moves(Of(rows, p), Of(rows', p), p)

LEMMA InitInv == Init => Inv
<1> SUFFICES ASSUME Init PROVE Inv
  OBVIOUS
<1>1. NoFull.file \in File1 /\ NoFull.after = 0
  BY ConstantsAssumption DEF NoFull, File1
<1>2. full \in [file : File1, after : Nat]
  BY <1>1 DEF NoFull, Init
<1>3. TypeOK
  <2>1. today \in 1..(MaxDay + 1) /\ phase \in {"day", "night"}
    BY ConstantsAssumption DEF Init
  <2>2. /\ reports \in [Periods -> SUBSET Report]
        /\ restated \in [Periods -> [figure : Figures \union {NoFigure}, fresh : BOOLEAN]]
    BY DEF Init, NoRow
  <2>3. splits \subseteq Days /\ rows \subseteq Row /\ pending \in Seq(File1)
    BY DEF Init
  <2>4. spent \in [events : Nat, fails : Nat, fulls : Nat]
    BY DEF Init
  <2>5. backfilled \in BOOLEAN
    BY DEF Init
  <2> QED BY <1>2, <2>1, <2>2, <2>3, <2>4, <2>5 DEF TypeOK
<1>4. Clock
  BY <1>1 DEF Init, Clock
<1>5. \A p \in Periods : Good(Of(rows, p), p)
  BY DEF Init, Good, Of, Current, Chain
<1> QED BY <1>3, <1>4, <1>5 DEF Inv

(* Every step leaves the table alone, or writes what a plan may write. *)
LEMMA RowsMove ==
  ASSUME Inv, [Next]_vars
  PROVE  RowsStep \/ (today' = today /\ rows' = rows)
<1>1. /\ TypeOK /\ MaxDay \in Nat /\ rows \subseteq Row /\ splits \subseteq Days
      /\ full.file \in File1 /\ pending \in Seq(File1) /\ today \in Nat
  BY ConstantsAssumption DEF Inv, TypeOK
<1>2. \A p \in Periods : Good(Of(rows, p), p)
  BY DEF Inv
<1>3. ASSUME today <= MaxDay PROVE today \in Days
  BY <1>1, <1>3 DEF Days, TypeOK
<1>4. ASSUME today <= MaxDay, NEW files \in Seq(File1), rows' = Written(rows, Said(files))
      PROVE  RowsStep
  BY <1>1, <1>2, <1>3, <1>4, WrittenMoves DEF RowsStep
<1>5. ASSUME today <= MaxDay, rows' = rows PROVE RowsStep
  BY <1>1, <1>2, <1>3, <1>5, StaysPut DEF RowsStep
<1>6. CASE World
  BY <1>6 DEF World, File, Restate, Fix, Split
<1>7. CASE FetchFull \/ FetchDelta \/ FetchFails
  BY <1>7 DEF FetchFull, FetchDelta, FetchFails
<1>8. ASSUME NEW done \in BOOLEAN, Backfill(done) PROVE RowsStep
  <2>1. today <= MaxDay /\ rows' = Written(rows, Said(<<full.file>>))
    BY <1>8 DEF Backfill, Daytime
  <2>2. <<full.file>> \in Seq(File1)
    BY <1>1
  <2> QED BY <1>4, <2>1, <2>2
<1>9. phase = "night" => today <= MaxDay
  BY DEF Inv, Clock
<1>10. CASE Waits
  BY <1>5, <1>9, <1>10 DEF Waits
<1>11. CASE Load
  BY <1>1, <1>4, <1>9, <1>11 DEF Load
<1>12. ASSUME NEW wrote \in BOOLEAN, LoadBreaks(wrote) PROVE RowsStep
  <2>1. today <= MaxDay
    BY <1>9, <1>12 DEF LoadBreaks
  <2>2. rows' = Written(rows, Said(pending)) \/ rows' = rows
    BY <1>12 DEF LoadBreaks
  <2> QED BY <1>1, <1>4, <1>5, <2>1, <2>2
<1>13. CASE UNCHANGED vars
  BY <1>13 DEF vars
<1> QED BY <1>6, <1>7, <1>8, <1>10, <1>11, <1>12, <1>13 DEF Next, IngestFundamentals

(* The table stays good as the days pass. *)
LEMMA TableStep ==
  ASSUME Inv, [Next]_vars, today' \in {today, today + 1}
  PROVE  rows' \subseteq Row /\ \A p \in Periods : Good(Of(rows, p), p)'
<1>1. today \in Nat /\ rows \subseteq Row /\ \A p \in Periods : Good(Of(rows, p), p)
  BY DEF Inv, TypeOK
<1>2. today <= today'
  BY <1>1
<1>3. ASSUME NEW T, NEW p, Good(T, p)
      PROVE  \A r \in T : r.loaded <= today' /\ r.until <= today'
  <2>1. \A r \in T : r.loaded \in Nat /\ r.until \in Nat
    BY <1>3, ConstantsAssumption DEF Good, Row, Days, Null
  <2> QED BY <1>1, <1>2, <1>3, <2>1 DEF Good
<1>4. rows' \subseteq Row /\ \A p \in Periods : Good(Of(rows', p), p)
  BY <1>1, RowsMove DEF RowsStep
<1>5. ASSUME NEW p \in Periods PROVE Good(Of(rows, p), p)'
  <2>1. Of(rows, p)' = Of(rows', p)
    BY DEF Of
  <2>2. Good(Of(rows', p), p)
    BY <1>4
  <2> QED BY <1>3, <2>1, <2>2 DEF Good
<1> QED BY <1>4, <1>5

Sf1Types ==
    /\ reports \in [Periods -> SUBSET Report]
    /\ restated \in [Periods -> [figure : Figures \union {NoFigure}, fresh : BOOLEAN]]
    /\ splits \subseteq Days

LEMMA StampedTypes ==
  ASSUME NEW S, S \subseteq Report
  PROVE  /\ Stamped(S) \subseteq Report
         /\ {[r EXCEPT !.fresh = TRUE] : r \in S} \subseteq Report
         /\ {[r EXCEPT !.fresh = FALSE] : r \in S} \subseteq Report
BY DEF Stamped, Report

(* What SF1 does leaves SF1's rows. *)
LEMMA WorldTypes ==
  ASSUME Sf1Types, today \in 1..(MaxDay + 1), World, MaxDay \in Nat
  PROVE  Sf1Types' /\ today <= MaxDay /\ today' = today
<1> USE DEF Sf1Types, Event, Daytime
<1>1. \A f \in Figures : Served(f) \in [figure : Figures \union {NoFigure}, fresh : BOOLEAN]
  BY DEF Served
<1>2. \A p \in Periods : Restamped(p) \in [figure : Figures \union {NoFigure}, fresh : BOOLEAN]
  BY DEF Restamped, Served
<1>3. \A p \in Periods : Stamped(reports[p]) \subseteq Report
  BY StampedTypes
<1>4. \A d \in Days, f \in Figures : [filed |-> d, figure |-> f, fresh |-> TRUE] \in Report
  BY DEF Report
<1>5. ASSUME NEW p \in Periods, NEW f \in Figures, NEW d \in Days, File(p, f, d)
      PROVE  Sf1Types' /\ today <= MaxDay /\ today' = today
  BY <1>1, <1>3, <1>4, <1>5 DEF File
<1>6. ASSUME NEW p \in Periods, NEW f \in Figures, Restate(p, f)
      PROVE  Sf1Types' /\ today <= MaxDay /\ today' = today
  BY <1>1, <1>3, <1>6 DEF Restate
<1>7. ASSUME NEW p \in Periods, NEW r \in reports[p], NEW f \in Figures, NEW d \in Days,
             Fix(p, r, f, d)
      PROVE  Sf1Types' /\ today <= MaxDay /\ today' = today
  <2>1. Stamped(reports[p] \ {r}) \subseteq Report
    BY StampedTypes
  <2> QED BY <1>2, <1>4, <1>7, <2>1 DEF Fix
<1>8. CASE Split
  <2>1. \A p \in Periods : {[r EXCEPT !.fresh = TRUE] : r \in reports[p]} \subseteq Report
    BY StampedTypes
  <2>2. reports' \in [Periods -> SUBSET Report]
    BY <1>8, <2>1 DEF Split
  <2>3. \A p \in Periods : (IF restated[p] = NoRow THEN NoRow ELSE Served(restated[p].figure))
                           \in [figure : Figures \union {NoFigure}, fresh : BOOLEAN]
    BY DEF NoRow, Served
  <2>4. restated' \in [Periods -> [figure : Figures \union {NoFigure}, fresh : BOOLEAN]]
    BY <1>8, <2>3 DEF Split
  <2>5. splits' \subseteq Days
    BY <1>8 DEF Split, Days
  <2> QED BY <1>8, <2>2, <2>4, <2>5 DEF Split
<1> QED BY <1>5, <1>6, <1>7, <1>8 DEF World

(* A file recorded from SF1's rows is a file. *)
LEMMA ListingTypes ==
  ASSUME Sf1Types, today \in Days, MaxDay \in Nat,
         NEW R \in [Periods -> SUBSET Report], NEW M \in [Periods -> Figures \union {NoFigure}]
  PROVE  Listing(R, M) \in File1
<1>1. IsFiniteSet(splits)
  <2>1. IsFiniteSet(1..MaxDay)
    BY FS_Interval
  <2> QED BY <2>1, FS_Subset DEF Sf1Types, Days
<1>2. Cardinality(splits) \in Nat
  BY <1>1, FS_CardinalityType
<1> QED BY <1>2 DEF Listing, File1, Days

(* The variables a step changes, the table aside, keep their types. *)
LEMMA TypesStep ==
  ASSUME Inv, [Next]_vars
  PROVE  /\ Sf1Types' /\ Clock' /\ today' \in {today, today + 1} /\ today' \in 1..(MaxDay + 1)
         /\ phase' \in {"day", "night"} /\ backfilled' \in BOOLEAN
         /\ full' \in [file : File1, after : Nat] /\ pending' \in Seq(File1)
         /\ spent' \in [events : Nat, fails : Nat, fulls : Nat]
<1> DEFINE Goal == /\ Sf1Types' /\ Clock' /\ today' \in {today, today + 1} /\ today' \in 1..(MaxDay + 1)
                   /\ phase' \in {"day", "night"} /\ backfilled' \in BOOLEAN
                   /\ full' \in [file : File1, after : Nat] /\ pending' \in Seq(File1)
                   /\ spent' \in [events : Nat, fails : Nat, fulls : Nat]
<1>1. /\ Sf1Types /\ Clock /\ today \in 1..(MaxDay + 1) /\ MaxDay \in Nat
      /\ phase \in {"day", "night"} /\ backfilled \in BOOLEAN
      /\ full \in [file : File1, after : Nat] /\ pending \in Seq(File1)
      /\ spent \in [events : Nat, fails : Nat, fulls : Nat]
  BY ConstantsAssumption DEF Inv, TypeOK, Sf1Types
<1>2. \A what \in {"events", "fails", "fulls"} :
          [spent EXCEPT ![what] = @ + 1] \in [events : Nat, fails : Nat, fulls : Nat]
  BY <1>1
<1>3. NoFull \in [file : File1, after : Nat] /\ NoFull.after = 0
  BY ConstantsAssumption DEF NoFull, File1
<1>4. Unpassed \in [file : File1, after : Nat] /\ Unpassed.after <= Len(pending)
  BY <1>1, <1>3 DEF Unpassed, Clock
<1>5. CASE World
  <2>1. Sf1Types' /\ today <= MaxDay /\ today' = today
    BY <1>1, <1>5, WorldTypes
  <2>2. Spend("events") /\ UNCHANGED <<phase, full, pending, backfilled>>
    BY <1>5 DEF World, File, Restate, Fix, Split, ledger
  <2> QED BY <1>1, <1>2, <2>1, <2>2 DEF Spend, Clock
<1>6. CASE FetchFull
  <2>1. today \in Days /\ today <= MaxDay
    BY <1>1, <1>6 DEF FetchFull, Daytime, Days
  <2>2. [p \in Periods |-> restated[p].figure] \in [Periods -> Figures \union {NoFigure}]
    BY <1>1 DEF Sf1Types
  <2>3. full' \in [file : File1, after : Nat] /\ full'.after = Len(pending)
    BY <1>1, <1>6, <2>1, <2>2, ListingTypes DEF FetchFull, Sf1Types
  <2>4. UNCHANGED <<today, phase, reports, restated, splits, pending, backfilled>> /\ Spend("fulls")
    BY <1>6 DEF FetchFull, world
  <2> QED BY <1>1, <1>2, <2>1, <2>3, <2>4 DEF Sf1Types, Clock, Spend
<1>7. CASE FetchDelta
  <2>1. today \in Days /\ today <= MaxDay
    BY <1>1, <1>7 DEF FetchDelta, Daytime, Days
  <2> DEFINE R == [p \in Periods |-> {r \in reports[p] : r.fresh}]
             M == [p \in Periods |-> IF restated[p].fresh THEN restated[p].figure ELSE NoFigure]
  <2>2. R \in [Periods -> SUBSET Report] /\ M \in [Periods -> Figures \union {NoFigure}]
    BY <1>1 DEF Sf1Types
  <2>3. Listing(R, M) \in File1
    <3> HIDE DEF R, M
    <3> QED BY <1>1, <2>1, <2>2, ListingTypes
  <2>4. pending' = pending \/ pending' = Append(pending, Listing(R, M))
    BY <1>7 DEF FetchDelta
  <2>5. pending' \in Seq(File1) /\ Len(pending) <= Len(pending')
    <3> HIDE DEF R, M
    <3> QED BY <1>1, <2>3, <2>4
  <2>6. reports' \in [Periods -> SUBSET Report]
    <3>1. \A p \in Periods : {[r EXCEPT !.fresh = FALSE] : r \in reports[p]} \subseteq Report
      BY <1>1, StampedTypes DEF Sf1Types
    <3> QED BY <1>7, <3>1 DEF FetchDelta
  <2>7. restated' \in [Periods -> [figure : Figures \union {NoFigure}, fresh : BOOLEAN]]
    <3>1. \A p \in Periods : [restated[p] EXCEPT !.fresh = FALSE]
                             \in [figure : Figures \union {NoFigure}, fresh : BOOLEAN]
      BY <1>1 DEF Sf1Types
    <3> QED BY <1>7, <3>1 DEF FetchDelta
  <2>8. phase' = "night" /\ UNCHANGED <<today, splits, full, backfilled, spent>>
    BY <1>7 DEF FetchDelta
  <2> QED BY <1>1, <2>1, <2>5, <2>6, <2>7, <2>8 DEF Sf1Types, Clock
<1>8. CASE FetchFails
  BY <1>1, <1>2, <1>8 DEF FetchFails, Daytime, Spend, Sf1Types, Clock, world, ledger
<1>9. ASSUME NEW done \in BOOLEAN, Backfill(done) PROVE Goal
  <2>1. UNCHANGED <<today, phase, reports, restated, splits>> /\ today <= MaxDay
    BY <1>9 DEF Backfill, Daytime, world
  <2>2. CASE done
    <3> DEFINE rest == SubSeq(pending, full.after + 1, Len(pending))
    <3>1. backfilled' = TRUE /\ pending' = rest /\ full' = [full EXCEPT !.after = 0]
          /\ UNCHANGED spent
      BY <1>9, <2>2 DEF Backfill
    <3>2. rest \in Seq(File1)
      BY <1>1, SubSeqProperties
    <3>3. full' \in [file : File1, after : Nat] /\ full'.after = 0
      BY <1>1, <3>1
    <3> HIDE DEF rest
    <3> QED BY <1>1, <2>1, <3>1, <3>2, <3>3 DEF Sf1Types, Clock
  <2>3. CASE ~done
    BY <1>1, <1>2, <1>9, <2>1, <2>3 DEF Backfill, Spend, Sf1Types, Clock, ledger
  <2> QED BY <2>2, <2>3
<1>10. CASE Waits
  BY <1>1, <1>10 DEF Waits, EndDay, Sf1Types, Clock, world, ledger
<1>11. CASE Load
  <2>1. full' \in [file : File1, after : Nat] /\ full'.after = 0
    BY <1>4, <1>11 DEF Load
  <2>2. pending' = <<>> /\ <<>> \in Seq(File1)
    BY <1>11 DEF Load
  <2> QED BY <1>1, <1>11, <2>1, <2>2 DEF Load, EndDay, Sf1Types, Clock, world
<1>12. ASSUME NEW wrote \in BOOLEAN, LoadBreaks(wrote) PROVE Goal
  <2>1. full' \in [file : File1, after : Nat] /\ full'.after <= Len(pending)
    BY <1>1, <1>4, <1>12 DEF LoadBreaks, Clock
  <2> QED BY <1>1, <1>2, <1>12, <2>1 DEF LoadBreaks, EndDay, Spend, Sf1Types, Clock, world
<1>13. CASE UNCHANGED vars
  BY <1>1, <1>13 DEF vars, Sf1Types, Clock
<1> QED BY <1>5, <1>6, <1>7, <1>8, <1>9, <1>10, <1>11, <1>12, <1>13 DEF Next, IngestFundamentals

LEMMA InvStep == Inv /\ [Next]_vars => Inv'
<1> SUFFICES ASSUME Inv, [Next]_vars PROVE Inv'
  OBVIOUS
<1>1. rows' \subseteq Row /\ \A p \in Periods : Good(Of(rows, p), p)'
  BY TypesStep, TableStep
<1>2. TypeOK'
  BY <1>1, TypesStep DEF TypeOK, Sf1Types
<1>3. Clock'
  BY TypesStep
<1> QED BY <1>1, <1>2, <1>3 DEF Inv

-----------------------------------------------------------------------------
(* The theorems *)

LEMMA InvAlways == Spec => []Inv
<1>1. Init => Inv
  BY InitInv
<1>2. Inv /\ [Next]_vars => Inv'
  BY InvStep
<1> QED BY <1>1, <1>2, PTL DEF Spec

(* Every reachable state of the tables, the files and SF1 is well typed,       *)
(* version numbers and dates in particular.                                    *)
THEOREM TypeCorrect == Spec => []TypeOK
<1>1. Inv => TypeOK
  BY DEF Inv
<1> QED BY <1>1, InvAlways, PTL

(* The versions of every period always form one chain, however corrections,    *)
(* restatements, failed loads and backfills follow one another.                *)
THEOREM ChainedAlways == Spec => []Chained
<1>1. Inv => Chained
  <2> SUFFICES ASSUME Inv PROVE Chained
    OBVIOUS
  <2>1. \A p \in Periods : Current(Of(rows, p), p) = Current(rows, p)
    BY DEF Current, Of
  <2>2. \A p \in Periods : Chain(Current(rows, p))
    BY <2>1 DEF Inv, Good
  <2> QED BY <2>2 DEF Chain, Chained
<1> QED BY <1>1, InvAlways, PTL

(* A read of the model is a read of its period's rows. *)
LEMMA ReadsOf ==
  ASSUME NEW t, NEW p \in Periods, NEW d
  PROVE  AsOf(t, p, d) = Answer(Versions(Of(rows, p), t, p), d)
<1>1. HeldOn(t, p) = Versions(Of(rows, p), t, p)
  BY DEF HeldOn, Versions, Of
<1> QED BY <1>1 DEF AsOf

LEMMA HistoryInit == Init => History!Init
<1> SUFFICES ASSUME Init PROVE History!Init
  OBVIOUS
<1>1. today \in Days
  BY ConstantsAssumption DEF Init, Days
<1>2. \A t, p, d : AsOf(t, p, d) = Unknown
  BY DEF Init, AsOf, HeldOn, Answer, InForceOn
<1>3. \A t \in Days, p \in Periods, d \in 1..(MaxDay + 2) : Held[t][p][d] = Unknown
  BY <1>2 DEF Held
<1>4. Unknown.no = 0
  BY DEF Unknown
<1>5. \A t \in Days, p \in Periods, d \in 1..(MaxDay + 2) : Held[t][p][d].no = 0
  BY <1>3, <1>4
<1> QED BY <1>1, <1>5 DEF History!Init

LEMMA HistoryStep == Inv /\ [Next]_vars => [History!Next]_(History!vars)
<1> SUFFICES ASSUME Inv, [Next]_vars PROVE [History!Next]_(History!vars)
  OBVIOUS
<1>1. CASE today' = today /\ rows' = rows
  <2>1. Held' = Held
    BY <1>1 DEF Held, AsOf, HeldOn
  <2> QED BY <1>1, <2>1 DEF History!vars
<1>2. CASE RowsStep
  <2>1. /\ today \in Days /\ today' \in {today, today + 1} /\ MaxDay \in Nat
        /\ \A p \in Periods : Good(Of(rows, p), p) /\ Good(Of(rows', p), p)
                              /\ Moves(Of(rows, p), Of(rows', p), p)
    BY <1>2, TypesStep, ConstantsAssumption DEF RowsStep, Inv
  <2> DEFINE KDays == 1..(MaxDay + 2)
             Was(t, p, d) == Answer(Versions(Of(rows, p), t, p), d)
             Is(t, p, d) == Answer(Versions(Of(rows', p), t, p), d)
  <2>2. Held = [t \in Days |-> [p \in Periods |-> [d \in KDays |-> Was(t, p, d)]]]
    BY ReadsOf DEF Held
  <2>3. Held' = [t \in Days |-> [p \in Periods |-> [d \in KDays |-> Is(t, p, d)]]]
    <3>1. \A t, p, d : AsOf(t, p, d)' = Answer(Versions(rows', t, p), d)
      BY DEF AsOf, HeldOn, Versions
    <3>2. \A t, p : Versions(rows', t, p) = Versions(Of(rows', p), t, p)
      BY DEF Versions, Of
    <3> QED BY <3>1, <3>2 DEF Held
  <2>4. ASSUME NEW t \in Days, t < today, NEW p \in Periods
        PROVE  Versions(Of(rows', p), t, p) = Versions(Of(rows, p), t, p)
    BY <2>1, <2>4 DEF Moves, Days
  <2>5. ASSUME NEW t \in Days, ~(t < today), NEW p \in Periods
        PROVE  /\ Versions(Of(rows', p), t, p) = Visible(Of(rows', p), p)
               /\ Versions(Of(rows, p), t, p) = Visible(Of(rows, p), p)
    BY <2>1, <2>5, TodayIsCurrent DEF Days
  <2>6. \A p \in Periods, d \in KDays :
            History!MayBecome(d, Was(today, p, d), Is(today, p, d))
    BY <2>1, <2>5 DEF Moves, Days
  <2>7. \A t \in Days, p \in Periods, d \in KDays :
            Is(t, p, d) = IF t < today THEN Was(t, p, d) ELSE Is(today, p, d)
    BY <2>1, <2>4, <2>5 DEF Days
  <2> HIDE DEF Was, Is, KDays
  <2>8. /\ Held[today] = [p \in Periods |-> [d \in KDays |-> Was(today, p, d)]]
        /\ Held'[today] = [p \in Periods |-> [d \in KDays |-> Is(today, p, d)]]
    BY <2>1, <2>2, <2>3
  <2>9. \A p \in Periods, d \in KDays :
            History!MayBecome(d, Held[today][p][d], Held'[today][p][d])
    BY <2>6, <2>8
  <2>10. Held' = [t \in Days |-> IF t < today THEN Held[t] ELSE Held'[today]]
    <3> DEFINE now == Held'[today]
    <3>1. ASSUME NEW t \in Days, t < today PROVE Held'[t] = Held[t]
      BY <2>2, <2>3, <2>7, <3>1
    <3>2. ASSUME NEW t \in Days, ~(t < today) PROVE Held'[t] = now
      BY <2>3, <2>7, <2>8, <3>2
    <3>3. Held' = [t \in Days |-> Held'[t]]
      BY <2>3
    <3> HIDE DEF now
    <3>4. \A t \in Days : Held'[t] = IF t < today THEN Held[t] ELSE now
      BY <3>1, <3>2
    <3>5. Held' = [t \in Days |-> IF t < today THEN Held[t] ELSE now]
      BY <3>3, <3>4
    <3> QED BY <3>5 DEF now
  <2> QED BY <2>1, <2>9, <2>10 DEF History!Next, History!Load, KDays
<1> QED BY <1>1, <1>2, RowsMove

(* The statement tables implement the two-axis history of ADR 0018: what a     *)
(* read as of a past load day answers never changes, and a load may only move  *)
(* first reports or begin a new version from today on.                         *)
THEOREM HistoryImplemented == Spec => HistoryStands
<1>1. Init => History!Init
  BY HistoryInit
<1>2. Inv /\ [Next]_vars => [History!Next]_(History!vars)
  BY HistoryStep
<1> QED BY <1>1, <1>2, InvAlways, PTL DEF Spec, HistoryStands, History!Spec

-----------------------------------------------------------------------------
(* Reading again what was read *)

(* A first-reported row the table has nothing to learn from: version 1 is that  *)
(* row, or its correction is refused.                                           *)
FirstKnown(T, p, row) ==
    /\ {r \in Current(T, p) : r.no = 1} # {}
    /\ \A r \in Current(T, p) :
           r.no = 1 => Unchanged(r, Filed(p, row)) \/ Refused(r, Filed(p, row))

(* A restated row the table has nothing to learn from: the version in force     *)
(* carries it.                                                                  *)
LaterKnown(T, p, row) ==
    /\ Current(T, p) # {}
    /\ \A r \in InForce(T, p) : ~Moved(r, Compared(r, row), FALSE)

(* The versions start at one, and only the last one is in force. *)
Headed(T, p) ==
    /\ Current(T, p) # {} => \E r \in Current(T, p) : r.no = 1
    /\ \A r \in Current(T, p) :
        /\ r.no \in Nat \ {0}
        /\ r.to = Null => \A s \in Current(T, p) : s.no <= r.no

(* A row of the statement table as a plan writes it, on whatever day. *)
Record ==
    [period : Periods, no : Nat, from : Nat, to : Nat,
     source : {"filed", "estimated", "observed"}, filed : Nat, figure : Figures,
     shares : Int, cover : Int, loaded : Nat, until : Nat]

Records(T, p) == T \subseteq Record /\ \A r \in T : r.period = p

LEMMA GoodIsHeaded == ASSUME NEW T, NEW p, Good(T, p) PROVE Headed(T, p)
<1>1. Numbered(Current(T, p)) /\ Chain(Current(T, p))
  BY CurrentNumbered DEF Good
<1> QED BY <1>1, ChainStarts DEF Headed, Numbered, Chain

LEMMA FirstKnownStays ==
  ASSUME NEW T, NEW p, NEW row, FirstKnown(T, p, row)
  PROVE  FirstReported(T, p, row) = T
<1>1. {r \in Current(T, p) : r.no = 1} # {}
  BY DEF FirstKnown
<1>2. {r \in {r \in Current(T, p) : r.no = 1} :
         ~Unchanged(r, Filed(p, row)) /\ ~Refused(r, Filed(p, row))} = {}
  BY DEF FirstKnown
<1> QED BY <1>1, <1>2 DEF FirstReported

LEMMA LaterKnownStays ==
  ASSUME NEW T, NEW p, NEW row, NEW filings, LaterKnown(T, p, row)
  PROVE  Restated(T, p, row, filings) = T
<1>1. {r \in InForce(T, p) : Moved(r, Compared(r, row), FALSE)} = {}
  BY DEF LaterKnown
<1>2. Current(T, p) # {}
  BY DEF LaterKnown
<1> QED BY <1>1, <1>2 DEF Restated

(* The rows a first-reported row corrects, and what replaces them. *)
Corrected(T, p, row) ==
    {r \in Current(T, p) : r.no = 1 /\ ~Unchanged(r, Filed(p, row)) /\ ~Refused(r, Filed(p, row))}
Superseded(r) == [r EXCEPT !.until = today]
Redated(p, row, r) == [Filed(p, row) EXCEPT !.to = r.to]

LEMMA FiledRecord ==
  ASSUME NEW p \in Periods, NEW row \in ReadFirst,
         today \in Nat \ {0}, splits \subseteq Days, MaxDay \in Nat
  PROVE  LET n == Filed(p, row)
         IN  /\ n \in Record /\ n.period = p /\ n.no = 1 /\ n.until = Null /\ n.loaded = today
             /\ n.to = Null /\ n.from = row.filed /\ n.shares = Shares(row.terms, n.from)
             /\ Unchanged(n, n)
<1>1. Shares(row.terms, row.filed) \in Int
  BY SplitsCounted DEF Shares, ReadFirst
<1> QED BY <1>1 DEF Filed, Record, ReadFirst, Days, Null, Unchanged, Moved

LEMMA RedatedRecord ==
  ASSUME NEW p \in Periods, NEW row \in ReadFirst, NEW r, r.to \in Nat,
         today \in Nat \ {0}, splits \subseteq Days, MaxDay \in Nat
  PROVE  LET n == Redated(p, row, r)
         IN  /\ n \in Record /\ n.period = p /\ n.no = 1 /\ n.until = Null /\ n.loaded = today
             /\ n.to = r.to /\ n.from = row.filed /\ n.shares = Shares(row.terms, n.from)
             /\ Unchanged(n, Filed(p, row))
<1>1. Filed(p, row) \in Record
  BY FiledRecord
<1>2. Redated(p, row, r) \in Record
  BY <1>1 DEF Redated, Record
<1> QED BY <1>2 DEF Redated, Filed, Unchanged, Moved

LEMMA FirstReportedShape ==
  ASSUME NEW p \in Periods, NEW T, Records(T, p), Headed(T, p), NEW row \in ReadFirst,
         today \in Nat \ {0}, splits \subseteq Days, MaxDay \in Nat
  PROVE  LET U == FirstReported(T, p, row)
             corrected == Corrected(T, p, row)
         IN  /\ Current(T, p) = {} => /\ U = T \union {Filed(p, row)}
                                      /\ Current(U, p) = {Filed(p, row)}
             /\ Current(T, p) # {} =>
                  /\ U = (T \ corrected) \union {Superseded(r) : r \in corrected}
                           \union {Redated(p, row, r) : r \in corrected}
                  /\ Current(U, p) = (Current(T, p) \ corrected)
                                       \union {Redated(p, row, r) : r \in corrected}
             /\ Records(U, p)
<1> DEFINE H == Current(T, p)
           first == {r \in H : r.no = 1}
           new == Filed(p, row)
           corrected == Corrected(T, p, row)
           U == FirstReported(T, p, row)
<1>1. \A r \in T : r \in Record /\ r.period = p
  BY DEF Records
<1>2. new \in Record /\ new.period = p /\ new.until = Null
  BY FiledRecord
<1>3. first = {} <=> H = {}
  BY DEF Headed
<1>4. CASE H = {}
  <2>1. U = T \union {new}
    BY <1>3, <1>4 DEF FirstReported
  <2> HIDE DEF new, U
  <2>2. Current(U, p) = {new}
    BY <1>2, <1>4, <2>1 DEF Current
  <2>3. Records(U, p)
    BY <1>1, <1>2, <2>1 DEF Records
  <2> QED BY <1>4, <2>1, <2>2, <2>3 DEF U, new
<1>5. CASE H # {}
  <2>1. U = (T \ corrected) \union {Superseded(r) : r \in corrected}
              \union {Redated(p, row, r) : r \in corrected}
    BY <1>3, <1>5 DEF FirstReported, Corrected, Superseded, Redated
  <2>2. \A r \in corrected : r \in T /\ r.to \in Nat /\ r \in H
    BY <1>1 DEF Corrected, Current, Record
  <2>3. \A r \in corrected : /\ Redated(p, row, r) \in Record /\ Redated(p, row, r).period = p
                             /\ Redated(p, row, r).until = Null
    BY <2>2, RedatedRecord
  <2>4. \A r \in corrected : /\ Superseded(r) \in Record /\ Superseded(r).period = p
                             /\ Superseded(r).until # Null
    <3>1. \A r \in Record : /\ Superseded(r) \in Record /\ Superseded(r).period = r.period
                            /\ Superseded(r).until # Null
      BY DEF Superseded, Record, Null
    <3> HIDE DEF corrected
    <3> QED BY <1>1, <2>2, <3>1
  <2> HIDE DEF U, corrected
  <2>5. Current(U, p) = (H \ corrected) \union {Redated(p, row, r) : r \in corrected}
    BY <2>1, <2>2, <2>3, <2>4 DEF Current
  <2>6. Records(U, p)
    BY <1>1, <2>1, <2>3, <2>4 DEF Records
  <2> QED BY <1>5, <2>1, <2>5, <2>6 DEF U, corrected
<1> QED BY <1>4, <1>5

(* What the plan of a first-reported row leaves. *)
LEMMA FirstReportedKnows ==
  ASSUME NEW p \in Periods, NEW T, Records(T, p), Headed(T, p), NEW row \in ReadFirst,
         today \in Nat \ {0}, splits \subseteq Days, MaxDay \in Nat
  PROVE  LET U == FirstReported(T, p, row)
         IN  FirstKnown(U, p, row) /\ Headed(U, p) /\ Records(U, p)
<1> DEFINE H == Current(T, p)
           new == Filed(p, row)
           corrected == Corrected(T, p, row)
           U == FirstReported(T, p, row)
<1>1. Records(U, p)
  BY FirstReportedShape
<1>2. CASE H = {}
  <2>1. Current(U, p) = {new}
    BY <1>2, FirstReportedShape
  <2>2. new.no = 1 /\ Unchanged(new, new)
    BY FiledRecord
  <2> HIDE DEF U
  <2>3. FirstKnown(U, p, row) /\ Headed(U, p)
    BY <2>1, <2>2 DEF FirstKnown, Headed
  <2> QED BY <1>1, <2>3 DEF U
<1>3. CASE H # {}
  <2>1. Current(U, p) = (H \ corrected) \union {Redated(p, row, r) : r \in corrected}
    BY <1>3, FirstReportedShape
  <2>2. ASSUME NEW r \in corrected
        PROVE  /\ r \in H /\ r.no = 1 /\ Redated(p, row, r).no = 1 /\ Redated(p, row, r).to = r.to
               /\ Unchanged(Redated(p, row, r), new)
    <3>1. r \in H /\ r.no = 1 /\ r.to \in Nat
      BY DEF Corrected, Current, Records, Record
    <3> HIDE DEF corrected
    <3> QED BY <3>1, RedatedRecord
  <2>3. \A r \in H : r.no = 1 => r \in corrected \/ Unchanged(r, new) \/ Refused(r, new)
    BY DEF Corrected
  <2> HIDE DEF U, new, corrected
  <2>4. \A q \in Current(U, p) : \E r \in H : q.no = r.no /\ q.to = r.to
    BY <2>1, <2>2
  <2>5. \E r \in Current(U, p) : r.no = 1
    <3>1. PICK r \in H : r.no = 1
      BY <1>3 DEF Headed
    <3>2. CASE r \in corrected
      BY <2>1, <2>2, <3>2
    <3> QED BY <2>1, <3>1, <3>2
  <2>6. Headed(U, p)
    <3>1. ASSUME NEW q \in Current(U, p), q.to = Null, NEW s \in Current(U, p) PROVE s.no <= q.no
      <4>1. PICK r \in H : q.no = r.no /\ q.to = r.to
        BY <2>4
      <4>2. PICK x \in H : s.no = x.no
        BY <2>4
      <4> QED BY <3>1, <4>1, <4>2 DEF Headed
    <3> QED BY <2>4, <2>5, <3>1 DEF Headed
  <2>7. FirstKnown(U, p, row)
    <3>1. ASSUME NEW q \in Current(U, p), q.no = 1 PROVE Unchanged(q, new) \/ Refused(q, new)
      BY <2>1, <2>2, <2>3, <3>1
    <3> QED BY <2>5, <3>1 DEF FirstKnown, new
  <2> QED BY <1>1, <2>6, <2>7 DEF U
<1> QED BY <1>2, <1>3

(* The next filing, if any, is on a day. *)
LEMMA NextFilingDay ==
  ASSUME NEW p, NEW filings, \A f \in filings : f.filed \in Days,
         NextFiling(filings, p) # {}, MaxDay \in Nat
  PROVE  Min(NextFiling(filings, p)) \in Days
<1> DEFINE later == NextFiling(filings, p)
<1>1. later \subseteq Days /\ later \subseteq Nat /\ later # {}
  BY DEF NextFiling, Days
<1> HIDE DEF later
<1>2. \E d \in later : \A e \in later : d <= e
  BY <1>1, LeastElement
<1>3. Min(later) \in later
  BY <1>2 DEF Min
<1> QED BY <1>1, <1>3 DEF later

LEMMA AloneRecord ==
  ASSUME NEW p \in Periods, NEW row \in ReadLater, NEW filings,
         \A f \in filings : f.filed \in Days,
         today \in Nat \ {0}, splits \subseteq Days, MaxDay \in Nat
  PROVE  LET n == RestatedAlone(p, row, filings)
         IN  /\ n \in Record /\ n.period = p /\ n.no = 1 /\ n.to = Null /\ n.until = Null
             /\ n.loaded = today /\ n.figure = row.figure /\ n.shares = Shares(row.terms, n.from)
<1> DEFINE later == NextFiling(filings, p)
           from == IF later = {} THEN today ELSE Min(later)
<1>1. from \in Nat
  BY NextFilingDay DEF Days
<1>2. Shares(row.terms, from) \in Int
  BY SplitsCounted DEF Shares, ReadLater
<1> DEFINE how == IF later = {} THEN "observed" ELSE "estimated"
<1>3. how \in {"filed", "estimated", "observed"}
  OBVIOUS
<1>4. RestatedAlone(p, row, filings) =
        [period |-> p, no |-> 1, from |-> from, to |-> Null, source |-> how, filed |-> Null,
         figure |-> row.figure, shares |-> Shares(row.terms, from), cover |-> NoCount,
         loaded |-> today, until |-> Null]
  BY DEF RestatedAlone
<1> HIDE DEF from, how, later
<1> QED BY <1>1, <1>2, <1>3, <1>4 DEF Record, ReadLater, Null, NoCount

(* A restatement of the version in force. *)
LEMMA RestatementRecord ==
  ASSUME NEW p \in Periods, NEW T, Records(T, p), Headed(T, p), NEW row \in ReadLater,
         NEW f \in InForce(T, p),
         today \in Nat \ {0}, splits \subseteq Days, MaxDay \in Nat
  PROVE  LET n == Restatement(Current(T, p), f, row)
         IN  /\ n \in Record /\ n.period = p /\ n.no = f.no + 1 /\ n.from = KnownFrom(f)
             /\ n.to = Null /\ n.until = Null /\ n.loaded = today
             /\ n.figure = row.figure /\ n.shares = Shares(row.terms, n.from)
<1> DEFINE H == Current(T, p)
           k == KnownFrom(f)
           c == IF f.cover = NoCount THEN NoCount
                ELSE f.cover + (SplitsAfter(f.from) - SplitsAfter(k))
<1>1. f \in Record /\ f \in H /\ f.to = Null /\ f.period = p
  BY DEF InForce, Current, Records
<1>2. k \in Nat \ {0}
  BY <1>1 DEF KnownFrom, Record
<1>3. Max({r.no : r \in H}) = f.no
  <2>1. f.no \in {r.no : r \in H} /\ \A m \in {r.no : r \in H} : m <= f.no /\ m \in Nat
    BY <1>1 DEF Headed
  <2>2. \A S : f.no \in S /\ (\A m \in S : m <= f.no /\ m \in Nat) => Max(S) = f.no
    BY DEF Max
  <2> QED BY <2>1, <2>2
<1>4. c \in Int
  <2>1. f.cover \in Int
    BY <1>1 DEF Record
  <2>2. f.cover + (SplitsAfter(f.from) - SplitsAfter(k)) \in Int
    BY <2>1, SplitsCounted
  <2> QED BY <2>2 DEF NoCount
<1>5. Shares(row.terms, k) \in Int
  BY SplitsCounted DEF Shares, ReadLater
<1>6. Restatement(H, f, row) =
        [period |-> f.period, no |-> f.no + 1, from |-> k, to |-> Null, source |-> "observed",
         filed |-> Null, figure |-> row.figure, shares |-> Shares(row.terms, k), cover |-> c,
         loaded |-> today, until |-> Null]
  BY <1>3 DEF Restatement
<1> HIDE DEF k, c, H
<1>7. f.no + 1 \in Nat
  BY <1>1 DEF Record
<1> DEFINE n == Restatement(H, f, row)
<1>8. /\ n.period = p /\ n.no = f.no + 1 /\ n.from = k /\ n.to = Null /\ n.until = Null
      /\ n.loaded = today /\ n.figure = row.figure /\ n.shares = Shares(row.terms, n.from)
  BY <1>1, <1>6
<1>9. n \in Record
  BY <1>1, <1>2, <1>4, <1>5, <1>6, <1>7 DEF Record, ReadLater, Null
<1> HIDE DEF n
<1> QED BY <1>8, <1>9 DEF n, H, k

(* The version a restated row closes, and what it becomes. *)
Closed(T, p, row) == {r \in InForce(T, p) : Moved(r, Compared(r, row), FALSE)}
Shut(r) == [r EXCEPT !.to = KnownFrom(r)]

LEMMA ClosedIs ==
  ASSUME NEW p, NEW T, Records(T, p), Headed(T, p), NEW row,
         NEW r \in Closed(T, p, row), today \in Nat \ {0}
  PROVE  /\ r \in InForce(T, p) /\ r \in Current(T, p) /\ r \in T /\ r.to = Null /\ r.no \in Nat \ {0}
         /\ r \in Record /\ r.period = p /\ r.until = Null
         /\ Shut(r) \in Record /\ Shut(r).to # Null /\ Shut(r).no = r.no
         /\ Shut(r).filed = r.filed /\ Shut(r).figure = r.figure /\ Shut(r).from = r.from
         /\ Shut(r).shares = r.shares /\ Shut(r).cover = r.cover /\ Shut(r).loaded = r.loaded
         /\ Shut(r).period = p /\ Shut(r).until = Null
<1>1. /\ r \in InForce(T, p) /\ r \in Current(T, p) /\ r \in T /\ r.to = Null /\ r.no \in Nat \ {0}
      /\ r \in Record /\ r.period = p /\ r.until = Null
  BY DEF Closed, InForce, Current, Headed, Records
<1>2. KnownFrom(r) \in Nat \ {0}
  <2>1. r.from \in Nat
    BY <1>1 DEF Record
  <2> QED BY <2>1 DEF KnownFrom
<1> QED BY <1>1, <1>2 DEF Shut, Record, Null

LEMMA RestatedShape ==
  ASSUME NEW p \in Periods, NEW T, Records(T, p), Headed(T, p), NEW row \in ReadLater,
         NEW filings, \A f \in filings : f.filed \in Days, Current(T, p) # {},
         today \in Nat \ {0}, splits \subseteq Days, MaxDay \in Nat
  PROVE  LET H == Current(T, p)
             W == Restated(T, p, row, filings)
             closed == Closed(T, p, row)
         IN  /\ W = (T \ closed) \union {Shut(r) : r \in closed}
                      \union {Restatement(H, r, row) : r \in closed}
             /\ Current(W, p) = (H \ closed) \union {Shut(r) : r \in closed}
                                  \union {Restatement(H, r, row) : r \in closed}
             /\ \A r \in closed :
                  /\ r \in InForce(T, p) /\ r \in H /\ r \in T /\ r.to = Null /\ r.no \in Nat \ {0}
                  /\ Shut(r) \in Record /\ Shut(r).to # Null /\ Shut(r).no = r.no
                  /\ Shut(r).filed = r.filed /\ Shut(r).figure = r.figure /\ Shut(r).from = r.from
                  /\ Shut(r).shares = r.shares /\ Shut(r).cover = r.cover
                  /\ Shut(r).loaded = r.loaded
             /\ Records(W, p)
<1> DEFINE H == Current(T, p)
           W == Restated(T, p, row, filings)
           closed == Closed(T, p, row)
           next(r) == Restatement(H, r, row)
<1>1. W = (T \ closed) \union {Shut(r) : r \in closed} \union {next(r) : r \in closed}
  BY DEF Restated, Closed, Shut
<1>2. \A r \in T : r \in Record /\ r.period = p
  BY DEF Records
<1>3. \A r \in closed :
        /\ r \in InForce(T, p) /\ r \in H /\ r \in T /\ r.to = Null /\ r.no \in Nat \ {0}
        /\ r \in Record /\ r.period = p /\ r.until = Null
        /\ Shut(r) \in Record /\ Shut(r).to # Null /\ Shut(r).no = r.no
        /\ Shut(r).filed = r.filed /\ Shut(r).figure = r.figure /\ Shut(r).from = r.from
        /\ Shut(r).shares = r.shares /\ Shut(r).cover = r.cover /\ Shut(r).loaded = r.loaded
        /\ Shut(r).period = p /\ Shut(r).until = Null
  BY ClosedIs
<1>4. \A r \in closed : next(r) \in Record /\ next(r).period = p /\ next(r).until = Null
  BY <1>3, RestatementRecord
<1> HIDE DEF W, closed, next
<1>5. Current(W, p) = (H \ closed) \union {Shut(r) : r \in closed} \union {next(r) : r \in closed}
  BY <1>1, <1>3, <1>4 DEF Current
<1>6. Records(W, p)
  BY <1>1, <1>2, <1>3, <1>4 DEF Records
<1> QED BY <1>1, <1>3, <1>5, <1>6 DEF W, closed, next

(* What the plan of a restated row leaves; a first-reported row known stays so. *)
LEMMA RestatedKnows ==
  ASSUME NEW p \in Periods, NEW T, Records(T, p), Headed(T, p), NEW row \in ReadLater,
         NEW filings, \A f \in filings : f.filed \in Days,
         today \in Nat \ {0}, splits \subseteq Days, MaxDay \in Nat
  PROVE  LET W == Restated(T, p, row, filings)
         IN  /\ LaterKnown(W, p, row) /\ Records(W, p)
             /\ \A x : FirstKnown(T, p, x) => FirstKnown(W, p, x)
<1> DEFINE H == Current(T, p)
           closed == Closed(T, p, row)
           next(r) == Restatement(H, r, row)
           W == Restated(T, p, row, filings)
<1>1. CASE H = {}
  <2> DEFINE n == RestatedAlone(p, row, filings)
  <2>1. W = T \union {n}
    BY <1>1 DEF Restated
  <2>2. /\ n \in Record /\ n.period = p /\ n.no = 1 /\ n.to = Null /\ n.until = Null
        /\ n.figure = row.figure /\ n.shares = Shares(row.terms, n.from)
    BY AloneRecord
  <2> HIDE DEF W, n
  <2>3. Current(W, p) = {n}
    BY <1>1, <2>1, <2>2 DEF Current
  <2>4. LaterKnown(W, p, row)
    BY <2>2, <2>3 DEF LaterKnown, InForce, Moved, Compared
  <2>5. Records(W, p)
    BY <2>1, <2>2 DEF Records
  <2>6. \A x : ~FirstKnown(T, p, x)
    BY <1>1 DEF FirstKnown
  <2> QED BY <2>4, <2>5, <2>6 DEF W
<1>2. CASE H # {}
  <2>1. /\ Current(W, p) = (H \ closed) \union {Shut(r) : r \in closed} \union {next(r) : r \in closed}
        /\ Records(W, p)
    BY <1>2, RestatedShape
  <2>2. \A r \in closed :
           /\ r \in InForce(T, p) /\ r \in H /\ r.to = Null /\ r.no \in Nat \ {0}
           /\ Shut(r).to # Null /\ Shut(r).no = r.no /\ Shut(r).filed = r.filed
           /\ Shut(r).figure = r.figure /\ Shut(r).shares = r.shares /\ Shut(r).cover = r.cover
    BY <1>2, RestatedShape
  <2>3. \A r \in closed :
           /\ next(r).no # 1 /\ next(r).figure = row.figure
           /\ next(r).shares = Shares(row.terms, next(r).from)
    <3>1. \A r \in closed : next(r).no = r.no + 1 /\ next(r).figure = row.figure
                            /\ next(r).shares = Shares(row.terms, next(r).from)
      BY <2>2, RestatementRecord
    <3> HIDE DEF closed, next
    <3> QED BY <2>2, <3>1
  <2>4. \A r \in InForce(T, p) : r \in closed \/ ~Moved(r, Compared(r, row), FALSE)
    BY DEF Closed
  <2> HIDE DEF W, next, closed
  <2>5. LaterKnown(W, p, row)
    <3>1. ASSUME NEW q \in InForce(W, p) PROVE ~Moved(q, Compared(q, row), FALSE)
      <4>1. q \in Current(W, p) /\ q.to = Null
        BY DEF InForce
      <4>2. CASE q \in H \ closed
        BY <2>4, <4>1, <4>2 DEF InForce
      <4>3. CASE q \in {next(r) : r \in closed}
        BY <2>3, <4>3 DEF Moved, Compared
      <4> QED BY <2>1, <2>2, <4>1, <4>2, <4>3
    <3>2. Current(W, p) # {}
      <4>1. CASE closed = {}
        BY <1>2, <2>1, <4>1
      <4>2. ASSUME NEW r \in closed PROVE Shut(r) \in Current(W, p)
        BY <2>1
      <4> QED BY <4>1, <4>2
    <3> QED BY <3>1, <3>2 DEF LaterKnown
  <2>6. ASSUME NEW x, FirstKnown(T, p, x) PROVE FirstKnown(W, p, x)
    <3>1. PICK v \in H : v.no = 1
      BY <2>6 DEF FirstKnown
    <3>2. \E q \in Current(W, p) : q.no = 1
      BY <2>1, <2>2, <3>1
    <3>3. ASSUME NEW q \in Current(W, p), q.no = 1
          PROVE  Unchanged(q, Filed(p, x)) \/ Refused(q, Filed(p, x))
      <4>1. CASE q \in H
        BY <2>6, <3>3, <4>1 DEF FirstKnown
      <4>2. ASSUME NEW r \in closed, q = Shut(r)
            PROVE  Unchanged(q, Filed(p, x)) \/ Refused(q, Filed(p, x))
        <5>1. r \in H /\ r.no = 1 /\ r.to = Null
          BY <2>2, <3>3, <4>2
        <5>2. Unchanged(r, Filed(p, x))
          BY <2>6, <5>1 DEF FirstKnown, Refused
        <5> QED BY <2>2, <4>2, <5>2 DEF Unchanged, Moved
      <4> QED BY <2>1, <2>3, <3>3, <4>1, <4>2
    <3> QED BY <3>2, <3>3 DEF FirstKnown
  <2> QED BY <2>1, <2>5, <2>6 DEF W
<1> QED BY <1>1, <1>2

(* The row of each kind that a plan takes. *)
TheFirst(said) == CHOOSE r \in said.first : TRUE
TheLater(said) == CHOOSE r \in said.later : TRUE

(* What a plan leaves knows the rows it was made of, so that planning them again *)
(* changes nothing.                                                              *)
LEMMA PlannedKnows ==
  ASSUME NEW p \in Periods, NEW T, Records(T, p), Headed(T, p),
         NEW said, said.first \subseteq ReadFirst, said.later \subseteq ReadLater,
         NEW filings, \A f \in filings : f.filed \in Days, NEW later,
         today \in Nat \ {0}, splits \subseteq Days, MaxDay \in Nat
  PROVE  LET W == Planned(T, p, said, filings)
         IN  /\ Records(W, p)
             /\ said.first # {} => FirstKnown(W, p, TheFirst(said))
             /\ said.later # {} => LaterKnown(W, p, TheLater(said))
             /\ Planned(W, p, said, later) = W
<1> DEFINE x == TheFirst(said)
           y == TheLater(said)
           U == IF said.first = {} THEN T ELSE FirstReported(T, p, x)
           W == IF said.later = {} THEN U ELSE Restated(U, p, y, filings)
<1>1. (said.first # {} => x \in ReadFirst) /\ (said.later # {} => y \in ReadLater)
  BY DEF TheFirst, TheLater
<1> HIDE DEF x, y
<1>2. Records(U, p) /\ Headed(U, p) /\ (said.first # {} => FirstKnown(U, p, x))
  BY <1>1, FirstReportedKnows
<1> HIDE DEF U
<1>3. /\ Records(W, p)
      /\ said.later # {} => LaterKnown(W, p, y)
      /\ said.first # {} => FirstKnown(W, p, x)
  BY <1>1, <1>2, RestatedKnows
<1>4. Planned(T, p, said, filings) = W
  BY DEF Planned, U, x, y, TheFirst, TheLater
<1> HIDE DEF W
<1>5. Planned(W, p, said, later) = W
  <2>1. said.first # {} => FirstReported(W, p, x) = W
    BY <1>3, FirstKnownStays
  <2>2. said.later # {} => Restated(W, p, y, later) = W
    BY <1>3, LaterKnownStays
  <2> QED BY <2>1, <2>2 DEF Planned, x, y, TheFirst, TheLater
<1> QED BY <1>3, <1>4, <1>5 DEF x, y

LEMMA GoodIsRecords == ASSUME NEW T, NEW p, Good(T, p) PROVE Records(T, p)
<1>1. Row \subseteq Record
  BY ConstantsAssumption DEF Row, Record, Days, Null
<1> QED BY <1>1 DEF Good, Records

(* Period by period, what the files a load reads make of the table. *)
LEMMA WrittenPeriods ==
  ASSUME rows \subseteq Row, \A p \in Periods : Good(Of(rows, p), p),
         today \in Nat \ {0}, splits \subseteq Days, MaxDay \in Nat,
         NEW files \in Seq(File1)
  PROVE  LET W == Written(rows, Said(files))
             plan(p) == Planned(Of(rows, p), p, Said(files)[p], Filings(rows, Said(files)))
         IN  /\ W = UNION {plan(p) : p \in Periods}
             /\ \A p \in Periods : Of(W, p) = plan(p)
             /\ \A f \in Filings(rows, Said(files)) : f.filed \in Days
<1> DEFINE said == Said(files)
           filings == Filings(rows, said)
           plan(p) == Planned(Of(rows, p), p, said[p], filings)
           W == Written(rows, said)
<1>1. \A p \in Periods : said[p].first \subseteq ReadFirst /\ said[p].later \subseteq ReadLater
  BY ReadTypes
<1> HIDE DEF said
<1>2. \A f \in filings : f.filed \in Days
  BY <1>1, FilingsOnDays
<1> HIDE DEF filings
<1>3. \A p \in Periods : Records(plan(p), p)
  BY <1>1, <1>2, PlannedKnows, GoodIsRecords, GoodIsHeaded
<1>4. W = UNION {plan(p) : p \in Periods}
  BY DEF Written, Of, filings
<1> HIDE DEF plan, W
<1>5. \A p \in Periods : Of(W, p) = plan(p)
  BY <1>3, <1>4 DEF Of, Records
<1> QED BY <1>2, <1>4, <1>5 DEF W, plan, filings, said

(* Whatever files a load reads, the table it leaves is the one it would leave again. *)
LEMMA WrittenKnows ==
  ASSUME rows \subseteq Row, \A p \in Periods : Good(Of(rows, p), p),
         today \in Nat \ {0}, splits \subseteq Days, MaxDay \in Nat,
         NEW files \in Seq(File1)
  PROVE  LET once == Written(rows, Said(files)) IN Written(once, Said(files)) = once
<1> DEFINE said == Said(files)
           filings == Filings(rows, said)
           plan(p) == Planned(Of(rows, p), p, said[p], filings)
           once == Written(rows, said)
           again(p) == Planned(Of(once, p), p, said[p], Filings(once, said))
<1>1. /\ once = UNION {plan(p) : p \in Periods}
      /\ \A p \in Periods : Of(once, p) = plan(p)
      /\ \A f \in filings : f.filed \in Days
  BY WrittenPeriods
<1>2. \A p \in Periods : said[p].first \subseteq ReadFirst /\ said[p].later \subseteq ReadLater
  BY ReadTypes
<1> HIDE DEF said, filings, once
<1>3. ASSUME NEW p \in Periods PROVE again(p) = plan(p)
  <2>1. Planned(plan(p), p, said[p], Filings(once, said)) = plan(p)
    <3>1. Records(Of(rows, p), p) /\ Headed(Of(rows, p), p)
      BY GoodIsRecords, GoodIsHeaded
    <3>2. /\ said[p].first \subseteq ReadFirst /\ said[p].later \subseteq ReadLater
          /\ \A f \in filings : f.filed \in Days
      BY <1>1, <1>2
    <3> QED BY <3>1, <3>2, PlannedKnows
  <2> HIDE DEF plan
  <2> QED BY <1>1, <2>1
<1>4. Written(once, said) = UNION {again(p) : p \in Periods}
  BY DEF Written, Of
<1> HIDE DEF plan, again
<1>5. UNION {again(p) : p \in Periods} = UNION {plan(p) : p \in Periods}
  BY <1>3
<1> QED BY <1>1, <1>4, <1>5 DEF once, said

(* A night that failed after the table was written, a narrowed one and a resumed *)
(* backfill read their files again: whatever the table, the files and the day,   *)
(* what is read again writes nothing.                                            *)
THEOREM RereadsAreQuiet == Spec => []RereadIsQuiet
<1>1. Inv => RereadIsQuiet
  <2> SUFFICES ASSUME Inv, NEW files \in {<<full.file>>, pending}
               PROVE  LET once == Written(rows, Said(files)) IN Written(once, Said(files)) = once
    BY DEF RereadIsQuiet
  <2>1. /\ rows \subseteq Row /\ \A p \in Periods : Good(Of(rows, p), p)
        /\ today \in Nat \ {0} /\ splits \subseteq Days /\ MaxDay \in Nat
    BY ConstantsAssumption DEF Inv, TypeOK
  <2>2. full.file \in File1 /\ pending \in Seq(File1)
    BY DEF Inv, TypeOK
  <2>3. files \in Seq(File1)
    <3>1. <<full.file>> \in Seq(File1)
      BY <2>2
    <3> QED BY <2>2, <3>1
  <2> QED BY <2>1, <2>3, WrittenKnows
<1> QED BY <1>1, InvAlways, PTL

-----------------------------------------------------------------------------
(* The rows that several files hold *)

(* A set of numbers with a bound has a greatest one. *)
LEMMA GreatestElement ==
  ASSUME NEW n \in Nat, NEW S, S \subseteq 1..n, S # {}
  PROVE  \E x \in S : \A y \in S : y <= x
<1> DEFINE T == {n - d : d \in S}
<1>1. T \subseteq Nat
  <2>1. \A d \in S : n - d \in Nat
    OBVIOUS
  <2> QED BY <2>1
<1>2. T # {}
  BY Zenon
<1>3. PICK x \in T : \A y \in T : x <= y
  <2> HIDE DEF T
  <2> QED BY <1>1, <1>2, LeastElement
<1>4. PICK m \in S : x = n - m
  BY <1>3
<1>5. \A d \in S : n - m <= n - d
  BY <1>3, <1>4
<1>6. \A d \in S : d <= m
  BY <1>5, SMT
<1> QED BY <1>6

LEMMA NewestNone ==
  ASSUME NEW found, \A i \in DOMAIN found : found[i] = {}
  PROVE  Newest(found) = {}
BY DEF Newest

LEMMA NewestIs ==
  ASSUME NEW n \in Nat, NEW found, DOMAIN found = 1..n, NEW i \in 1..n, found[i] # {},
         \A k \in 1..n : found[k] # {} => k <= i
  PROVE  Newest(found) = found[i]
<1>1. \A j \in 1..n : (\A k \in 1..n : found[k] # {} => k <= j) => j = i \/ found[j] = {}
  OBVIOUS
<1> QED BY <1>1 DEF Newest

(* Either no file holds rows, or the newest that does gives them. *)
LEMMA NewestCases ==
  ASSUME NEW n \in Nat, NEW found, DOMAIN found = 1..n
  PROVE  \/ Newest(found) = {} /\ \A i \in 1..n : found[i] = {}
         \/ \E i \in 1..n : /\ found[i] # {} /\ Newest(found) = found[i]
                            /\ \A k \in 1..n : found[k] # {} => k <= i
<1> DEFINE S == {i \in 1..n : found[i] # {}}
<1>1. CASE S = {}
  BY <1>1, NewestNone
<1>2. CASE S # {}
  <2>1. PICK i \in S : \A k \in S : k <= i
    BY <1>2, GreatestElement
  <2> QED BY <2>1, NewestIs
<1> QED BY <1>1, <1>2

LEMMA NewestAppend ==
  ASSUME NEW n \in Nat, NEW F, NEW G, DOMAIN F = 1..n, DOMAIN G = 1..(n + 1),
         \A i \in 1..n : G[i] = F[i]
  PROVE  Newest(G) = IF G[n + 1] # {} THEN G[n + 1] ELSE Newest(F)
<1>1. CASE G[n + 1] # {}
  BY <1>1, NewestIs
<1>2. CASE G[n + 1] = {}
  <2>1. CASE \A i \in 1..n : F[i] = {}
    <3>1. \A i \in 1..(n + 1) : i = n + 1 \/ i \in 1..n
      OBVIOUS
    <3>2. \A i \in DOMAIN G : G[i] = {}
      BY <1>2, <2>1, <3>1
    <3> QED BY <1>2, <2>1, <3>2, NewestNone
  <2>2. ASSUME NEW i \in 1..n, F[i] # {}, Newest(F) = F[i], \A k \in 1..n : F[k] # {} => k <= i
        PROVE  Newest(G) = Newest(F)
    <3>1. i \in 1..(n + 1) /\ n + 1 \in Nat /\ G[i] # {}
      BY <2>2
    <3>2. \A k \in 1..(n + 1) : G[k] # {} => k <= i
      BY <1>2, <2>2
    <3> QED BY <2>2, <3>1, <3>2, NewestIs
  <2> QED BY <1>2, <2>1, <2>2, NewestCases
<1> QED BY <1>1, <1>2

LEMMA NewestSuffix ==
  ASSUME NEW n \in Nat, NEW k \in 0..n, NEW F, NEW G, DOMAIN F = 1..n, DOMAIN G = 1..(n - k),
         \A i \in 1..(n - k) : G[i] = F[i + k]
  PROVE  /\ Newest(G) = {} \/ Newest(G) = Newest(F)
         /\ Newest(F) = {} => Newest(G) = {}
<1>1. n - k \in Nat
  OBVIOUS
<1>2. CASE \A i \in 1..(n - k) : G[i] = {}
  BY <1>2, NewestNone
<1>3. ASSUME NEW i \in 1..(n - k), G[i] # {}, Newest(G) = G[i],
             \A j \in 1..(n - k) : G[j] # {} => j <= i
      PROVE  Newest(G) = Newest(F)
  <2>1. i + k \in 1..n /\ F[i + k] # {} /\ G[i] = F[i + k]
    BY <1>3
  <2>2. ASSUME NEW j \in 1..n, F[j] # {} PROVE j <= i + k
    <3>1. CASE j <= k
      BY <2>1, <3>1
    <3>2. CASE j > k
      <4>1. j - k \in 1..(n - k) /\ G[j - k] = F[j]
        BY <3>2
      <4> QED BY <1>3, <2>2, <4>1
    <3> QED BY <3>1, <3>2
  <2> QED BY <1>3, <2>1, <2>2, NewestIs
<1>4. ASSUME NEW i \in 1..(n - k), G[i] # {} PROVE Newest(F) # {}
  <2>1. i + k \in 1..n /\ F[i + k] # {}
    BY <1>4
  <2> QED BY <2>1, NewestCases
<1> QED BY <1>1, <1>2, <1>3, <1>4, NewestCases

(* The rows a load finds of a period, of each kind. *)
FirstIn(files, p) == Said(files)[p].first
LaterIn(files, p) == Said(files)[p].later

LEMMA InFiles ==
  ASSUME NEW files, NEW p \in Periods
  PROVE  /\ FirstIn(files, p) = Newest([i \in DOMAIN files |-> Rows(files[i], p).first])
         /\ LaterIn(files, p) = Newest([i \in DOMAIN files |-> Rows(files[i], p).later])
BY DEF FirstIn, LaterIn, Said, Merged

LEMMA InNoFile ==
  ASSUME NEW p \in Periods
  PROVE  FirstIn(<<>>, p) = {} /\ LaterIn(<<>>, p) = {}
<1> DEFINE F == [i \in DOMAIN <<>> |-> Rows(<<>>[i], p).first]
           L == [i \in DOMAIN <<>> |-> Rows(<<>>[i], p).later]
<1>1. DOMAIN F = {} /\ DOMAIN L = {}
  OBVIOUS
<1>2. FirstIn(<<>>, p) = Newest(F) /\ LaterIn(<<>>, p) = Newest(L)
  BY InFiles
<1> HIDE DEF F, L
<1> QED BY <1>1, <1>2, NewestNone

LEMMA InOneFile ==
  ASSUME NEW f \in File1, NEW p \in Periods
  PROVE  FirstIn(<<f>>, p) = Rows(f, p).first /\ LaterIn(<<f>>, p) = Rows(f, p).later
<1> DEFINE F == [i \in DOMAIN <<f>> |-> Rows(<<f>>[i], p).first]
           L == [i \in DOMAIN <<f>> |-> Rows(<<f>>[i], p).later]
<1>1. DOMAIN <<f>> = 1..1 /\ <<f>>[1] = f
  OBVIOUS
<1>2. DOMAIN F = 1..1 /\ F[1] = Rows(f, p).first /\ DOMAIN L = 1..1 /\ L[1] = Rows(f, p).later
  BY <1>1
<1> HIDE DEF F, L
<1>3. ASSUME NEW G, DOMAIN G = 1..1 PROVE Newest(G) = G[1]
  <2>1. CASE G[1] = {}
    BY <1>3, <2>1, NewestNone
  <2>2. CASE G[1] # {}
    <3>1. 1 \in Nat /\ 1 \in 1..1 /\ \A k \in 1..1 : k <= 1
      OBVIOUS
    <3> QED BY <1>3, <2>2, <3>1, NewestIs
  <2> QED BY <2>1, <2>2
<1> QED BY <1>2, <1>3, InFiles DEF F, L

LEMMA InOneMore ==
  ASSUME NEW files \in Seq(File1), NEW f \in File1, NEW p \in Periods
  PROVE  /\ FirstIn(Append(files, f), p)
              = IF Rows(f, p).first # {} THEN Rows(f, p).first ELSE FirstIn(files, p)
         /\ LaterIn(Append(files, f), p)
              = IF Rows(f, p).later # {} THEN Rows(f, p).later ELSE LaterIn(files, p)
<1> DEFINE more == Append(files, f)
           n == Len(files)
<1>1. /\ n \in Nat /\ DOMAIN files = 1..n /\ DOMAIN more = 1..(n + 1) /\ more[n + 1] = f
      /\ \A i \in 1..n : more[i] = files[i]
  OBVIOUS
<1> HIDE DEF more, n
<1> DEFINE F == [i \in DOMAIN files |-> Rows(files[i], p).first]
           G == [i \in DOMAIN more |-> Rows(more[i], p).first]
           H == [i \in DOMAIN files |-> Rows(files[i], p).later]
           K == [i \in DOMAIN more |-> Rows(more[i], p).later]
<1>2. /\ DOMAIN F = 1..n /\ DOMAIN G = 1..(n + 1) /\ \A i \in 1..n : G[i] = F[i]
      /\ G[n + 1] = Rows(f, p).first
      /\ DOMAIN H = 1..n /\ DOMAIN K = 1..(n + 1) /\ \A i \in 1..n : K[i] = H[i]
      /\ K[n + 1] = Rows(f, p).later
  BY <1>1
<1>4. /\ FirstIn(files, p) = Newest(F) /\ FirstIn(more, p) = Newest(G)
      /\ LaterIn(files, p) = Newest(H) /\ LaterIn(more, p) = Newest(K)
  BY InFiles
<1> HIDE DEF F, G, H, K
<1>3. /\ Newest(G) = IF G[n + 1] # {} THEN G[n + 1] ELSE Newest(F)
      /\ Newest(K) = IF K[n + 1] # {} THEN K[n + 1] ELSE Newest(H)
  BY <1>1, <1>2, NewestAppend
<1> QED BY <1>2, <1>3, <1>4 DEF more

LEMMA InFewer ==
  ASSUME NEW files \in Seq(File1), NEW k \in 0..Len(files), NEW p \in Periods
  PROVE  LET rest == SubSeq(files, k + 1, Len(files))
         IN  /\ FirstIn(rest, p) = {} \/ FirstIn(rest, p) = FirstIn(files, p)
             /\ FirstIn(files, p) = {} => FirstIn(rest, p) = {}
             /\ LaterIn(rest, p) = {} \/ LaterIn(rest, p) = LaterIn(files, p)
             /\ LaterIn(files, p) = {} => LaterIn(rest, p) = {}
<1> DEFINE rest == SubSeq(files, k + 1, Len(files))
           n == Len(files)
<1>1. /\ n \in Nat /\ DOMAIN files = 1..n /\ DOMAIN rest = 1..(n - k)
      /\ \A i \in 1..(n - k) : rest[i] = files[i + k] /\ i + k \in 1..n
  <2>1. Len(rest) = n - k /\ \A i \in 1..(n - k) : rest[i] = files[i + k]
    BY SubSeqProperties
  <2>2. rest \in Seq(File1)
    BY SubSeqProperties
  <2> HIDE DEF rest
  <2> QED BY <2>1, <2>2
<1> HIDE DEF rest
<1> DEFINE F == [i \in DOMAIN files |-> Rows(files[i], p).first]
           G == [i \in DOMAIN rest |-> Rows(rest[i], p).first]
           H == [i \in DOMAIN files |-> Rows(files[i], p).later]
           K == [i \in DOMAIN rest |-> Rows(rest[i], p).later]
<1>2. /\ DOMAIN F = 1..n /\ DOMAIN G = 1..(n - k) /\ \A i \in 1..(n - k) : G[i] = F[i + k]
      /\ DOMAIN H = 1..n /\ DOMAIN K = 1..(n - k) /\ \A i \in 1..(n - k) : K[i] = H[i + k]
  BY <1>1
<1>3. k \in 0..n
  OBVIOUS
<1>5. /\ FirstIn(files, p) = Newest(F) /\ FirstIn(rest, p) = Newest(G)
      /\ LaterIn(files, p) = Newest(H) /\ LaterIn(rest, p) = Newest(K)
  BY InFiles
<1> HIDE DEF F, G, H, K, n
<1>4. /\ Newest(G) = {} \/ Newest(G) = Newest(F)
      /\ Newest(F) = {} => Newest(G) = {}
      /\ Newest(K) = {} \/ Newest(K) = Newest(H)
      /\ Newest(H) = {} => Newest(K) = {}
  BY <1>1, <1>2, <1>3, NewestSuffix
<1> QED BY <1>4, <1>5 DEF rest, n

(* Rows that a load finds are those of one of the files it reads. *)
LEMMA InSome ==
  ASSUME NEW files \in Seq(File1), NEW p \in Periods
  PROVE  /\ FirstIn(files, p) # {} =>
              \E i \in DOMAIN files : FirstIn(files, p) = Rows(files[i], p).first
         /\ LaterIn(files, p) # {} =>
              \E i \in DOMAIN files : LaterIn(files, p) = Rows(files[i], p).later
<1> DEFINE F == [i \in DOMAIN files |-> Rows(files[i], p).first]
           H == [i \in DOMAIN files |-> Rows(files[i], p).later]
<1>1. Len(files) \in Nat /\ DOMAIN files = 1..Len(files)
  OBVIOUS
<1>2. DOMAIN F = 1..Len(files) /\ \A i \in 1..Len(files) : F[i] = Rows(files[i], p).first
  BY <1>1
<1>3. DOMAIN H = 1..Len(files) /\ \A i \in 1..Len(files) : H[i] = Rows(files[i], p).later
  BY <1>1
<1>4. FirstIn(files, p) = Newest(F) /\ LaterIn(files, p) = Newest(H)
  BY InFiles
<1> HIDE DEF F, H
<1>5. Newest(F) # {} => \E i \in 1..Len(files) : Newest(F) = F[i]
  BY <1>1, <1>2, NewestCases
<1>6. Newest(H) # {} => \E i \in 1..Len(files) : Newest(H) = H[i]
  BY <1>1, <1>3, NewestCases
<1> QED BY <1>1, <1>2, <1>3, <1>4, <1>5, <1>6

-----------------------------------------------------------------------------
(* Share terms: what a plan makes of counts that are in the terms of every split *)

(* A row of files that know every split. *)
Told(row) == row.terms = Cardinality(splits)

(* A version's count is in the terms of the splits up to the day it is known from. *)
InTerms(v) == v.shares = Shares(Cardinality(splits), v.from)

(* Every row of T is in W still, superseded or closed perhaps. *)
Remains(T, W) == \A r \in T : \E q \in W : q.loaded = r.loaded /\ q.from = r.from

LEMMA FirstReportedTerms ==
  ASSUME NEW p \in Periods, NEW T, Records(T, p), Headed(T, p), NEW row \in ReadFirst, Told(row),
         today \in Nat \ {0}, splits \subseteq Days, MaxDay \in Nat
  PROVE  LET U == FirstReported(T, p, row)
         IN  /\ Remains(T, U)
             /\ (\A v \in InForce(T, p) : InTerms(v)) => \A v \in InForce(U, p) : InTerms(v)
             /\ \A q \in Current(U, p) : q.no = 1 \/ \E r \in Current(T, p) : r.no = q.no
<1> DEFINE H == Current(T, p)
           new == Filed(p, row)
           corrected == Corrected(T, p, row)
           U == FirstReported(T, p, row)
<1>1. CASE H = {}
  <2>1. U = T \union {new} /\ Current(U, p) = {new}
    BY <1>1, FirstReportedShape
  <2>2. new.no = 1 /\ new.shares = Shares(row.terms, new.from)
    BY FiledRecord
  <2> HIDE DEF U, new
  <2> QED BY <2>1, <2>2 DEF U, Remains, InForce, InTerms, Told
<1>2. CASE H # {}
  <2>1. /\ U = (T \ corrected) \union {Superseded(r) : r \in corrected}
                \union {Redated(p, row, r) : r \in corrected}
        /\ Current(U, p) = (H \ corrected) \union {Redated(p, row, r) : r \in corrected}
    BY <1>2, FirstReportedShape
  <2>2. ASSUME NEW r \in corrected
        PROVE  /\ Redated(p, row, r).no = 1
               /\ Redated(p, row, r).shares = Shares(row.terms, Redated(p, row, r).from)
    <3>1. r.to \in Nat
      BY DEF Corrected, Current, Records, Record
    <3> HIDE DEF corrected
    <3> QED BY <3>1, RedatedRecord
  <2>3. \A r \in corrected : Superseded(r).loaded = r.loaded /\ Superseded(r).from = r.from
    <3>1. \A r \in corrected : r \in Record
      BY DEF Corrected, Current, Records
    <3> HIDE DEF corrected
    <3> QED BY <3>1 DEF Superseded, Record
  <2> HIDE DEF U, corrected
  <2>4. Remains(T, U)
    BY <2>1, <2>3 DEF Remains
  <2>5. ASSUME \A v \in InForce(T, p) : InTerms(v), NEW v \in InForce(U, p) PROVE InTerms(v)
    <3>1. v \in Current(U, p) /\ v.to = Null
      BY DEF InForce
    <3>2. CASE v \in H
      BY <2>5, <3>1, <3>2 DEF InForce
    <3>3. CASE v \in {Redated(p, row, r) : r \in corrected}
      BY <2>2, <3>3 DEF InTerms, Told
    <3> QED BY <2>1, <3>1, <3>2, <3>3
  <2>6. \A q \in Current(U, p) : q.no = 1 \/ \E r \in H : r.no = q.no
    BY <2>1, <2>2
  <2> QED BY <2>4, <2>5, <2>6 DEF U
<1> QED BY <1>1, <1>2

LEMMA RestatedTerms ==
  ASSUME NEW p \in Periods, NEW T, Good(T, p), NEW row \in ReadLater, Told(row),
         NEW filings, \A f \in filings : f.filed \in Days,
         today \in Nat \ {0}, splits \subseteq Days, MaxDay \in Nat
  PROVE  LET W == Restated(T, p, row, filings)
         IN  /\ Remains(T, W)
             /\ (\A v \in InForce(T, p) : InTerms(v)) =>
                  /\ \A v \in InForce(W, p) : InTerms(v)
                  /\ \A r, s \in Current(W, p) :
                       (\A q \in Current(T, p) : q.no # r.no) /\ r.no = s.no + 1 /\ s.no # 0
                         => r.figure # s.figure
<1> DEFINE H == Current(T, p)
           closed == Closed(T, p, row)
           next(r) == Restatement(H, r, row)
           W == Restated(T, p, row, filings)
<1>1. Records(T, p) /\ Headed(T, p)
  BY GoodIsRecords, GoodIsHeaded
<1>2. CASE H = {}
  <2> DEFINE n == RestatedAlone(p, row, filings)
  <2>1. W = T \union {n}
    BY <1>2 DEF Restated
  <2>2. /\ n.period = p /\ n.no = 1 /\ n.until = Null
        /\ n.shares = Shares(row.terms, n.from)
    BY AloneRecord
  <2> HIDE DEF W, n
  <2>3. Current(W, p) = {n}
    BY <1>2, <2>1, <2>2 DEF Current
  <2>4. Remains(T, W)
    BY <2>1 DEF Remains
  <2>5. \A v \in InForce(W, p) : InTerms(v)
    BY <2>2, <2>3 DEF InForce, InTerms, Told
  <2>6. \A r, s \in Current(W, p) : r.no # s.no + 1
    BY <2>2, <2>3
  <2> QED BY <2>4, <2>5, <2>6 DEF W
<1>3. CASE H # {}
  <2>1. /\ W = (T \ closed) \union {Shut(r) : r \in closed} \union {next(r) : r \in closed}
        /\ Current(W, p) = (H \ closed) \union {Shut(r) : r \in closed} \union {next(r) : r \in closed}
    BY <1>1, <1>3, RestatedShape
  <2>2. ASSUME NEW r \in closed
        PROVE  /\ r \in InForce(T, p) /\ r \in H /\ r.to = Null /\ r.no \in Nat \ {0}
               /\ Shut(r).to # Null /\ Shut(r).no = r.no /\ Shut(r).figure = r.figure
               /\ Shut(r).from = r.from /\ Shut(r).loaded = r.loaded
    BY <1>1, ClosedIs
  <2>3. \A r \in closed :
           /\ next(r).no = r.no + 1 /\ next(r).figure = row.figure
           /\ next(r).shares = Shares(row.terms, next(r).from)
    <3>1. \A r \in closed : r \in InForce(T, p)
      BY <2>2
    <3> HIDE DEF closed
    <3> QED BY <1>1, <3>1, RestatementRecord
  <2>4. \A r \in closed : Moved(r, Compared(r, row), FALSE)
    BY DEF Closed
  <2> HIDE DEF W, next, closed
  <2>5. Remains(T, W)
    BY <2>1, <2>2 DEF Remains
  <2>6. ASSUME \A v \in InForce(T, p) : InTerms(v), NEW v \in InForce(W, p) PROVE InTerms(v)
    <3>1. v \in Current(W, p) /\ v.to = Null
      BY DEF InForce
    <3>2. CASE v \in H
      BY <2>6, <3>1, <3>2 DEF InForce
    <3>3. CASE v \in {next(r) : r \in closed}
      BY <2>3, <3>3 DEF InTerms, Told
    <3> QED BY <2>1, <2>2, <3>1, <3>2, <3>3
  <2>7. ASSUME \A v \in InForce(T, p) : InTerms(v), NEW r \in Current(W, p), NEW s \in Current(W, p),
               \A q \in H : q.no # r.no, r.no = s.no + 1
        PROVE  r.figure # s.figure
    <3>1. PICK f \in closed : r = next(f)
      BY <2>1, <2>2, <2>7
    <3>2. f \in InForce(T, p) /\ f \in H /\ f.to = Null /\ f.no \in Nat \ {0}
      BY <2>2
    <3>3. \A q \in H : q.no \in Nat \ {0} /\ q.no <= f.no /\ (q.no = f.no => q = f)
      BY <1>1, <3>2 DEF Headed, Good, Chain
    <3>4. s.no \in Nat /\ s.no = f.no
      <4>1. s.no \in Nat
        BY <2>1, <2>2, <2>3, <3>3
      <4>2. r.no = f.no + 1
        BY <2>3, <3>1
      <4> QED BY <2>7, <3>2, <4>1, <4>2
    <3>5. s = Shut(f)
      <4>1. \A q \in closed : q = f
        BY <2>2, <3>2, <3>3, <1>1 DEF Headed
      <4>2. s # next(f)
        BY <2>3, <3>2, <3>4
      <4>3. s \notin H \ closed
        BY <3>1, <3>3, <3>4
      <4> QED BY <2>1, <4>1, <4>2, <4>3
    <3>6. f.shares = Shares(row.terms, f.from)
      BY <2>7, <3>2 DEF InTerms, Told
    <3>7. f.figure # row.figure
      BY <2>4, <3>1, <3>6 DEF Moved, Compared
    <3> QED BY <2>2, <2>3, <3>1, <3>5, <3>7
  <2> QED BY <2>5, <2>6, <2>7 DEF W
<1> QED BY <1>2, <1>3

LEMMA PlannedTerms ==
  ASSUME NEW p \in Periods, NEW T, Good(T, p), today \in Days, splits \subseteq Days,
         MaxDay \in Nat, NEW said, said.first \subseteq ReadFirst, said.later \subseteq ReadLater,
         \A row \in said.first \union said.later : Told(row),
         NEW filings, \A f \in filings : f.filed \in Days
  PROVE  LET W == Planned(T, p, said, filings)
         IN  /\ Remains(T, W)
             /\ (\A v \in InForce(T, p) : InTerms(v)) =>
                  /\ \A v \in InForce(W, p) : InTerms(v)
                  /\ \A r, s \in Current(W, p) :
                       (\A q \in Current(T, p) : q.no < r.no) /\ r.no = s.no + 1 /\ s.no # 0
                         => r.figure # s.figure
<1> DEFINE x == TheFirst(said)
           y == TheLater(said)
           U == IF said.first = {} THEN T ELSE FirstReported(T, p, x)
           W == IF said.later = {} THEN U ELSE Restated(U, p, y, filings)
<1>1. /\ said.first # {} => x \in ReadFirst /\ Told(x)
      /\ said.later # {} => y \in ReadLater /\ Told(y)
  BY DEF TheFirst, TheLater
<1>2. today \in Nat \ {0} /\ Records(T, p) /\ Headed(T, p)
  BY GoodIsRecords, GoodIsHeaded DEF Days
<1> HIDE DEF x, y
<1>3. Good(U, p)
  BY <1>1, FirstReportedMoves
<1>4. /\ Remains(T, U)
      /\ (\A v \in InForce(T, p) : InTerms(v)) => \A v \in InForce(U, p) : InTerms(v)
      /\ \A q \in Current(U, p) : q.no = 1 \/ \E r \in Current(T, p) : r.no = q.no
  <2>1. CASE said.first = {}
    BY <2>1 DEF Remains
  <2>2. CASE said.first # {}
    BY <1>1, <1>2, <2>2, FirstReportedTerms
  <2> QED BY <2>1, <2>2
<1> HIDE DEF U
<1>5. CASE said.later = {}
  <2>1. Planned(T, p, said, filings) = U
    BY <1>5 DEF Planned, U, x, TheFirst
  <2>2. ASSUME NEW r \in Current(U, p), NEW s \in Current(U, p),
               \A q \in Current(T, p) : q.no < r.no, r.no = s.no + 1, s.no # 0
        PROVE  FALSE
    <3>1. r.no \in Nat /\ s.no \in Nat
      BY <1>3, GoodIsHeaded DEF Headed
    <3>2. \A q \in Current(T, p) : q.no \in Nat
      BY <1>2 DEF Headed
    <3> QED BY <1>4, <2>2, <3>1, <3>2
  <2> QED BY <1>4, <2>1, <2>2
<1>6. CASE said.later # {}
  <2>1. Planned(T, p, said, filings) = W
    BY DEF Planned, U, x, y, TheFirst, TheLater
  <2>2. /\ Remains(U, W)
        /\ (\A v \in InForce(U, p) : InTerms(v)) =>
             /\ \A v \in InForce(W, p) : InTerms(v)
             /\ \A r, s \in Current(W, p) :
                  (\A q \in Current(U, p) : q.no # r.no) /\ r.no = s.no + 1 /\ s.no # 0
                    => r.figure # s.figure
    BY <1>1, <1>2, <1>3, <1>6, RestatedTerms
  <2>3. \A r \in Current(W, p) : r.no \in Nat
    <3>1. Records(W, p)
      BY <1>1, <1>2, <1>3, <1>6, GoodIsRecords, GoodIsHeaded, RestatedKnows
    <3> QED BY <3>1 DEF Records, Current, Record
  <2> HIDE DEF W
  <2>4. Remains(T, W)
    BY <1>4, <2>2 DEF Remains
  <2>5. ASSUME NEW r \in Current(W, p), NEW s \in Current(W, p),
               \A q \in Current(T, p) : q.no < r.no, r.no = s.no + 1, s.no # 0
        PROVE  \A q \in Current(U, p) : q.no # r.no
    <3>1. r.no \in Nat /\ s.no \in Nat
      BY <2>3
    <3>2. \A q \in Current(T, p) : q.no \in Nat
      BY <1>2 DEF Headed
    <3> QED BY <1>4, <2>5, <3>1, <3>2
  <2> QED BY <1>4, <2>1, <2>2, <2>4, <2>5
<1> QED BY <1>5, <1>6

(* The table a load writes from files that know every split. *)
LEMMA WrittenTerms ==
  ASSUME rows \subseteq Row, \A p \in Periods : Good(Of(rows, p), p),
         today \in Days, splits \subseteq Days, MaxDay \in Nat,
         NEW files \in Seq(File1),
         \A p \in Periods : \A row \in FirstIn(files, p) \union LaterIn(files, p) : Told(row),
         NEW p \in Periods
  PROVE  LET W == Written(rows, Said(files))
         IN  /\ Remains(Of(rows, p), Of(W, p))
             /\ (\A v \in InForce(rows, p) : InTerms(v)) =>
                  /\ \A v \in InForce(W, p) : InTerms(v)
                  /\ \A r, s \in Current(W, p) :
                       (\A q \in Current(rows, p) : q.no < r.no) /\ r.no = s.no + 1 /\ s.no # 0
                         => r.figure # s.figure
<1> DEFINE said == Said(files)[p]
           filings == Filings(rows, Said(files))
           T == Of(rows, p)
           W == Written(rows, Said(files))
<1>1. said.first \subseteq ReadFirst /\ said.later \subseteq ReadLater
  BY ReadTypes
<1>2. \A row \in said.first \union said.later : Told(row)
  BY DEF FirstIn, LaterIn
<1>3. Of(W, p) = Planned(T, p, said, filings) /\ \A f \in filings : f.filed \in Days
  BY WrittenPeriods DEF Days
<1>4. \A S : Current(Of(S, p), p) = Current(S, p) /\ InForce(Of(S, p), p) = InForce(S, p)
  BY DEF Current, InForce, Of
<1> HIDE DEF said, filings, T, W
<1>5. Good(T, p)
  BY DEF T
<1>6. /\ Remains(T, Of(W, p))
      /\ (\A v \in InForce(T, p) : InTerms(v)) =>
           /\ \A v \in InForce(Of(W, p), p) : InTerms(v)
           /\ \A r, s \in Current(Of(W, p), p) :
                (\A q \in Current(T, p) : q.no < r.no) /\ r.no = s.no + 1 /\ s.no # 0
                  => r.figure # s.figure
  BY <1>1, <1>2, <1>3, <1>5, PlannedTerms
<1> QED BY <1>4, <1>6 DEF T, W

-----------------------------------------------------------------------------
(* SF1's rows, and what the files say of the splits *)

(* No two filings of a period are of one day. *)
Distinct == \A p \in Periods : \A r, s \in reports[p] : r.filed = s.filed => r = s

(* A file knows no split but those there are, and of no row but those SF1 holds. *)
Known ==
    \A i \in DOMAIN pending :
        /\ pending[i].terms <= Cardinality(splits)
        /\ \A p \in Periods :
             /\ pending[i].reports[p] # {} => reports[p] # {}
             /\ pending[i].restated[p] # NoFigure => restated[p].figure # NoFigure

(* A row that does not know a split is stamped again. *)
Restamping ==
    \A p \in Periods :
        /\ \A row \in FirstIn(pending, p) : Told(row) \/ \E r \in reports[p] : r.fresh
        /\ \A row \in LaterIn(pending, p) : Told(row) \/ restated[p].fresh

(* What the night reads knows every split, and so do all rows if the last file does. *)
LastKnows ==
    phase = "night" \/ (pending # <<>> /\ InStep(pending[Len(pending)])) =>
        \A p \in Periods : \A row \in FirstIn(pending, p) \union LaterIn(pending, p) : Told(row)

(* The versions in force count their shares in the terms of the splits so far. *)
Counts == \A p \in Periods : Missed(p) \/ \A v \in InForce(rows, p) : InTerms(v)

TermsInv == Distinct /\ Known /\ Restamping /\ LastKnows /\ Counts

(* The first filing of a period is the only one of its day. *)
LEMMA FirstFilingIs ==
  ASSUME NEW S, S \subseteq Report, S # {}, \A r, s \in S : r.filed = s.filed => r = s,
         MaxDay \in Nat
  PROVE  \E r \in S : FirstFiling(S) = {r} /\ \A s \in S : r.filed <= s.filed
<1> DEFINE D == {r.filed : r \in S}
<1>1. \A r \in S : r.filed \in Nat
  BY DEF Report, Days
<1>2. D \subseteq Nat /\ D # {}
  BY <1>1
<1>3. PICK d \in D : \A e \in D : d <= e
  <2> HIDE DEF D
  <2> QED BY <1>2, LeastElement
<1>4. PICK r \in S : d = r.filed
  BY <1>3
<1>5. \A s \in S : r.filed <= s.filed
  BY <1>3, <1>4
<1>6. r \in FirstFiling(S)
  BY <1>1, <1>5 DEF FirstFiling
<1>7. \A s \in FirstFiling(S) : s = r
  BY <1>1, <1>5 DEF FirstFiling
<1> QED BY <1>5, <1>6, <1>7

LEMMA SplitsFinite ==
  ASSUME splits \subseteq Days, MaxDay \in Nat
  PROVE  IsFiniteSet(splits) /\ Cardinality(splits) \in Nat
<1>1. IsFiniteSet(1..MaxDay)
  BY FS_Interval
<1>2. IsFiniteSet(splits)
  BY <1>1, FS_Subset DEF Days
<1> QED BY <1>2, FS_CardinalityType

(* A day's split is counted in the terms of the day and of the days after it. *)
LEMMA OneMoreSplit ==
  ASSUME splits \subseteq Days, MaxDay \in Nat, today \notin splits, today \in Nat,
         splits' = splits \union {today}
  PROVE  /\ Cardinality(splits') = Cardinality(splits) + 1
         /\ \A v : v.from \in Nat /\ v.shares \in Int /\ v.from < today /\ InTerms(v)
              => v.shares = Shares(Cardinality(splits), v.from)'
<1>1. IsFiniteSet(splits) /\ Cardinality(splits') = Cardinality(splits) + 1
  BY SplitsFinite, FS_AddElement
<1>2. ASSUME NEW d \in Nat, d < today
      PROVE  SplitsAfter(d)' = SplitsAfter(d) + 1
  <2>1. {s \in splits' : s > d} = {s \in splits : s > d} \union {today}
    BY <1>2
  <2>2. IsFiniteSet({s \in splits : s > d}) /\ today \notin {s \in splits : s > d}
    BY <1>1, FS_Subset
  <2> QED BY <2>1, <2>2, FS_AddElement DEF SplitsAfter
<1>3. Cardinality(splits) \in Nat /\ \A d : SplitsAfter(d) \in Nat
  BY SplitsFinite, SplitsCounted
<1>4. ASSUME NEW v, v.from \in Nat, v.shares \in Int, v.from < today, InTerms(v)
      PROVE  v.shares = Shares(Cardinality(splits), v.from)'
  <2>1. v.shares = Cardinality(splits) - SplitsAfter(v.from)
    BY <1>4 DEF InTerms, Shares
  <2>2. Shares(Cardinality(splits), v.from)' = Cardinality(splits') - SplitsAfter(v.from)'
    BY DEF Shares
  <2> QED BY <1>1, <1>2, <1>3, <1>4, <2>1, <2>2
<1> QED BY <1>1, <1>4

-----------------------------------------------------------------------------
(* SF1's steps, in share terms *)

(* What SF1 does to a period's rows: none is lost, none loses its stamp, and a split *)
(* stamps them all.                                                                  *)
Listed(p) ==
    /\ reports[p] # {} => reports'[p] # {}
    /\ restated[p].figure # NoFigure => restated'[p].figure # NoFigure
    /\ (\E r \in reports[p] : r.fresh) => \E r \in reports'[p] : r.fresh
    /\ restated[p].fresh => restated'[p].fresh

SplitSeen ==
    /\ today \notin splits /\ splits' = splits \union {today}
    /\ \A r \in rows : r.loaded # today
    /\ \A p \in Periods : /\ \A r \in reports'[p] : r.fresh
                          /\ restated[p].figure # NoFigure => restated'[p].fresh

LEMMA StampedSame ==
  ASSUME NEW S, S \subseteq Report
  PROVE  /\ \A x \in Stamped(S) : \E r \in S : /\ x.filed = r.filed /\ x.figure = r.figure
                                               /\ r.fresh => x.fresh
         /\ \A r \in S : \E x \in Stamped(S) : /\ x.filed = r.filed /\ x.figure = r.figure
                                               /\ r.fresh => x.fresh
         /\ (\A r, s \in S : r.filed = s.filed => r = s) =>
              \A x, y \in Stamped(S) : x.filed = y.filed => x = y
<1>1. \A r \in S : LET x == [r EXCEPT !.fresh = TRUE]
                   IN  x.filed = r.filed /\ x.figure = r.figure /\ x.fresh
  BY DEF Report
<1>2. CASE Alone
  BY <1>2 DEF Stamped
<1>3. CASE ~Alone
  <2> DEFINE st(r) == [r EXCEPT !.fresh = TRUE]
  <2>1. Stamped(S) = {st(r) : r \in S}
    BY <1>3 DEF Stamped
  <2>2. \A r \in S : st(r).filed = r.filed /\ st(r).figure = r.figure /\ st(r).fresh
    BY <1>1
  <2> HIDE DEF st
  <2> QED BY <2>1, <2>2
<1> QED BY <1>2, <1>3

LEMMA WorldTerms ==
  ASSUME Inv, Distinct, World
  PROVE  /\ phase = "day" /\ UNCHANGED <<today, phase, full, pending, backfilled, rows>>
         /\ Distinct' /\ (\A p \in Periods : Listed(p)) /\ (splits' = splits \/ SplitSeen)
<1> DEFINE Goal == /\ phase = "day" /\ UNCHANGED <<today, phase, full, pending, backfilled, rows>>
                   /\ Distinct' /\ (\A p \in Periods : Listed(p)) /\ (splits' = splits \/ SplitSeen)
<1>1. /\ reports \in [Periods -> SUBSET Report]
      /\ restated \in [Periods -> [figure : Figures \union {NoFigure}, fresh : BOOLEAN]]
      /\ NoFigure \notin Figures
  BY ConstantsAssumption DEF Inv, TypeOK
<1>2. ASSUME NEW p \in Periods, NEW f \in Figures, NEW d \in Days, File(p, f, d) PROVE Goal
  <2> DEFINE new == [filed |-> d, figure |-> f, fresh |-> TRUE]
  <2>1. /\ phase = "day" /\ UNCHANGED <<today, phase, splits, full, pending, backfilled, rows>>
        /\ reports' = [reports EXCEPT ![p] = Stamped(reports[p]) \union {new}]
        /\ restated' = [restated EXCEPT ![p] = Served(f)]
        /\ \A r \in reports[p] : r.filed < d
    BY <1>2 DEF File, Event, Daytime, ledger
  <2>2. new.filed = d /\ new.fresh
    OBVIOUS
  <2>3. \A x \in Stamped(reports[p]) : x.filed < d /\ x.filed \in Nat /\ d \in Nat
    BY <1>1, <2>1, StampedSame DEF Report, Days
  <2>4. \A x, y \in Stamped(reports[p]) : x.filed = y.filed => x = y
    BY <1>1, StampedSame DEF Distinct
  <2> HIDE DEF new
  <2>5. Distinct'
    BY <1>1, <2>1, <2>2, <2>3, <2>4 DEF Distinct
  <2>6. \A q \in Periods : Listed(q)
    BY <1>1, <2>1, <2>2 DEF Listed, Served
  <2> QED BY <2>1, <2>5, <2>6
<1>3. ASSUME NEW p \in Periods, NEW f \in Figures, Restate(p, f) PROVE Goal
  <2>1. /\ phase = "day" /\ UNCHANGED <<today, phase, splits, full, pending, backfilled, rows>>
        /\ reports' = [reports EXCEPT ![p] = Stamped(reports[p])]
        /\ restated' = [restated EXCEPT ![p] = Served(f)]
    BY <1>3 DEF Restate, Event, Daytime, ledger
  <2>2. \A x, y \in Stamped(reports[p]) : x.filed = y.filed => x = y
    BY <1>1, StampedSame DEF Distinct
  <2>3. \A r \in reports[p] : \E x \in Stamped(reports[p]) : r.fresh => x.fresh
    BY <1>1, StampedSame
  <2>4. Distinct'
    BY <1>1, <2>1, <2>2 DEF Distinct
  <2>5. \A q \in Periods : Listed(q)
    BY <1>1, <2>1, <2>3 DEF Listed, Served
  <2> QED BY <2>1, <2>4, <2>5
<1>4. ASSUME NEW p \in Periods, NEW r \in reports[p], NEW f \in Figures, NEW d \in Days,
             Fix(p, r, f, d)
      PROVE  Goal
  <2> DEFINE new == [filed |-> d, figure |-> f, fresh |-> TRUE]
             rest == reports[p] \ {r}
  <2>1. /\ phase = "day" /\ UNCHANGED <<today, phase, splits, full, pending, backfilled, rows>>
        /\ reports' = [reports EXCEPT ![p] = Stamped(rest) \union {new}]
        /\ restated' = [restated EXCEPT ![p] = Restamped(p)]
        /\ \A s \in rest : s.filed # d
    BY <1>4 DEF Fix, Event, Daytime, ledger
  <2>2. new.filed = d /\ new.fresh
    OBVIOUS
  <2>3. rest \subseteq Report /\ \A x, y \in rest : x.filed = y.filed => x = y
    BY <1>1 DEF Distinct
  <2> HIDE DEF new, rest
  <2>4. \A x \in Stamped(rest) : x.filed # d
    BY <2>1, <2>3, StampedSame
  <2>5. \A x, y \in Stamped(rest) : x.filed = y.filed => x = y
    BY <2>3, StampedSame
  <2>6. Distinct'
    BY <1>1, <2>1, <2>2, <2>4, <2>5 DEF Distinct
  <2>7. \A q \in Periods : Listed(q)
    BY <1>1, <2>1, <2>2 DEF Listed, Restamped, Served
  <2> QED BY <2>1, <2>6, <2>7
<1>5. CASE Split
  <2> DEFINE st(r) == [r EXCEPT !.fresh = TRUE]
  <2>1. /\ phase = "day" /\ UNCHANGED <<today, phase, full, pending, backfilled, rows>>
        /\ today \notin splits /\ splits' = splits \union {today} /\ \A r \in rows : r.loaded # today
        /\ \A p \in Periods : reports'[p] = {st(r) : r \in reports[p]}
        /\ \A p \in Periods :
             restated'[p] = IF restated[p] = NoRow THEN NoRow ELSE Served(restated[p].figure)
    BY <1>5 DEF Split, Event, Daytime, ledger
  <2>2. \A p \in Periods : \A r \in reports[p] : st(r).filed = r.filed /\ st(r).fresh
    BY <1>1 DEF Report
  <2>3. \A p \in Periods : restated[p].figure # NoFigure \/ restated[p].fresh => restated[p] # NoRow
    BY DEF NoRow
  <2> HIDE DEF st
  <2>4. Distinct'
    BY <2>1, <2>2 DEF Distinct
  <2>7. ASSUME NEW p \in Periods, restated[p].figure # NoFigure \/ restated[p].fresh
        PROVE  restated'[p].figure = restated[p].figure /\ restated'[p].fresh
    <3>1. restated[p] # NoRow
      BY <2>3, <2>7, Zenon
    <3>2. restated'[p] = Served(restated[p].figure)
      BY <2>1, <3>1, Zenon
    <3> QED BY <3>2 DEF Served
  <2>8. \A p \in Periods : \A x \in reports'[p] : x.fresh
    BY <2>1, <2>2
  <2>9. \A p \in Periods : \A r \in reports[p] : st(r) \in reports'[p]
    BY <2>1
  <2>5. \A p \in Periods : Listed(p)
    BY <2>7, <2>8, <2>9 DEF Listed
  <2>6. SplitSeen
    BY <2>1, <2>7, <2>8 DEF SplitSeen
  <2> QED BY <2>1, <2>4, <2>5, <2>6
<1> QED BY <1>2, <1>3, <1>4, <1>5 DEF World

-----------------------------------------------------------------------------
(* The steps of the invariant, in share terms *)

(* What every step may use of the invariant. *)
LEMMA InvFacts ==
  ASSUME Inv
  PROVE  /\ reports \in [Periods -> SUBSET Report]
         /\ restated \in [Periods -> [figure : Figures \union {NoFigure}, fresh : BOOLEAN]]
         /\ NoFigure \notin Figures /\ MaxDay \in Nat /\ today \in Nat \ {0}
         /\ splits \subseteq Days /\ full.file \in File1 /\ full.after \in 0..Len(pending)
         /\ pending \in Seq(File1) /\ rows \subseteq Row
         /\ \A p \in Periods : Good(Of(rows, p), p)
         /\ phase \in {"day", "night"} /\ (phase = "night" => today \in Days)
         /\ \A i \in DOMAIN pending : pending[i] \in File1
BY ConstantsAssumption DEF Inv, TypeOK, Clock, Days

LEMMA CountsStay ==
  ASSUME Inv, Counts, today \in Days, NEW files \in Seq(File1), splits' = splits,
         \A p \in Periods : \A row \in FirstIn(files, p) \union LaterIn(files, p) : Told(row),
         rows' = Written(rows, Said(files))
  PROVE  Counts'
<1> SUFFICES ASSUME NEW p \in Periods
             PROVE  Missed(p)' \/ \A v \in InForce(rows', p) : v.shares = Shares(Cardinality(splits), v.from)'
  BY DEF Counts, InTerms
<1>1. /\ Remains(Of(rows, p), Of(rows', p))
      /\ (\A v \in InForce(rows, p) : InTerms(v)) => \A v \in InForce(rows', p) : InTerms(v)
  BY InvFacts, WrittenTerms
<1>2. \A v : Shares(Cardinality(splits), v.from)' = Shares(Cardinality(splits), v.from)
  BY DEF Shares, SplitsAfter
<1>3. CASE Missed(p)
  <2>1. PICK r \in rows, s \in splits : r.period = p /\ r.loaded < s /\ s <= r.from
    BY <1>3 DEF Missed
  <2>2. r \in Of(rows, p)
    BY <2>1 DEF Of
  <2>3. PICK q \in Of(rows', p) : q.loaded = r.loaded /\ q.from = r.from
    BY <1>1, <2>2 DEF Remains
  <2>4. q \in rows' /\ q.period = p
    BY DEF Of
  <2> QED BY <2>1, <2>3, <2>4 DEF Missed
<1>4. CASE ~Missed(p)
  <2>1. \A v \in InForce(rows', p) : InTerms(v)
    BY <1>1, <1>4 DEF Counts
  <2> QED BY <1>2, <2>1 DEF InTerms
<1> QED BY <1>3, <1>4

(* A step that leaves SF1, the deltas and the table alone. *)
LEMMA TermsFrame ==
  ASSUME TermsInv, UNCHANGED <<reports, restated, splits, pending>>, phase' = phase \/ phase' = "day"
  PROVE  Distinct' /\ Known' /\ Restamping' /\ LastKnows' /\ (rows' = rows => Counts')
<1>1. Distinct /\ Known /\ Restamping /\ LastKnows /\ Counts
  BY DEF TermsInv
<1>2. Distinct' /\ Known'
  BY <1>1 DEF Distinct, Known
<1>3. Restamping'
  BY <1>1 DEF Restamping, Told, FirstIn, LaterIn
<1>4. LastKnows'
  BY <1>1 DEF LastKnows, InStep, Told, FirstIn, LaterIn
<1>5. ASSUME rows' = rows PROVE Counts'
  BY <1>1, <1>5 DEF Counts, Missed, InTerms, Shares, SplitsAfter
<1> QED BY <1>2, <1>3, <1>4, <1>5

LEMMA RowsOfFile ==
  ASSUME NEW f \in File1, NEW p \in Periods
  PROVE  /\ Rows(f, p).first # {} => f.reports[p] # {}
         /\ Rows(f, p).later # {} => f.restated[p] # NoFigure
         /\ \A row \in Rows(f, p).first \union Rows(f, p).later : row.terms = f.terms
<1>1. Rows(f, p).first = {[filed |-> r.filed, figure |-> r.figure, terms |-> f.terms]
                          : r \in FirstFiling(f.reports[p])}
  BY DEF Rows
<1>2. Rows(f, p).later = IF f.restated[p] = NoFigure THEN {}
                         ELSE {[figure |-> f.restated[p], terms |-> f.terms]}
  BY DEF Rows
<1>3. FirstFiling(f.reports[p]) \subseteq f.reports[p]
  BY DEF FirstFiling
<1> QED BY <1>1, <1>2, <1>3

LEMMA WorldKeepsTerms ==
  ASSUME Inv, TermsInv, World
  PROVE  TermsInv'
<1>1. /\ phase' = "day" /\ UNCHANGED <<today, full, pending, backfilled, rows>>
      /\ Distinct' /\ (\A p \in Periods : Listed(p)) /\ (splits' = splits \/ SplitSeen)
  BY WorldTerms DEF TermsInv
<1>2. Known /\ Restamping /\ LastKnows /\ Counts
  BY DEF TermsInv
<1>3. \A p \in Periods : FirstIn(pending, p)' = FirstIn(pending, p) /\ LaterIn(pending, p)' = LaterIn(pending, p)
  BY <1>1 DEF FirstIn, LaterIn
<1>4. Cardinality(splits) \in Nat
      /\ (SplitSeen => Cardinality(splits') = Cardinality(splits) + 1 /\ Cardinality(splits') \in Nat)
  BY InvFacts, SplitsFinite, OneMoreSplit DEF SplitSeen
<1>5. Known'
  <2>1. ASSUME NEW i \in DOMAIN pending PROVE pending[i].terms <= Cardinality(splits')
    <3>1. pending[i].terms <= Cardinality(splits) /\ pending[i].terms \in Nat
      BY <1>2, InvFacts DEF Known, File1
    <3> QED BY <1>1, <1>4, <3>1
  <2> QED BY <1>1, <1>2, <2>1 DEF Known, Listed
<1>6. Restamping'
  <2>1. ASSUME NEW p \in Periods, NEW row \in FirstIn(pending, p)
        PROVE  Told(row)' \/ \E r \in reports'[p] : r.fresh
    <3>1. CASE splits' = splits
      BY <1>1, <1>2, <3>1 DEF Restamping, Listed, Told
    <3>2. CASE SplitSeen
      <4>1. PICK i \in DOMAIN pending : FirstIn(pending, p) = Rows(pending[i], p).first
        BY InvFacts, InSome
      <4>2. pending[i].reports[p] # {}
        BY <4>1, InvFacts, RowsOfFile
      <4>3. reports'[p] # {}
        BY <1>1, <1>2, <4>2 DEF Known, Listed
      <4> QED BY <3>2, <4>3 DEF SplitSeen
    <3> QED BY <1>1, <3>1, <3>2
  <2>2. ASSUME NEW p \in Periods, NEW row \in LaterIn(pending, p)
        PROVE  Told(row)' \/ restated'[p].fresh
    <3>1. CASE splits' = splits
      BY <1>1, <1>2, <3>1 DEF Restamping, Listed, Told
    <3>2. CASE SplitSeen
      <4>1. PICK i \in DOMAIN pending : LaterIn(pending, p) = Rows(pending[i], p).later
        BY InvFacts, InSome
      <4>2. pending[i].restated[p] # NoFigure
        BY <4>1, InvFacts, RowsOfFile
      <4>3. restated[p].figure # NoFigure
        BY <1>1, <1>2, <4>2 DEF Known
      <4> QED BY <3>2, <4>3 DEF SplitSeen
    <3> QED BY <1>1, <3>1, <3>2
  <2> QED BY <1>3, <2>1, <2>2 DEF Restamping
<1>7. LastKnows'
  <2>1. CASE splits' = splits
    BY <1>1, <1>2, <1>3, <2>1 DEF LastKnows, InStep, Told
  <2>2. CASE SplitSeen
    <3>1. ASSUME pending # <<>> PROVE pending[Len(pending)].terms # Cardinality(splits')
      <4>1. Len(pending) \in DOMAIN pending
        BY <3>1, InvFacts
      <4>2. pending[Len(pending)].terms <= Cardinality(splits) /\ pending[Len(pending)].terms \in Nat
        BY <1>2, <4>1, InvFacts DEF Known, File1
      <4> QED BY <1>4, <2>2, <4>2
    <3> QED BY <1>1, <3>1 DEF LastKnows, InStep
  <2> QED BY <1>1, <2>1, <2>2
<1>8. Counts'
  <2>1. CASE splits' = splits
    BY <1>1, <1>2, <2>1 DEF Counts, Missed, InTerms, Shares, SplitsAfter
  <2>2. CASE SplitSeen
    <3> SUFFICES ASSUME NEW p \in Periods, ~Missed(p)', NEW v \in InForce(rows, p)
                 PROVE  v.shares = Shares(Cardinality(splits), v.from)'
      BY <1>1 DEF Counts, InTerms
    <3>1. splits \subseteq splits' /\ today \in splits' /\ rows' = rows
      BY <1>1, <2>2 DEF SplitSeen
    <3>2. ~Missed(p)
      BY <3>1 DEF Missed
    <3>3. InTerms(v)
      BY <1>2, <3>2 DEF Counts
    <3>4. v \in rows /\ v.period = p /\ v \in Row
      BY InvFacts DEF InForce, Current
    <3>5. v.loaded \in Nat /\ v.from \in Nat /\ v.shares \in Int /\ today \in Nat
      BY <3>4, InvFacts DEF Row, Days
    <3>6. v.loaded <= today /\ v.loaded # today
      BY <2>2, <3>4, InvFacts DEF Good, Of, SplitSeen
    <3>7. v.from < today
      BY <3>1, <3>4, <3>5, <3>6 DEF Missed
    <3> QED BY <2>2, <3>3, <3>5, <3>7, InvFacts, OneMoreSplit DEF SplitSeen
  <2> QED BY <1>1, <2>1, <2>2
<1> QED BY <1>1, <1>5, <1>6, <1>7, <1>8 DEF TermsInv

(* The night's delta, fetched: a row of SF1's that a file holds. *)
Fresh(p) == {r \in reports[p] : r.fresh}
DeltaFile ==
    Listing([p \in Periods |-> Fresh(p)],
            [p \in Periods |-> IF restated[p].fresh THEN restated[p].figure ELSE NoFigure])

LEMMA DeltaSays ==
  ASSUME Inv, Daytime
  PROVE  /\ DeltaFile \in File1 /\ DeltaFile.terms = Cardinality(splits)
         /\ \A p \in Periods :
              /\ DeltaFile.reports[p] = Fresh(p) /\ Fresh(p) \subseteq reports[p]
              /\ DeltaFile.restated[p] = IF restated[p].fresh THEN restated[p].figure ELSE NoFigure
<1> DEFINE R == [p \in Periods |-> Fresh(p)]
           M == [p \in Periods |-> IF restated[p].fresh THEN restated[p].figure ELSE NoFigure]
<1>1. /\ reports \in [Periods -> SUBSET Report]
      /\ restated \in [Periods -> [figure : Figures \union {NoFigure}, fresh : BOOLEAN]]
  BY InvFacts
<1>2. \A p \in Periods : Fresh(p) \subseteq reports[p] /\ reports[p] \subseteq Report
  BY <1>1 DEF Fresh
<1>3. R \in [Periods -> SUBSET Report] /\ M \in [Periods -> Figures \union {NoFigure}]
  BY <1>1, <1>2
<1>4. today \in Days /\ Sf1Types /\ MaxDay \in Nat
  BY InvFacts DEF Daytime, Days, Sf1Types
<1>5. /\ \A p \in Periods : R[p] = Fresh(p)
      /\ \A p \in Periods : M[p] = IF restated[p].fresh THEN restated[p].figure ELSE NoFigure
  OBVIOUS
<1>6. DeltaFile = Listing(R, M)
  BY DEF DeltaFile
<1> HIDE DEF R, M
<1>7. Listing(R, M) \in File1
  BY <1>3, <1>4, ListingTypes
<1> QED BY <1>2, <1>5, <1>6, <1>7 DEF Listing

LEMMA FetchedDelta ==
  ASSUME Inv, FetchDelta
  PROVE  /\ Daytime /\ phase' = "night" /\ UNCHANGED <<today, splits, full, backfilled, rows>>
         /\ pending' = IF NothingFresh THEN pending ELSE Append(pending, DeltaFile)
         /\ \A p \in Periods :
              /\ \A x \in reports'[p] : ~x.fresh /\ \E r \in reports[p] : x.filed = r.filed /\ x.figure = r.figure
              /\ \A r \in reports[p] : \E x \in reports'[p] : x.filed = r.filed /\ x.figure = r.figure
              /\ restated'[p].figure = restated[p].figure /\ ~restated'[p].fresh
         /\ Distinct => Distinct'
<1> DEFINE st(r) == [r EXCEPT !.fresh = FALSE]
<1>1. /\ reports \in [Periods -> SUBSET Report]
      /\ restated \in [Periods -> [figure : Figures \union {NoFigure}, fresh : BOOLEAN]]
  BY InvFacts
<1>2. \A r \in Report : st(r).filed = r.filed /\ st(r).figure = r.figure /\ ~st(r).fresh
  BY DEF Report
<1>3. /\ \A p \in Periods : reports'[p] = {st(r) : r \in reports[p]}
      /\ \A p \in Periods : restated'[p] = [restated[p] EXCEPT !.fresh = FALSE]
  BY DEF FetchDelta
<1>4. /\ Daytime /\ phase' = "night" /\ UNCHANGED <<today, splits, full, backfilled, rows>>
      /\ pending' = IF NothingFresh THEN pending ELSE Append(pending, DeltaFile)
  BY DEF FetchDelta, DeltaFile, Fresh
<1>5. ASSUME NEW p \in Periods
      PROVE  restated'[p].figure = restated[p].figure /\ ~restated'[p].fresh
  BY <1>1, <1>3
<1> HIDE DEF st
<1>6. ASSUME NEW p \in Periods
      PROVE  /\ \A x \in reports'[p] : ~x.fresh /\ \E r \in reports[p] : x.filed = r.filed /\ x.figure = r.figure
             /\ \A r \in reports[p] : \E x \in reports'[p] : x.filed = r.filed /\ x.figure = r.figure
  BY <1>1, <1>2, <1>3
<1>7. ASSUME Distinct PROVE Distinct'
  BY <1>1, <1>2, <1>3, <1>7 DEF Distinct
<1> QED BY <1>4, <1>5, <1>6, <1>7

(* What the files say of a period, once the delta is fetched. *)
LEMMA DeltaRows ==
  ASSUME Inv, Distinct, FetchDelta, NEW p \in Periods
  PROVE  /\ FirstIn(pending', p) = IF Fresh(p) # {} THEN Rows(DeltaFile, p).first ELSE FirstIn(pending, p)
         /\ restated[p].figure # NoFigure =>
              LaterIn(pending', p) = IF restated[p].fresh THEN {[figure |-> restated[p].figure, terms |-> Cardinality(splits)]}
                                     ELSE LaterIn(pending, p)
         /\ restated[p].figure = NoFigure => LaterIn(pending', p) = LaterIn(pending, p)
<1>1. DeltaFile \in File1 /\ pending \in Seq(File1) /\ reports[p] \subseteq Report /\ MaxDay \in Nat
  BY FetchedDelta, DeltaSays, InvFacts
<1>2. pending' = IF NothingFresh THEN pending ELSE Append(pending, DeltaFile)
  BY FetchedDelta
<1>3. /\ DeltaFile.reports[p] = Fresh(p) /\ Fresh(p) \subseteq reports[p] /\ DeltaFile.terms = Cardinality(splits)
      /\ DeltaFile.restated[p] = IF restated[p].fresh THEN restated[p].figure ELSE NoFigure
  BY FetchedDelta, DeltaSays
<1>4. NothingFresh => Fresh(p) = {} /\ ~restated[p].fresh
  BY DEF NothingFresh, Fresh
<1>5. Rows(DeltaFile, p).first = {} <=> Fresh(p) = {}
  <2>1. CASE Fresh(p) = {}
    BY <1>1, <1>3, <2>1, RowsOfFile
  <2>2. CASE Fresh(p) # {}
    <3>1. \A r, s \in Fresh(p) : r.filed = s.filed => r = s
      BY <1>3 DEF Distinct
    <3>2. PICK r \in Fresh(p) : FirstFiling(Fresh(p)) = {r}
      BY <1>1, <1>3, <2>2, <3>1, FirstFilingIs
    <3> QED BY <1>3, <2>2, <3>2 DEF Rows
  <2> QED BY <2>1, <2>2
<1>6. Rows(DeltaFile, p).later = IF restated[p].fresh /\ restated[p].figure # NoFigure
                                 THEN {[figure |-> restated[p].figure, terms |-> Cardinality(splits)]} ELSE {}
  BY <1>3 DEF Rows
<1>7. CASE NothingFresh
  BY <1>2, <1>4, <1>7
<1>8. CASE ~NothingFresh
  BY <1>1, <1>2, <1>5, <1>6, <1>8, InOneMore
<1> QED BY <1>7, <1>8

LEMMA DeltaTold ==
  ASSUME Inv, TermsInv, FetchDelta
  PROVE  TermsInv'
<1>1. Distinct /\ Known /\ Restamping /\ LastKnows /\ Counts
  BY DEF TermsInv
<1>2. /\ Daytime /\ phase' = "night" /\ UNCHANGED <<today, splits, full, backfilled, rows>> /\ Distinct'
      /\ pending' = IF NothingFresh THEN pending ELSE Append(pending, DeltaFile)
  BY <1>1, FetchedDelta
<1>3. DeltaFile \in File1 /\ pending \in Seq(File1) /\ DeltaFile.terms = Cardinality(splits)
      /\ Cardinality(splits) \in Nat
  BY <1>2, DeltaSays, InvFacts, SplitsFinite
<1>4. ASSUME NEW p \in Periods, NEW row \in FirstIn(pending', p) \union LaterIn(pending', p)
      PROVE  Told(row)
  <2>1. CASE row \in FirstIn(pending', p)
    <3>1. CASE Fresh(p) # {}
      BY <1>1, <1>3, <2>1, <3>1, DeltaRows, RowsOfFile DEF Told
    <3>2. CASE Fresh(p) = {}
      BY <1>1, <2>1, <3>2, DeltaRows DEF Restamping, Fresh
    <3> QED BY <3>1, <3>2
  <2>2. CASE row \in LaterIn(pending', p)
    <3>1. CASE restated[p].figure # NoFigure
      BY <1>1, <2>2, <3>1, DeltaRows DEF Restamping, Told
    <3>2. CASE restated[p].figure = NoFigure
      <4>1. row \in LaterIn(pending, p)
        BY <1>1, <2>2, <3>2, DeltaRows
      <4>2. PICK i \in DOMAIN pending : LaterIn(pending, p) = Rows(pending[i], p).later
        BY <1>3, <4>1, InSome
      <4>3. pending[i].restated[p] # NoFigure
        BY <4>1, <4>2, InvFacts, RowsOfFile
      <4> QED BY <1>1, <3>2, <4>3 DEF Known
    <3> QED BY <3>1, <3>2
  <2> QED BY <1>4, <2>1, <2>2
<1>5. Restamping'
  BY <1>2, <1>4 DEF Restamping, Told, FirstIn, LaterIn
<1>6. LastKnows'
  BY <1>2, <1>4 DEF LastKnows, Told, FirstIn, LaterIn
<1>7. Counts'
  BY <1>1, <1>2 DEF Counts, Missed, InTerms, Shares, SplitsAfter
<1>8. Known'
  <2>1. ASSUME NEW f \in File1, f.terms <= Cardinality(splits),
               \A p \in Periods : /\ f.reports[p] # {} => reports[p] # {}
                                  /\ f.restated[p] # NoFigure => restated[p].figure # NoFigure
        PROVE  /\ f.terms <= Cardinality(splits')
               /\ \A p \in Periods : /\ f.reports[p] # {} => reports'[p] # {}
                                     /\ f.restated[p] # NoFigure => restated'[p].figure # NoFigure
    BY <1>2, <2>1, FetchedDelta
  <2>2. ASSUME NEW i \in DOMAIN pending'
        PROVE  /\ pending'[i] \in File1 /\ pending'[i].terms <= Cardinality(splits)
               /\ \A p \in Periods : /\ pending'[i].reports[p] # {} => reports[p] # {}
                                     /\ pending'[i].restated[p] # NoFigure => restated[p].figure # NoFigure
    <3>1. CASE i \in DOMAIN pending /\ pending'[i] = pending[i]
      BY <1>1, <3>1, InvFacts DEF Known
    <3>2. CASE pending'[i] = DeltaFile
      BY <1>2, <1>3, <3>2, DeltaSays
    <3> QED BY <1>2, <1>3, <3>1, <3>2
  <2> QED BY <2>1, <2>2 DEF Known
<1> QED BY <1>2, <1>5, <1>6, <1>7, <1>8 DEF TermsInv

(* A load leaves what a file knows of SF1 and the splits alone. *)
LEMMA LoadFrame ==
  ASSUME TermsInv, UNCHANGED world, Inv, pending' = pending
  PROVE  Distinct' /\ Known' /\ Restamping'
<1>1. UNCHANGED <<reports, restated, splits>>
  BY DEF world
<1> QED BY <1>1 DEF TermsInv, Distinct, Known, Restamping, Told, FirstIn, LaterIn

LEMMA FailsTold ==
  ASSUME Inv, TermsInv, FetchFails
  PROVE  TermsInv'
<1>1. /\ UNCHANGED <<today, reports, restated, splits, full, pending, rows>>
      /\ pending # <<>> => InStep(pending[Len(pending)])
  BY DEF FetchFails, world, ledger
<1>2. \A p \in Periods : \A row \in FirstIn(pending, p) \union LaterIn(pending, p) : Told(row)
  <2>1. CASE pending = <<>>
    BY <2>1, InNoFile
  <2>2. CASE pending # <<>>
    BY <1>1, <2>2 DEF TermsInv, LastKnows
  <2> QED BY <2>1, <2>2
<1>3. Distinct' /\ Known' /\ Restamping'
  BY <1>1, LoadFrame DEF world
<1>4. LastKnows'
  BY <1>1, <1>2 DEF LastKnows, Told, FirstIn, LaterIn
<1>5. Counts'
  BY <1>1 DEF TermsInv, Counts, Missed, InTerms, Shares, SplitsAfter
<1> QED BY <1>3, <1>4, <1>5 DEF TermsInv

LEMMA LoadTold ==
  ASSUME Inv, TermsInv, Load
  PROVE  TermsInv'
<1>1. /\ phase = "night" /\ UNCHANGED <<reports, restated, splits>> /\ pending' = <<>>
      /\ rows' = Written(rows, Said(pending))
  BY DEF Load, world
<1>2. today \in Days /\ pending \in Seq(File1)
  BY <1>1, InvFacts
<1>3. \A p \in Periods : \A row \in FirstIn(pending, p) \union LaterIn(pending, p) : Told(row)
  BY <1>1 DEF TermsInv, LastKnows
<1>4. Counts'
  BY <1>1, <1>2, <1>3, CountsStay DEF TermsInv
<1>5. Distinct'
  BY <1>1 DEF TermsInv, Distinct
<1>6. Known'
  BY <1>1 DEF Known
<1>7. \A p \in Periods : FirstIn(pending', p) = {} /\ LaterIn(pending', p) = {}
  BY <1>1, InNoFile
<1>8. Restamping' /\ LastKnows'
  BY <1>7 DEF Restamping, LastKnows, FirstIn, LaterIn
<1> QED BY <1>4, <1>5, <1>6, <1>8 DEF TermsInv

LEMMA BreaksTold ==
  ASSUME Inv, TermsInv, NEW wrote \in BOOLEAN, LoadBreaks(wrote)
  PROVE  TermsInv'
<1>1. /\ phase = "night" /\ phase' = "day" /\ UNCHANGED <<reports, restated, splits, pending>>
      /\ rows' = rows \/ rows' = Written(rows, Said(pending))
  BY DEF LoadBreaks, world, EndDay
<1>2. today \in Days /\ pending \in Seq(File1)
  BY <1>1, InvFacts
<1>3. Distinct' /\ Known' /\ Restamping' /\ LastKnows' /\ (rows' = rows => Counts')
  BY <1>1, TermsFrame
<1>4. \A p \in Periods : \A row \in FirstIn(pending, p) \union LaterIn(pending, p) : Told(row)
  BY <1>1 DEF TermsInv, LastKnows
<1>5. rows' = Written(rows, Said(pending)) => Counts'
  BY <1>1, <1>2, <1>4, CountsStay DEF TermsInv
<1> QED BY <1>1, <1>3, <1>5 DEF TermsInv

(* A backfill reads one file, which knows every split. *)
LEMMA FullTold ==
  ASSUME Inv, InStep(full.file)
  PROVE  /\ <<full.file>> \in Seq(File1)
         /\ \A p \in Periods : \A row \in FirstIn(<<full.file>>, p) \union LaterIn(<<full.file>>, p) : Told(row)
<1>1. full.file \in File1
  BY InvFacts
<1>2. <<full.file>> \in Seq(File1)
  BY <1>1
<1> QED BY <1>1, <1>2, InOneFile, RowsOfFile DEF Told, InStep

LEMMA BackfillTold ==
  ASSUME Inv, TermsInv, NEW done \in BOOLEAN, Backfill(done)
  PROVE  TermsInv'
<1> DEFINE fewer == SubSeq(pending, full.after + 1, Len(pending))
<1>1. /\ today \in Days /\ phase = "day" /\ phase' = "day" /\ UNCHANGED <<reports, restated, splits>>
      /\ InStep(full.file) /\ rows' = Written(rows, Said(<<full.file>>))
      /\ pending' = pending \/ pending' = fewer
  BY InvFacts DEF Backfill, Daytime, world, ledger, Days
<1>2. Counts'
  BY <1>1, FullTold, CountsStay DEF TermsInv
<1>3. CASE pending' = pending
  BY <1>1, <1>2, <1>3, TermsFrame DEF TermsInv
<1>4. CASE pending' = fewer
  <2>1. full.after \in 0..Len(pending) /\ pending \in Seq(File1)
    BY InvFacts
  <2>2. ASSUME NEW p \in Periods
        PROVE  /\ FirstIn(fewer, p) \subseteq FirstIn(pending, p)
               /\ LaterIn(fewer, p) \subseteq LaterIn(pending, p)
    BY <2>1, InFewer
  <2>3. /\ fewer \in Seq(File1)
        /\ \A i \in DOMAIN fewer : i + full.after \in DOMAIN pending /\ fewer[i] = pending[i + full.after]
        /\ fewer # <<>> => pending # <<>> /\ fewer[Len(fewer)] = pending[Len(pending)]
    <3>1. full.after + 1 \in 1..(Len(pending) + 1) /\ Len(pending) \in Nat /\ Len(pending) \in (full.after)..Len(pending)
      BY <2>1
    <3>2. /\ fewer \in Seq(File1) /\ Len(fewer) = Len(pending) - full.after
          /\ \A i \in 1..(Len(pending) - full.after) : fewer[i] = pending[i + full.after]
      BY <2>1, <3>1, SubSeqProperties
    <3> HIDE DEF fewer
    <3>3. ASSUME NEW i \in DOMAIN fewer
          PROVE  i \in 1..(Len(pending) - full.after) /\ i + full.after \in DOMAIN pending
      BY <2>1, <3>2
    <3>4. ASSUME fewer # <<>>
          PROVE  Len(fewer) \in 1..(Len(pending) - full.after) /\ pending # <<>>
                 /\ Len(fewer) + full.after = Len(pending)
      BY <2>1, <3>2, <3>4
    <3>5. ASSUME fewer # <<>> PROVE fewer[Len(fewer)] = pending[Len(pending)]
      BY <3>2, <3>4, <3>5
    <3> QED BY <3>2, <3>3, <3>4, <3>5
  <2> HIDE DEF fewer
  <2>4. Distinct /\ Known /\ Restamping /\ LastKnows
    BY DEF TermsInv
  <2>5. Distinct' /\ Known'
    BY <1>1, <1>4, <2>3, <2>4 DEF Distinct, Known
  <2>6. Restamping'
    BY <1>1, <1>4, <2>2, <2>4 DEF Restamping, Told, FirstIn, LaterIn
  <2>7. LastKnows'
    <3> SUFFICES ASSUME fewer # <<>>, InStep(fewer[Len(fewer)])
                 PROVE  \A p \in Periods : \A row \in FirstIn(fewer, p) \union LaterIn(fewer, p) : Told(row)
      BY <1>1, <1>4 DEF LastKnows, InStep, Told, FirstIn, LaterIn
    <3>1. \A p \in Periods : \A row \in FirstIn(pending, p) \union LaterIn(pending, p) : Told(row)
      BY <2>3, <2>4 DEF LastKnows
    <3> QED BY <2>2, <3>1
  <2> QED BY <1>2, <2>5, <2>6, <2>7 DEF TermsInv
<1> QED BY <1>1, <1>3, <1>4

LEMMA TermsStep == Inv /\ TermsInv /\ [Next]_vars => TermsInv'
<1> SUFFICES ASSUME Inv, TermsInv, [Next]_vars PROVE TermsInv'
  OBVIOUS
<1>1. CASE World
  BY <1>1, WorldKeepsTerms
<1>2. CASE FetchDelta
  BY <1>2, DeltaTold
<1>3. CASE FetchFails
  BY <1>3, FailsTold
<1>4. ASSUME NEW done \in BOOLEAN, Backfill(done) PROVE TermsInv'
  BY <1>4, BackfillTold
<1>5. CASE Load
  BY <1>5, LoadTold
<1>6. ASSUME NEW wrote \in BOOLEAN, LoadBreaks(wrote) PROVE TermsInv'
  BY <1>6, BreaksTold
<1>7. CASE FetchFull \/ Waits \/ UNCHANGED vars
  <2>1. UNCHANGED <<reports, restated, splits, pending, rows>> /\ (phase' = phase \/ phase' = "day")
    BY <1>7 DEF FetchFull, Waits, EndDay, vars, world, ledger
  <2> QED BY <2>1, TermsFrame DEF TermsInv
<1> QED BY <1>1, <1>2, <1>3, <1>4, <1>5, <1>6, <1>7 DEF Next, IngestFundamentals

LEMMA TermsInit == Init => TermsInv
<1> SUFFICES ASSUME Init PROVE TermsInv
  OBVIOUS
<1>1. /\ pending = <<>> /\ rows = {} /\ reports = [p \in Periods |-> {}] /\ phase = "day"
  BY DEF Init
<1>2. \A p \in Periods : FirstIn(pending, p) = {} /\ LaterIn(pending, p) = {}
  BY <1>1, InNoFile
<1> QED BY <1>1, <1>2 DEF TermsInv, Distinct, Known, Restamping, LastKnows, Counts, InForce, Current

LEMMA TermsAlways == Spec => [](Inv /\ TermsInv)
<1>1. Init => Inv /\ TermsInv
  BY InitInv, TermsInit
<1>2. Inv /\ TermsInv /\ [Next]_vars => (Inv /\ TermsInv)'
  BY InvStep, TermsStep
<1> QED BY <1>1, <1>2, PTL DEF Spec

(* A table that no load writes makes no version; one that a load writes from files *)
(* which know every split makes one of a figure that differs.                      *)
NewFigures ==
    \A p \in Periods : \A r, s \in Current(rows', p) :
        /\ \A q \in rows : q.period = p => q.no < r.no
        /\ r.no = s.no + 1 /\ ~Missed(p)
        => r.figure # s.figure

LEMMA WrittenNewFigures ==
  ASSUME Inv, Counts, today \in Days, NEW files \in Seq(File1),
         \A p \in Periods : \A row \in FirstIn(files, p) \union LaterIn(files, p) : Told(row),
         rows' = Written(rows, Said(files)), rows' \subseteq Row
  PROVE  NewFigures
<1> SUFFICES ASSUME NEW p \in Periods, NEW r \in Current(rows', p), NEW s \in Current(rows', p),
                    \A q \in rows : q.period = p => q.no < r.no, r.no = s.no + 1, ~Missed(p)
             PROVE  r.figure # s.figure
  BY DEF NewFigures
<1>1. (\A v \in InForce(rows, p) : InTerms(v)) =>
        \A x, y \in Current(rows', p) :
          (\A q \in Current(rows, p) : q.no < x.no) /\ x.no = y.no + 1 /\ y.no # 0 => x.figure # y.figure
  BY InvFacts, WrittenTerms
<1>2. \A v \in InForce(rows, p) : InTerms(v)
  BY DEF Counts
<1>3. \A q \in Current(rows, p) : q.no < r.no
  BY DEF Current
<1>4. s.no # 0
  BY DEF Current, Row
<1> QED BY <1>1, <1>2, <1>3, <1>4

(* However many splits lie between the files a load reads and those it read, and  *)
(* whatever failed between, a version a load adds is of a figure that the version *)
(* before it is not: SF1's re-expression of the share counts adds none.           *)
THEOREM SplitsAreNoVersions == Spec => SplitIsNoVersion
<1>1. ASSUME Inv, TermsInv, [Next]_vars PROVE [NewFigures]_vars
  <2>1. rows' \subseteq Row
    BY <1>1, InvStep, InvFacts DEF Inv, TypeOK
  <2>2. CASE UNCHANGED rows
    <3> SUFFICES ASSUME NEW p \in Periods, NEW r \in Current(rows', p),
                        \A q \in rows : q.period = p => q.no < r.no
                 PROVE  FALSE
      BY DEF NewFigures
    <3>1. r \in rows /\ r.period = p /\ r.no \in Nat
      BY <2>1, <2>2 DEF Current, Row
    <3> QED BY <3>1
  <2>3. ASSUME NEW done \in BOOLEAN, Backfill(done) PROVE NewFigures
    <3>1. today \in Days /\ InStep(full.file) /\ rows' = Written(rows, Said(<<full.file>>))
      BY <1>1, <2>3, InvFacts DEF Backfill, Daytime, Days
    <3> QED BY <1>1, <2>1, <3>1, FullTold, WrittenNewFigures DEF TermsInv
  <2>4. CASE phase = "night" /\ rows' = Written(rows, Said(pending))
    <3>1. today \in Days /\ pending \in Seq(File1)
      BY <1>1, <2>4, InvFacts
    <3>2. \A p \in Periods : \A row \in FirstIn(pending, p) \union LaterIn(pending, p) : Told(row)
      BY <1>1, <2>4 DEF TermsInv, LastKnows
    <3> QED BY <1>1, <2>1, <2>4, <3>1, <3>2, WrittenNewFigures DEF TermsInv
  <2>5. World => UNCHANGED rows
    BY DEF World, File, Restate, Fix, Split
  <2>6. Load \/ (\E wrote \in BOOLEAN : LoadBreaks(wrote)) =>
          UNCHANGED rows \/ (phase = "night" /\ rows' = Written(rows, Said(pending)))
    BY DEF Load, LoadBreaks
  <2>7. FetchFull \/ FetchDelta \/ FetchFails \/ Waits \/ UNCHANGED vars => UNCHANGED rows
    BY DEF FetchFull, FetchDelta, FetchFails, Waits, vars
  <2> QED BY <1>1, <2>2, <2>3, <2>4, <2>5, <2>6, <2>7 DEF Next, IngestFundamentals
<1>2. [NewFigures]_vars => [\A p \in Periods : \A r, s \in Current(rows', p) :
          /\ \A q \in rows : q.period = p => q.no < r.no
          /\ r.no = s.no + 1 /\ ~Missed(p)
          => r.figure # s.figure]_vars
  BY DEF NewFigures
<1> QED BY <1>1, <1>2, TermsAlways, PTL DEF Spec, SplitIsNoVersion

-----------------------------------------------------------------------------
(* A load leaves the versions of a period with one in force *)

LEMMA PlannedEnds ==
  ASSUME NEW p \in Periods, NEW T, Good(T, p), Current(T, p) # {} => InForce(T, p) # {},
         today \in Days, splits \subseteq Days, MaxDay \in Nat,
         NEW said, said.first \subseteq ReadFirst, said.later \subseteq ReadLater,
         NEW filings, \A f \in filings : f.filed \in Days
  PROVE  LET W == Planned(T, p, said, filings)
         IN  Current(W, p) # {} => InForce(W, p) # {}
<1> DEFINE x == TheFirst(said)
           y == TheLater(said)
           U == IF said.first = {} THEN T ELSE FirstReported(T, p, x)
           W == IF said.later = {} THEN U ELSE Restated(U, p, y, filings)
<1>1. /\ said.first # {} => x \in ReadFirst
      /\ said.later # {} => y \in ReadLater
  BY DEF TheFirst, TheLater
<1>2. today \in Nat \ {0} /\ Records(T, p) /\ Headed(T, p)
  BY GoodIsRecords, GoodIsHeaded DEF Days
<1>3. Planned(T, p, said, filings) = W
  BY DEF Planned, TheFirst, TheLater
<1> HIDE DEF x, y
<1>4. Current(U, p) # {} => InForce(U, p) # {}
  <2>1. CASE said.first # {} /\ Current(T, p) = {}
    <3>1. Current(U, p) = {Filed(p, x)} /\ Filed(p, x).to = Null
      BY <1>1, <1>2, <2>1, FirstReportedShape, FiledRecord
    <3> HIDE DEF U
    <3> QED BY <3>1 DEF InForce
  <2>2. CASE said.first # {} /\ Current(T, p) # {}
    <3> DEFINE corrected == Corrected(T, p, x)
    <3>1. Current(U, p) = (Current(T, p) \ corrected) \union {Redated(p, x, r) : r \in corrected}
      BY <1>1, <1>2, <2>2, FirstReportedShape
    <3>2. PICK v \in Current(T, p) : v.to = Null
      BY <2>2 DEF InForce
    <3>3. Redated(p, x, v).to = v.to
      <4>1. v.to \in Nat
        BY <3>2 DEF Null
      <4> QED BY <1>1, <1>2, <2>2, <4>1, RedatedRecord
    <3> HIDE DEF corrected, U
    <3> QED BY <3>1, <3>2, <3>3 DEF InForce
  <2> QED BY <2>1, <2>2
<1>5. Records(U, p) /\ Headed(U, p)
  BY <1>1, <1>2, FirstReportedKnows
<1> HIDE DEF U
<1>6. CASE said.later # {} /\ Current(U, p) = {}
  <2>1. W = U \union {RestatedAlone(p, y, filings)}
    BY <1>6 DEF Restated
  <2>2. /\ RestatedAlone(p, y, filings).period = p /\ RestatedAlone(p, y, filings).to = Null
        /\ RestatedAlone(p, y, filings).until = Null
    BY <1>1, <1>2, <1>6, AloneRecord
  <2> HIDE DEF W
  <2> QED BY <1>3, <2>1, <2>2 DEF InForce, Current
<1>7. CASE said.later # {} /\ Current(U, p) # {}
  <2> DEFINE closed == Closed(U, p, y)
             next(r) == Restatement(Current(U, p), r, y)
  <2>1. Current(W, p) = (Current(U, p) \ closed) \union {Shut(r) : r \in closed}
                          \union {next(r) : r \in closed}
    BY <1>1, <1>2, <1>5, <1>7, RestatedShape
  <2>2. PICK v \in InForce(U, p) : TRUE
    BY <1>4, <1>7
  <2>3. v \in Current(U, p) /\ v.to = Null /\ next(v).to = Null
    BY <1>1, <1>2, <1>5, <1>7, <2>2, RestatementRecord DEF InForce
  <2> HIDE DEF W, closed, next
  <2> QED BY <1>3, <2>1, <2>3 DEF InForce
<1> QED BY <1>3, <1>4, <1>6, <1>7

-----------------------------------------------------------------------------
(* What SF1 lists reaches the table (SF1 stamping every row of a changed period) *)

(* A period's restated row comes with its first report, and they are stamped together. *)
Stamps ==
    \A p \in Periods :
        /\ reports[p] # {} => restated[p].figure # NoFigure
        /\ restated[p].figure = NoFigure => ~restated[p].fresh
        /\ \A r \in reports[p] : r.fresh = restated[p].fresh

Pair(f) == \A p \in Periods : f.reports[p] # {} => f.restated[p] # NoFigure
Paired == Pair(full.file) /\ \A i \in DOMAIN pending : Pair(pending[i])

(* A period that has versions has one in force. *)
Ended == \A p \in Periods : Current(rows, p) # {} => InForce(rows, p) # {}

(* The rows that files hold of a period are SF1's first report and its restated row. *)
IsFirst(row, p) == \E r \in FirstFiling(reports[p]) : row.filed = r.filed /\ row.figure = r.figure
IsLater(row, p) == row.figure = restated[p].figure
SayFirst(files, p) == FirstIn(files, p) # {} /\ \A row \in FirstIn(files, p) : IsFirst(row, p)
SayLater(files, p) == LaterIn(files, p) # {} /\ \A row \in LaterIn(files, p) : IsLater(row, p)
Silent(files, p) == FirstIn(files, p) = {} /\ LaterIn(files, p) = {}

(* The table holds them: version 1 is the first report, or refused its correction, *)
(* and the version in force carries the restated row.                              *)
FirstHeld(p) ==
    \A r \in FirstFiling(reports[p]), v \in Current(rows, p) : v.no = 1 =>
        (v.filed = r.filed /\ v.figure = r.figure) \/ (v.to # Null /\ v.to <= r.filed)
LaterHeld(p) == \E v \in InForce(rows, p) : v.figure = restated[p].figure

(* Each is stamped, and so in the next delta; or in the deltas that wait; or held. *)
FirstDelivered ==
    \A p \in Periods : reports[p] # {} =>
        restated[p].fresh \/ SayFirst(pending, p) \/ (Silent(pending, p) /\ FirstHeld(p))
LaterDelivered ==
    \A p \in Periods : restated[p].figure # NoFigure =>
        restated[p].fresh \/ SayLater(pending, p) \/ (LaterIn(pending, p) = {} /\ LaterHeld(p))

(* Or, where a full file may take over, in it, or in the deltas recorded after it. *)
After == SubSeq(pending, full.after + 1, Len(pending))
FirstCovered ==
    full # NoFull => \A p \in Periods : reports[p] # {} =>
        restated[p].fresh \/ SayFirst(After, p) \/ (Silent(After, p) /\ SayFirst(<<full.file>>, p))
LaterCovered ==
    full # NoFull => \A p \in Periods : restated[p].figure # NoFigure =>
        restated[p].fresh \/ SayLater(After, p) \/ (LaterIn(After, p) = {} /\ SayLater(<<full.file>>, p))

Delivered == FirstDelivered /\ LaterDelivered
Covered == FirstCovered /\ LaterCovered
DeliveredInv == Stamps /\ Paired /\ Ended /\ Delivered /\ Covered

(* A load from files that say what SF1 lists leaves it held; one from files that  *)
(* are silent of a period leaves the period's versions alone.                     *)
LEMMA WrittenHolds ==
  ASSUME Inv, Ended, today \in Days, NEW files \in Seq(File1), NEW p \in Periods,
         UNCHANGED <<reports, restated>>, rows' = Written(rows, Said(files))
  PROVE  /\ SayFirst(files, p) => FirstHeld(p)'
         /\ SayLater(files, p) => LaterHeld(p)'
         /\ Silent(files, p) => Current(rows', p) = Current(rows, p)
         /\ Current(rows', p) # {} => InForce(rows', p) # {}
<1> DEFINE said == Said(files)[p]
           filings == Filings(rows, Said(files))
           T == Of(rows, p)
           W == Planned(T, p, said, filings)
<1>1. said.first \subseteq ReadFirst /\ said.later \subseteq ReadLater
  BY ReadTypes
<1>2. Of(rows', p) = W /\ \A f \in filings : f.filed \in Days
  BY InvFacts, WrittenPeriods
<1>3. said.first = FirstIn(files, p) /\ said.later = LaterIn(files, p)
  BY DEF FirstIn, LaterIn
<1>4. \A S : Current(Of(S, p), p) = Current(S, p) /\ InForce(Of(S, p), p) = InForce(S, p)
  BY DEF Current, InForce, Of
<1>5. Good(T, p) /\ Records(T, p) /\ Headed(T, p)
  BY InvFacts, GoodIsRecords, GoodIsHeaded
<1>6. Silent(files, p) => W = T
  BY <1>3 DEF Silent, Planned
<1> HIDE DEF said, filings, T, W
<1>7. /\ said.first # {} => FirstKnown(W, p, TheFirst(said))
      /\ said.later # {} => LaterKnown(W, p, TheLater(said))
  BY <1>1, <1>2, <1>5, InvFacts, PlannedKnows DEF W
<1>8. Current(W, p) # {} => InForce(W, p) # {}
  BY <1>1, <1>2, <1>4, <1>5, InvFacts, PlannedEnds DEF W, T, Ended
<1>9. Current(rows', p) = Current(W, p) /\ InForce(rows', p) = InForce(W, p)
  BY <1>2, <1>4
<1>10. ASSUME SayFirst(files, p) PROVE FirstHeld(p)'
  <2> DEFINE x == TheFirst(said)
  <2>1. x \in said.first /\ x \in ReadFirst
    BY <1>1, <1>3, <1>10 DEF SayFirst, TheFirst
  <2>2. PICK q \in FirstFiling(reports[p]) : x.filed = q.filed /\ x.figure = q.figure
    BY <1>3, <1>10, <2>1 DEF SayFirst, IsFirst
  <2>3. FirstKnown(W, p, x)
    BY <1>7, <2>1
  <2> HIDE DEF x
  <2>4. \A r \in FirstFiling(reports[p]) : r = q
    <3>1. \A r \in reports[p] : r.filed \in Nat
      BY InvFacts DEF Report, Days
    <3> QED BY <3>1 DEF FirstFiling
  <2>5. ASSUME NEW v \in Current(W, p), v.no = 1
        PROVE  (v.filed = q.filed /\ v.figure = q.figure) \/ (v.to # Null /\ v.to <= q.filed)
    <3>1. Unchanged(v, Filed(p, x)) \/ Refused(v, Filed(p, x))
      BY <2>3, <2>5 DEF FirstKnown
    <3> QED BY <2>2, <3>1 DEF Unchanged, Moved, Refused, Filed
  <2> QED BY <1>9, <2>4, <2>5 DEF FirstHeld
<1>11. ASSUME SayLater(files, p) PROVE LaterHeld(p)'
  <2> DEFINE y == TheLater(said)
  <2>1. y \in said.later
    BY <1>3, <1>11 DEF SayLater, TheLater
  <2>2. y.figure = restated[p].figure
    BY <1>3, <1>11, <2>1 DEF SayLater, IsLater
  <2>3. LaterKnown(W, p, y)
    BY <1>7, <2>1
  <2> HIDE DEF y
  <2>4. PICK v \in InForce(W, p) : ~Moved(v, Compared(v, y), FALSE)
    BY <1>8, <2>3 DEF LaterKnown
  <2>5. v.figure = y.figure
    BY <2>4 DEF Moved, Compared
  <2> QED BY <1>9, <2>2, <2>4, <2>5 DEF LaterHeld
<1> QED BY <1>4, <1>6, <1>8, <1>9, <1>10, <1>11 DEF T

-----------------------------------------------------------------------------
(* The steps of the invariant, of what SF1 lists *)

(* A step of SF1 leaves a period alone or stamps all its rows. *)
Untouched(p) == reports'[p] = reports[p] /\ restated'[p] = restated[p]
AllStamped(p) ==
    restated'[p].fresh /\ restated'[p].figure # NoFigure /\ \A r \in reports'[p] : r.fresh

LEMMA StampedAll ==
  ASSUME ~Alone, NEW S, S \subseteq Report
  PROVE  \A x \in Stamped(S) : x.fresh
<1> DEFINE st(r) == [r EXCEPT !.fresh = TRUE]
<1>1. Stamped(S) = {st(r) : r \in S}
  BY DEF Stamped
<1>2. \A r \in S : st(r).fresh
  BY DEF Report
<1> HIDE DEF st
<1> QED BY <1>1, <1>2

LEMMA WorldStamps ==
  ASSUME ~Alone, Inv, Stamps, World
  PROVE  \A p \in Periods : Untouched(p) \/ AllStamped(p)
<1>1. /\ reports \in [Periods -> SUBSET Report]
      /\ restated \in [Periods -> [figure : Figures \union {NoFigure}, fresh : BOOLEAN]]
      /\ NoFigure \notin Figures
  BY InvFacts
<1>2. ASSUME NEW p \in Periods, NEW f \in Figures, NEW R, reports' = [reports EXCEPT ![p] = R],
             \A r \in R : r.fresh, restated' = [restated EXCEPT ![p] = Served(f)]
      PROVE  \A q \in Periods : Untouched(q) \/ AllStamped(q)
  <2>1. reports'[p] = R
    BY <1>1, <1>2
  <2>2. restated'[p].fresh /\ restated'[p].figure # NoFigure
    BY <1>1, <1>2 DEF Served
  <2> QED BY <1>1, <1>2, <2>1, <2>2 DEF Untouched, AllStamped
<1> DEFINE new(f, d) == {[filed |-> d, figure |-> f, fresh |-> TRUE]}
<1>7. \A f, d : \A r \in new(f, d) : r.fresh
  OBVIOUS
<1> HIDE DEF new
<1>3. ASSUME NEW p \in Periods, NEW f \in Figures, NEW d \in Days, File(p, f, d)
      PROVE  \A q \in Periods : Untouched(q) \/ AllStamped(q)
  <2> DEFINE R == Stamped(reports[p]) \union new(f, d)
  <2>1. reports' = [reports EXCEPT ![p] = R] /\ restated' = [restated EXCEPT ![p] = Served(f)]
    BY <1>3 DEF File, new
  <2>2. \A r \in R : r.fresh
    BY <1>1, <1>7, StampedAll
  <2> HIDE DEF R
  <2> QED BY <1>2, <2>1, <2>2
<1>4. ASSUME NEW p \in Periods, NEW f \in Figures, Restate(p, f)
      PROVE  \A q \in Periods : Untouched(q) \/ AllStamped(q)
  <2> DEFINE R == Stamped(reports[p])
  <2>1. reports' = [reports EXCEPT ![p] = R] /\ restated' = [restated EXCEPT ![p] = Served(f)]
    BY <1>4 DEF Restate
  <2>2. \A r \in R : r.fresh
    BY <1>1, StampedAll
  <2> HIDE DEF R
  <2> QED BY <1>2, <2>1, <2>2
<1>5. ASSUME NEW p \in Periods, NEW r \in reports[p], NEW f \in Figures, NEW d \in Days,
             Fix(p, r, f, d)
      PROVE  \A q \in Periods : Untouched(q) \/ AllStamped(q)
  <2> DEFINE R == Stamped(reports[p] \ {r}) \union new(f, d)
             g == restated[p].figure
  <2>1. reports' = [reports EXCEPT ![p] = R] /\ restated' = [restated EXCEPT ![p] = Restamped(p)]
    BY <1>5 DEF Fix, new
  <2>2. g \in Figures
    BY <1>1 DEF Stamps
  <2>3. restated[p] # NoRow
    BY <1>1, <2>2 DEF NoRow
  <2>4. Restamped(p) = Served(g)
    BY <2>3 DEF Restamped
  <2>5. reports[p] \ {r} \subseteq Report
    BY <1>1
  <2>6. \A x \in R : x.fresh
    BY <1>7, <2>5, StampedAll
  <2> HIDE DEF R, g
  <2> QED BY <1>2, <2>1, <2>2, <2>4, <2>6
<1>6. ASSUME Split, NEW p \in Periods PROVE Untouched(p) \/ AllStamped(p)
  <2> DEFINE st(r) == [r EXCEPT !.fresh = TRUE]
  <2>1. /\ reports'[p] = {st(r) : r \in reports[p]}
        /\ restated'[p] = IF restated[p] = NoRow THEN NoRow ELSE Served(restated[p].figure)
    BY <1>6 DEF Split
  <2>2. \A r \in reports[p] : st(r).fresh
    BY <1>1 DEF Report
  <2> HIDE DEF st
  <2>3. CASE restated[p].figure = NoFigure
    <3>1. restated[p].fresh = FALSE /\ reports[p] = {}
      BY <1>1, <2>3 DEF Stamps
    <3>2. restated[p] = NoRow
      BY <1>1, <2>3, <3>1 DEF NoRow
    <3> QED BY <2>1, <3>1, <3>2 DEF Untouched
  <2>4. CASE restated[p].figure # NoFigure
    <3>1. restated[p] # NoRow
      BY <2>4 DEF NoRow
    <3>2. restated'[p] = Served(restated[p].figure)
      BY <2>1, <3>1, Zenon
    <3> QED BY <2>1, <2>2, <2>4, <3>2 DEF AllStamped, Served
  <2> QED BY <2>3, <2>4
<1> QED BY <1>3, <1>4, <1>5, <1>6 DEF World

(* What a step that leaves the deltas, the full file and the table alone keeps. *)
LEMMA SameSaid ==
  ASSUME UNCHANGED <<pending, full, rows>>
  PROVE  /\ Paired' <=> Paired
         /\ Ended' <=> Ended
         /\ After' = After
BY DEF Paired, Pair, Ended, After

LEMMA WorldDelivers ==
  ASSUME ~Alone, Inv, DeliveredInv, World
  PROVE  DeliveredInv'
<1>1. UNCHANGED <<pending, full, rows>> /\ \A p \in Periods : Untouched(p) \/ AllStamped(p)
  BY WorldStamps DEF DeliveredInv, World, File, Restate, Fix, Split, ledger
<1>2. Stamps /\ Paired /\ Ended /\ FirstDelivered /\ LaterDelivered /\ FirstCovered /\ LaterCovered
  BY DEF DeliveredInv, Delivered, Covered
<1>3. Paired' /\ Ended' /\ After' = After
  BY <1>1, <1>2, SameSaid
<1>4. /\ restated \in [Periods -> [figure : Figures \union {NoFigure}, fresh : BOOLEAN]]
      /\ restated' \in [Periods -> [figure : Figures \union {NoFigure}, fresh : BOOLEAN]]
      /\ reports \in [Periods -> SUBSET Report] /\ reports' \in [Periods -> SUBSET Report]
  BY InvFacts, InvStep DEF Next, IngestFundamentals, Inv, TypeOK
<1>5. Stamps'
  <2> SUFFICES ASSUME NEW p \in Periods
               PROVE  /\ reports'[p] # {} => restated'[p].figure # NoFigure
                      /\ restated'[p].figure = NoFigure => ~restated'[p].fresh
                      /\ \A r \in reports'[p] : r.fresh = restated'[p].fresh
    BY DEF Stamps
  <2>1. CASE Untouched(p)
    BY <1>2, <2>1 DEF Stamps, Untouched
  <2>2. CASE AllStamped(p)
    <3>1. \A r \in reports'[p] : r.fresh \in BOOLEAN
      BY <1>4 DEF Report
    <3>2. restated'[p].fresh = TRUE /\ \A r \in reports'[p] : r.fresh = TRUE
      BY <1>4, <2>2, <3>1 DEF AllStamped
    <3> QED BY <2>2, <3>2 DEF AllStamped
  <2> QED BY <1>1, <2>1, <2>2
<1>6. ASSUME NEW p \in Periods, ~restated'[p].fresh
      PROVE  /\ reports'[p] = reports[p] /\ restated'[p] = restated[p]
             /\ \A row : (IsFirst(row, p)' <=> IsFirst(row, p)) /\ (IsLater(row, p)' <=> IsLater(row, p))
             /\ (FirstHeld(p)' <=> FirstHeld(p)) /\ (LaterHeld(p)' <=> LaterHeld(p))
  <2>1. reports'[p] = reports[p] /\ restated'[p] = restated[p]
    BY <1>1, <1>6 DEF Untouched, AllStamped
  <2> QED BY <1>1, <2>1 DEF IsFirst, IsLater, FirstHeld, LaterHeld
<1>7. \A files, p : /\ FirstIn(files, p)' = FirstIn(files, p)
                    /\ LaterIn(files, p)' = LaterIn(files, p)
                    /\ Silent(files, p)' = Silent(files, p)
  BY DEF FirstIn, LaterIn, Silent
<1>8. FirstDelivered' /\ LaterDelivered'
  BY <1>1, <1>2, <1>6, <1>7 DEF FirstDelivered, LaterDelivered, SayFirst, SayLater, Silent, FirstIn, LaterIn
<1>9. FirstCovered' /\ LaterCovered'
  BY <1>1, <1>2, <1>3, <1>6, <1>7 DEF FirstCovered, LaterCovered, SayFirst, SayLater, Silent, FirstIn, LaterIn
<1> QED BY <1>2, <1>3, <1>5, <1>8, <1>9 DEF DeliveredInv, Delivered, Covered

(* What the files say and the table holds depends on SF1's rows by their dates and figures. *)
LEMMA SameListing ==
  ASSUME UNCHANGED rows,
         \A p \in Periods :
           /\ \A x \in reports'[p] : \E r \in reports[p] : x.filed = r.filed /\ x.figure = r.figure
           /\ \A r \in reports[p] : \E x \in reports'[p] : x.filed = r.filed /\ x.figure = r.figure
           /\ restated'[p].figure = restated[p].figure,
         Distinct, Distinct', NEW p \in Periods
  PROVE  /\ \A row : (IsFirst(row, p)' <=> IsFirst(row, p)) /\ (IsLater(row, p)' <=> IsLater(row, p))
         /\ (FirstHeld(p)' <=> FirstHeld(p)) /\ (LaterHeld(p)' <=> LaterHeld(p))
<1>1. \A x \in FirstFiling(reports'[p]) : \E r \in FirstFiling(reports[p]) : x.filed = r.filed /\ x.figure = r.figure
  BY DEF FirstFiling, Distinct
<1>2. \A r \in FirstFiling(reports[p]) : \E x \in FirstFiling(reports'[p]) : x.filed = r.filed /\ x.figure = r.figure
  BY DEF FirstFiling, Distinct
<1>3. \A row : (IsFirst(row, p)' <=> IsFirst(row, p)) /\ (IsLater(row, p)' <=> IsLater(row, p))
  BY <1>1, <1>2 DEF IsFirst, IsLater
<1>4. FirstHeld(p)' <=> FirstHeld(p)
  BY <1>1, <1>2 DEF FirstHeld
<1>5. LaterHeld(p)' <=> LaterHeld(p)
  BY DEF LaterHeld
<1> QED BY <1>3, <1>4, <1>5

(* The delta, added to files that some of SF1's rows are in. *)
LEMMA DeltaAdds ==
  ASSUME Inv, Distinct, Stamps, Daytime, NEW files \in Seq(File1), NEW p \in Periods
  PROVE  LET more == Append(files, DeltaFile)
         IN  /\ restated[p].fresh => SayLater(more, p) /\ (reports[p] # {} => SayFirst(more, p))
             /\ ~restated[p].fresh => /\ FirstIn(more, p) = FirstIn(files, p)
                                      /\ LaterIn(more, p) = LaterIn(files, p)
<1> DEFINE more == Append(files, DeltaFile)
<1>1. DeltaFile \in File1 /\ reports[p] \subseteq Report /\ MaxDay \in Nat
  BY DeltaSays, InvFacts
<1>2. /\ DeltaFile.reports[p] = Fresh(p)
      /\ DeltaFile.restated[p] = IF restated[p].fresh THEN restated[p].figure ELSE NoFigure
  BY DeltaSays
<1>3. /\ FirstIn(more, p) = IF Rows(DeltaFile, p).first # {} THEN Rows(DeltaFile, p).first ELSE FirstIn(files, p)
      /\ LaterIn(more, p) = IF Rows(DeltaFile, p).later # {} THEN Rows(DeltaFile, p).later ELSE LaterIn(files, p)
  BY <1>1, InOneMore
<1> HIDE DEF more
<1>4. CASE restated[p].fresh
  <2>1. Fresh(p) = reports[p] /\ restated[p].figure # NoFigure
    BY <1>4 DEF Fresh, Stamps
  <2>2. /\ Rows(DeltaFile, p).later = {[figure |-> restated[p].figure, terms |-> DeltaFile.terms]}
        /\ Rows(DeltaFile, p).first = {[filed |-> r.filed, figure |-> r.figure, terms |-> DeltaFile.terms]
                                       : r \in FirstFiling(reports[p])}
    BY <1>2, <1>4, <2>1 DEF Rows
  <2>3. SayLater(more, p)
    <3> DEFINE row == [figure |-> restated[p].figure, terms |-> DeltaFile.terms]
    <3>1. Rows(DeltaFile, p).later = {row} /\ row.figure = restated[p].figure
      BY <2>2
    <3> HIDE DEF row
    <3>2. LaterIn(more, p) = {row}
      BY <1>3, <3>1
    <3> QED BY <3>1, <3>2 DEF SayLater, IsLater
  <2>4. ASSUME reports[p] # {} PROVE SayFirst(more, p)
    <3>1. PICK r \in reports[p] : FirstFiling(reports[p]) = {r}
      BY <1>1, <2>4, FirstFilingIs DEF Distinct
    <3> DEFINE row == [filed |-> r.filed, figure |-> r.figure, terms |-> DeltaFile.terms]
    <3>2. Rows(DeltaFile, p).first = {row} /\ row.filed = r.filed /\ row.figure = r.figure
      BY <2>2, <3>1
    <3> HIDE DEF row
    <3>3. FirstIn(more, p) = {row}
      BY <1>3, <3>2
    <3> QED BY <3>1, <3>2, <3>3 DEF SayFirst, IsFirst
  <2> QED BY <1>4, <2>3, <2>4 DEF more
<1>5. CASE ~restated[p].fresh
  <2>1. Fresh(p) = {}
    BY <1>5 DEF Fresh, Stamps
  <2>2. Rows(DeltaFile, p).first = {} /\ Rows(DeltaFile, p).later = {}
    BY <1>1, <1>2, <1>5, <2>1, RowsOfFile
  <2> QED BY <1>3, <1>5, <2>2 DEF more
<1> QED BY <1>4, <1>5

LEMMA AfterTypes ==
  ASSUME NEW files \in Seq(File1), NEW k \in 0..Len(files), NEW f \in File1
  PROVE  LET rest == SubSeq(files, k + 1, Len(files))
             more == Append(files, f)
         IN  /\ rest \in Seq(File1)
             /\ SubSeq(more, k + 1, Len(more)) = Append(rest, f)
             /\ SubSeq(rest, 0 + 1, Len(rest)) = rest
             /\ \A i \in DOMAIN rest : i + k \in DOMAIN files /\ rest[i] = files[i + k]
             /\ Len(files) <= k => rest = <<>>
<1> DEFINE rest == SubSeq(files, k + 1, Len(files))
           more == Append(files, f)
           n == Len(files)
<1>1. /\ n \in Nat /\ k + 1 \in 1..(n + 1) /\ n \in k..n /\ DOMAIN files = 1..n
      /\ more \in Seq(File1) /\ Len(more) = n + 1 /\ DOMAIN more = 1..(n + 1)
      /\ more[n + 1] = f /\ \A i \in 1..n : more[i] = files[i]
  OBVIOUS
<1>2. /\ rest \in Seq(File1) /\ Len(rest) = n - k /\ \A i \in 1..(n - k) : rest[i] = files[i + k]
  BY <1>1, SubSeqProperties
<1> HIDE DEF more
<1> DEFINE tail == SubSeq(more, k + 1, n + 1)
<1>3. /\ tail \in Seq(File1) /\ Len(tail) = n + 1 - k /\ \A i \in 1..(n + 1 - k) : tail[i] = more[i + k]
  BY <1>1, SubSeqProperties
<1> HIDE DEF rest, tail, n
<1> DEFINE last == Append(rest, f)
<1>4. /\ last \in Seq(File1) /\ Len(last) = n + 1 - k /\ last[n + 1 - k] = f
      /\ \A i \in 1..(n - k) : last[i] = rest[i]
  <2>1. n \in Nat /\ k \in Nat /\ n - k \in Nat
    BY <1>1
  <2>2. rest \in Seq(File1) /\ Len(rest) = n - k
    BY <1>2
  <2>3. last \in Seq(File1) /\ Len(last) = n - k + 1
    BY <2>1, <2>2
  <2>4. last[n - k + 1] = f
    BY <2>1, <2>2
  <2>5. ASSUME NEW i \in 1..(n - k) PROVE last[i] = rest[i]
    BY <2>1, <2>2
  <2>6. n - k + 1 = n + 1 - k
    BY <2>1
  <2> QED BY <2>3, <2>4, <2>5, <2>6
<1> HIDE DEF last
<1>5. \A i \in 1..(n + 1 - k) : tail[i] = last[i]
  <2>1. ASSUME NEW i \in 1..(n - k) PROVE tail[i] = last[i]
    BY <1>1, <1>2, <1>3, <1>4
  <2>2. tail[n + 1 - k] = last[n + 1 - k]
    BY <1>1, <1>3, <1>4
  <2> QED BY <1>1, <2>1, <2>2
<1>6. tail = last
  BY <1>1, <1>3, <1>4, <1>5
<1>7. SubSeq(rest, 0 + 1, Len(rest)) = rest
  BY <1>2
<1>8. \A i \in DOMAIN rest : i + k \in DOMAIN files /\ rest[i] = files[i + k]
  BY <1>1, <1>2
<1>9. ASSUME n <= k PROVE rest = <<>>
  BY <1>1, <1>2, <1>9
<1> QED BY <1>1, <1>2, <1>6, <1>7, <1>8, <1>9 DEF rest, more, tail, last, n

LEMMA Waiting ==
  ASSUME Inv
  PROVE  /\ After \in Seq(File1) /\ full.after \in 0..Len(pending)
         /\ \A i \in DOMAIN After : \E j \in DOMAIN pending : After[i] = pending[j]
         /\ \A p \in Periods :
              /\ FirstIn(After, p) = {} \/ FirstIn(After, p) = FirstIn(pending, p)
              /\ FirstIn(pending, p) = {} => FirstIn(After, p) = {}
              /\ LaterIn(After, p) = {} \/ LaterIn(After, p) = LaterIn(pending, p)
              /\ LaterIn(pending, p) = {} => LaterIn(After, p) = {}
<1>1. pending \in Seq(File1) /\ full.after \in 0..Len(pending) /\ full.file \in File1
  BY InvFacts
<1>2. After \in Seq(File1) /\ \A i \in DOMAIN After : \E j \in DOMAIN pending : After[i] = pending[j]
  BY <1>1, AfterTypes DEF After
<1>3. \A p \in Periods :
        /\ FirstIn(After, p) = {} \/ FirstIn(After, p) = FirstIn(pending, p)
        /\ FirstIn(pending, p) = {} => FirstIn(After, p) = {}
        /\ LaterIn(After, p) = {} \/ LaterIn(After, p) = LaterIn(pending, p)
        /\ LaterIn(pending, p) = {} => LaterIn(After, p) = {}
  BY <1>1, InFewer DEF After
<1> QED BY <1>1, <1>2, <1>3

(* A file that holds a period's first report holds its restated row. *)
LEMMA PairedRows ==
  ASSUME Inv, Paired, NEW files \in Seq(File1), NEW p \in Periods,
         \A i \in DOMAIN files : Pair(files[i]), LaterIn(files, p) = {}
  PROVE  FirstIn(files, p) = {}
<1> DEFINE n == Len(files)
           F == [i \in DOMAIN files |-> Rows(files[i], p).first]
           L == [i \in DOMAIN files |-> Rows(files[i], p).later]
<1>1. n \in Nat /\ DOMAIN files = 1..n /\ \A i \in DOMAIN files : files[i] \in File1
  OBVIOUS
<1>2. FirstIn(files, p) = Newest(F) /\ LaterIn(files, p) = Newest(L) /\ DOMAIN L = 1..n
  BY <1>1, InFiles
<1>3. \A i \in 1..n : L[i] = Rows(files[i], p).later /\ F[i] = Rows(files[i], p).first
  BY <1>1
<1> HIDE DEF F, L, n
<1>4. \A i \in 1..n : L[i] = {}
  BY <1>1, <1>2, NewestCases
<1>5. ASSUME NEW i \in 1..n PROVE F[i] = {}
  <2>1. Rows(files[i], p).later = {} /\ files[i] \in File1 /\ Pair(files[i])
    BY <1>1, <1>3, <1>4
  <2>2. files[i].restated[p] = NoFigure
    BY <2>1 DEF Rows
  <2>3. files[i].reports[p] = {}
    BY <2>1, <2>2 DEF Pair
  <2> QED BY <1>3, <2>1, <2>3, RowsOfFile
<1>6. DOMAIN F = 1..n
  BY <1>1 DEF F
<1> QED BY <1>2, <1>5, <1>6, NewestNone

LEMMA DeltaDelivers ==
  ASSUME Inv, Distinct, DeliveredInv, FetchDelta
  PROVE  DeliveredInv'
<1>1. /\ Daytime /\ UNCHANGED <<full, rows>> /\ Distinct'
      /\ pending' = IF NothingFresh THEN pending ELSE Append(pending, DeltaFile)
      /\ \A p \in Periods :
           /\ \A x \in reports'[p] : ~x.fresh /\ \E r \in reports[p] : x.filed = r.filed /\ x.figure = r.figure
           /\ \A r \in reports[p] : \E x \in reports'[p] : x.filed = r.filed /\ x.figure = r.figure
           /\ restated'[p].figure = restated[p].figure /\ ~restated'[p].fresh
  BY FetchedDelta
<1>2. Stamps /\ Paired /\ Ended /\ FirstDelivered /\ LaterDelivered /\ FirstCovered /\ LaterCovered
  BY DEF DeliveredInv, Delivered, Covered
<1>3. /\ pending \in Seq(File1) /\ After \in Seq(File1) /\ full.after \in 0..Len(pending)
      /\ DeltaFile \in File1 /\ reports' \in [Periods -> SUBSET Report]
      /\ restated' \in [Periods -> [figure : Figures \union {NoFigure}, fresh : BOOLEAN]]
  BY <1>1, InvFacts, Waiting, DeltaSays, InvStep DEF Next, IngestFundamentals, Inv, TypeOK
<1>4. Stamps'
  <2>1. \A p \in Periods : reports'[p] # {} => reports[p] # {}
    BY <1>1
  <2>2. ASSUME NEW p \in Periods, NEW x \in reports'[p] PROVE x.fresh = restated'[p].fresh
    <3>1. x.fresh \in BOOLEAN /\ restated'[p].fresh \in BOOLEAN /\ ~x.fresh /\ ~restated'[p].fresh
      BY <1>1, <1>3 DEF Report
    <3> QED BY <3>1
  <2> QED BY <1>1, <1>2, <2>1, <2>2 DEF Stamps
<1>5. Pair(DeltaFile)
  <2> SUFFICES ASSUME NEW p \in Periods, DeltaFile.reports[p] # {}
               PROVE  DeltaFile.restated[p] # NoFigure
    BY DEF Pair
  <2>1. Fresh(p) # {} /\ DeltaFile.restated[p] = IF restated[p].fresh THEN restated[p].figure ELSE NoFigure
    BY <1>1, DeltaSays
  <2>2. restated[p].fresh /\ restated[p].figure # NoFigure
    BY <1>2, <2>1 DEF Fresh, Stamps
  <2> QED BY <2>1, <2>2
<1>6. Paired'
  <2>1. \A i \in DOMAIN pending' : pending'[i] = DeltaFile \/ (i \in DOMAIN pending /\ pending'[i] = pending[i])
    BY <1>1, <1>3
  <2> QED BY <1>1, <1>2, <1>5, <2>1 DEF Paired, Pair
<1>7. Ended'
  BY <1>1, <1>2 DEF Ended
<1>8. After' = IF NothingFresh THEN After ELSE Append(After, DeltaFile)
  <2>1. CASE NothingFresh
    BY <1>1, <2>1 DEF After
  <2>2. CASE ~NothingFresh
    BY <1>1, <1>3, <2>2, AfterTypes DEF After
  <2> QED BY <2>1, <2>2
<1>9. ASSUME NEW p \in Periods
      PROVE  /\ \A row : (IsFirst(row, p)' <=> IsFirst(row, p)) /\ (IsLater(row, p)' <=> IsLater(row, p))
             /\ (FirstHeld(p)' <=> FirstHeld(p)) /\ (LaterHeld(p)' <=> LaterHeld(p))
  BY <1>1, <1>2, SameListing DEF DeliveredInv
<1>10. ASSUME NEW p \in Periods, NEW files \in Seq(File1), NEW more,
              more = IF NothingFresh THEN files ELSE Append(files, DeltaFile)
       PROVE  /\ restated[p].fresh => SayLater(more, p) /\ (reports[p] # {} => SayFirst(more, p))
              /\ ~restated[p].fresh => FirstIn(more, p) = FirstIn(files, p) /\ LaterIn(more, p) = LaterIn(files, p)
  <2>1. CASE NothingFresh
    BY <1>10, <2>1 DEF NothingFresh
  <2>2. CASE ~NothingFresh
    BY <1>1, <1>2, <1>10, <2>2, DeltaAdds
  <2> QED BY <2>1, <2>2
<1>11. ASSUME NEW files, NEW p \in Periods
       PROVE  /\ FirstIn(files, p)' = FirstIn(files, p) /\ LaterIn(files, p)' = LaterIn(files, p)
  BY DEF FirstIn, LaterIn
<1>12. FirstDelivered' /\ LaterDelivered'
  <2> SUFFICES ASSUME NEW p \in Periods
               PROVE  /\ reports[p] # {} => SayFirst(pending', p) \/ (Silent(pending', p) /\ FirstHeld(p))
                      /\ restated[p].figure # NoFigure =>
                           SayLater(pending', p) \/ (LaterIn(pending', p) = {} /\ LaterHeld(p))
    BY <1>1, <1>9 DEF FirstDelivered, LaterDelivered, SayFirst, SayLater, Silent, FirstIn, LaterIn
  <2>1. CASE restated[p].fresh
    BY <1>1, <1>3, <1>10, <2>1
  <2>2. CASE ~restated[p].fresh
    <3>1. FirstIn(pending', p) = FirstIn(pending, p) /\ LaterIn(pending', p) = LaterIn(pending, p)
      BY <1>1, <1>3, <1>10, <2>2
    <3> QED BY <1>2, <2>2, <3>1 DEF FirstDelivered, LaterDelivered, SayFirst, SayLater, Silent
  <2> QED BY <2>1, <2>2
<1>13. FirstCovered' /\ LaterCovered'
  <2> SUFFICES ASSUME NEW p \in Periods, full # NoFull
               PROVE  /\ reports[p] # {} => SayFirst(After', p) \/ (Silent(After', p) /\ SayFirst(<<full.file>>, p))
                      /\ restated[p].figure # NoFigure =>
                           SayLater(After', p) \/ (LaterIn(After', p) = {} /\ SayLater(<<full.file>>, p))
    BY <1>1, <1>9 DEF FirstCovered, LaterCovered, SayFirst, SayLater, Silent, FirstIn, LaterIn
  <2>1. CASE restated[p].fresh
    BY <1>3, <1>8, <1>10, <2>1
  <2>2. CASE ~restated[p].fresh
    BY <1>2, <1>3, <1>8, <1>10, <2>2 DEF FirstCovered, LaterCovered, SayFirst, SayLater, Silent
  <2> QED BY <2>1, <2>2
<1> QED BY <1>4, <1>6, <1>7, <1>12, <1>13 DEF DeliveredInv, Delivered, Covered

LEMMA NoFullAgain == NoFull.after = 0 /\ [NoFull EXCEPT !.after = 0] = NoFull
<1> DEFINE file == [day |-> 0, terms |-> 0, reports |-> [p \in Periods |-> {}],
                    restated |-> [p \in Periods |-> NoFigure]]
<1>1. NoFull = [file |-> file, after |-> 0]
  BY DEF NoFull
<1> HIDE DEF file
<1> QED BY <1>1

(* The primed forms of what depends on SF1's rows alone, when they stand. *)
LEMMA SaidSame ==
  ASSUME UNCHANGED <<reports, restated>>
  PROVE  /\ Stamps' <=> Stamps
         /\ \A files, p : /\ SayFirst(files, p)' <=> SayFirst(files, p)
                          /\ SayLater(files, p)' <=> SayLater(files, p)
                          /\ Silent(files, p)' <=> Silent(files, p)
         /\ rows' = rows => \A p : (FirstHeld(p)' <=> FirstHeld(p)) /\ (LaterHeld(p)' <=> LaterHeld(p))
BY DEF Stamps, SayFirst, SayLater, Silent, FirstIn, LaterIn, IsFirst, IsLater, FirstHeld, LaterHeld

(* A step of no load that leaves the ledger alone. *)
LEMMA DeliveredFrame ==
  ASSUME DeliveredInv, UNCHANGED <<reports, restated, full, pending, rows>>
  PROVE  DeliveredInv'
<1>1. After' = After /\ Paired' /\ Ended'
  BY SameSaid DEF DeliveredInv
<1>2. Stamps' /\ (FirstDelivered' <=> FirstDelivered) /\ (LaterDelivered' <=> LaterDelivered)
  BY SaidSame DEF DeliveredInv, FirstDelivered, LaterDelivered, SayFirst, SayLater, Silent,
     FirstIn, LaterIn, FirstHeld, LaterHeld, IsFirst, IsLater
<1>3. (FirstCovered' <=> FirstCovered) /\ (LaterCovered' <=> LaterCovered)
  BY <1>1 DEF FirstCovered, LaterCovered, SayFirst, SayLater, Silent,
     FirstIn, LaterIn, IsFirst, IsLater
<1> QED BY <1>1, <1>2, <1>3 DEF DeliveredInv, Delivered, Covered

(* A full file is a listing of SF1's rows. *)
LEMMA FullCovers ==
  ASSUME Inv, Distinct, DeliveredInv, FetchFull
  PROVE  DeliveredInv'
<1> DEFINE figures == [p \in Periods |-> restated[p].figure]
           file == Listing(reports, figures)
<1>1. /\ Daytime /\ UNCHANGED <<today, reports, restated, splits, pending, rows>>
      /\ full' = [file |-> file, after |-> Len(pending)]
  BY DEF FetchFull, world
<1>2. Stamps /\ Paired /\ Ended /\ FirstDelivered /\ LaterDelivered
  BY DEF DeliveredInv, Delivered
<1>3. /\ file.reports = reports /\ \A p \in Periods : file.restated[p] = restated[p].figure
  BY DEF Listing
<1>4. full'.file = file /\ full'.after = Len(pending)
  BY <1>1
<1>5. file \in File1 /\ pending \in Seq(File1) /\ MaxDay \in Nat /\ reports \in [Periods -> SUBSET Report]
  BY <1>4, InvFacts, InvStep DEF Next, IngestFundamentals, Inv, TypeOK
<1> HIDE DEF file, figures
<1>6. After' = <<>>
  <2>1. Len(pending) \in 0..Len(pending) /\ Len(pending) <= Len(pending)
    BY <1>5
  <2>2. SubSeq(pending, Len(pending) + 1, Len(pending)) = <<>>
    BY <1>5, <2>1, AfterTypes
  <2> QED BY <1>1, <1>4, <2>2 DEF After
<1>7. ASSUME NEW p \in Periods, reports[p] # {} PROVE SayFirst(<<file>>, p)
  <2>1. PICK r \in reports[p] : FirstFiling(reports[p]) = {r}
    BY <1>5, <1>7, FirstFilingIs DEF Distinct
  <2> DEFINE row == [filed |-> r.filed, figure |-> r.figure, terms |-> file.terms]
  <2>2. Rows(file, p).first = {row} /\ row.filed = r.filed /\ row.figure = r.figure
    BY <1>3, <2>1 DEF Rows
  <2> HIDE DEF row
  <2>3. FirstIn(<<file>>, p) = {row}
    BY <1>5, <2>2, InOneFile
  <2> QED BY <2>1, <2>2, <2>3 DEF SayFirst, IsFirst
<1>8. ASSUME NEW p \in Periods, restated[p].figure # NoFigure PROVE SayLater(<<file>>, p)
  <2> DEFINE row == [figure |-> restated[p].figure, terms |-> file.terms]
  <2>2. Rows(file, p).later = {row} /\ row.figure = restated[p].figure
    BY <1>3, <1>8 DEF Rows
  <2> HIDE DEF row
  <2>3. LaterIn(<<file>>, p) = {row}
    BY <1>5, <2>2, InOneFile
  <2> QED BY <2>2, <2>3 DEF SayLater, IsLater
<1>9. \A p \in Periods : Silent(<<>>, p)
  BY InNoFile DEF Silent
<1>10. FirstCovered' /\ LaterCovered'
  BY <1>1, <1>4, <1>6, <1>7, <1>8, <1>9 DEF FirstCovered, LaterCovered, SayFirst, SayLater, Silent,
     FirstIn, LaterIn, IsFirst, IsLater
<1>11. FirstDelivered' /\ LaterDelivered' /\ Stamps' /\ Ended'
  BY <1>1, <1>2 DEF FirstDelivered, LaterDelivered, SayFirst, SayLater, Silent,
     FirstIn, LaterIn, IsFirst, IsLater, FirstHeld, LaterHeld, Stamps, Ended
<1>12. Paired'
  <2>1. Pair(file)
    BY <1>2, <1>3 DEF Pair, Stamps
  <2> QED BY <1>1, <1>2, <1>4, <2>1 DEF Paired, Pair
<1> QED BY <1>10, <1>11, <1>12 DEF DeliveredInv, Delivered, Covered

(* What a load writes of each period, in the terms of the invariant. *)
LEMMA TableDelivers ==
  ASSUME Inv, DeliveredInv, today \in Days, UNCHANGED <<reports, restated>>,
         NEW files \in Seq(File1), rows' = Written(rows, Said(files))
  PROVE  /\ Stamps' /\ Ended'
         /\ \A p \in Periods :
              /\ SayFirst(files, p) => FirstHeld(p)'
              /\ SayLater(files, p) => LaterHeld(p)'
              /\ Silent(files, p) => (FirstHeld(p)' <=> FirstHeld(p)) /\ (LaterHeld(p)' <=> LaterHeld(p))
<1>1. \A p \in Periods : /\ SayFirst(files, p) => FirstHeld(p)'
                         /\ SayLater(files, p) => LaterHeld(p)'
                         /\ Silent(files, p) => Current(rows', p) = Current(rows, p)
                         /\ Current(rows', p) # {} => InForce(rows', p) # {}
  BY WrittenHolds DEF DeliveredInv
<1>2. Stamps' /\ Ended'
  BY <1>1, SaidSame DEF DeliveredInv, Ended
<1>3. ASSUME NEW p \in Periods, Silent(files, p)
      PROVE  (FirstHeld(p)' <=> FirstHeld(p)) /\ (LaterHeld(p)' <=> LaterHeld(p))
  <2>1. Current(rows', p) = Current(rows, p)
    BY <1>1, <1>3
  <2> QED BY <2>1 DEF FirstHeld, LaterHeld, InForce
<1> QED BY <1>1, <1>2, <1>3

(* Where the deltas hold no restated row of a period they are silent of it. *)
LEMMA SilentOf ==
  ASSUME Inv, Paired, NEW p \in Periods
  PROVE  /\ LaterIn(pending, p) = {} => Silent(pending, p)
         /\ LaterIn(After, p) = {} => Silent(After, p)
         /\ LaterIn(<<full.file>>, p) = {} => Silent(<<full.file>>, p)
<1>1. /\ pending \in Seq(File1) /\ After \in Seq(File1) /\ <<full.file>> \in Seq(File1)
      /\ \A i \in DOMAIN After : \E j \in DOMAIN pending : After[i] = pending[j]
  <2>1. full.file \in File1
    BY InvFacts
  <2> QED BY <2>1, InvFacts, Waiting
<1>2. /\ \A i \in DOMAIN pending : Pair(pending[i])
      /\ \A i \in DOMAIN After : Pair(After[i])
      /\ \A i \in DOMAIN <<full.file>> : Pair(<<full.file>>[i])
  BY <1>1 DEF Paired
<1> QED BY <1>1, <1>2, PairedRows DEF Silent

(* A load of the deltas that wait, completed or not. *)
LEMMA NightDelivers ==
  ASSUME Inv, DeliveredInv, phase = "night", UNCHANGED <<reports, restated>>,
         rows' = Written(rows, Said(pending)),
         \/ pending' = <<>> /\ full' = [Unpassed EXCEPT !.after = 0]
         \/ pending' = pending /\ full' = Unpassed
  PROVE  DeliveredInv'
<1>1. today \in Days /\ pending \in Seq(File1) /\ full.after \in 0..Len(pending)
  BY InvFacts
<1>2. Stamps /\ Paired /\ Ended /\ FirstDelivered /\ LaterDelivered /\ FirstCovered /\ LaterCovered
  BY DEF DeliveredInv, Delivered, Covered
<1>3. /\ Stamps' /\ Ended'
      /\ \A p \in Periods :
           /\ SayFirst(pending, p) => FirstHeld(p)'
           /\ SayLater(pending, p) => LaterHeld(p)'
           /\ Silent(pending, p) => (FirstHeld(p)' <=> FirstHeld(p)) /\ (LaterHeld(p)' <=> LaterHeld(p))
  BY <1>1, TableDelivers
<1>4. ASSUME NEW p \in Periods
      PROVE  /\ reports[p] # {} => restated[p].fresh \/ (FirstHeld(p)' /\ (SayFirst(pending, p) \/ Silent(pending, p)))
             /\ restated[p].figure # NoFigure =>
                  restated[p].fresh \/ (LaterHeld(p)' /\ (SayLater(pending, p) \/ LaterIn(pending, p) = {}))
  BY <1>2, <1>3, SilentOf DEF FirstDelivered, LaterDelivered
<1>5. \A p \in Periods : Silent(<<>>, p) /\ LaterIn(<<>>, p) = {}
  BY InNoFile DEF Silent
<1>6. \A files, p : /\ SayFirst(files, p)' <=> SayFirst(files, p)
                    /\ SayLater(files, p)' <=> SayLater(files, p)
                    /\ Silent(files, p)' <=> Silent(files, p)
                    /\ LaterIn(files, p)' = LaterIn(files, p)
  BY SaidSame DEF LaterIn
<1>7. FirstDelivered' /\ LaterDelivered'
  <2> SUFFICES ASSUME NEW p \in Periods
               PROVE  /\ reports[p] # {} => \/ restated[p].fresh \/ SayFirst(pending', p)
                                            \/ Silent(pending', p) /\ FirstHeld(p)'
                      /\ restated[p].figure # NoFigure => \/ restated[p].fresh \/ SayLater(pending', p)
                                                          \/ LaterIn(pending', p) = {} /\ LaterHeld(p)'
    BY DEF FirstDelivered, LaterDelivered, SayFirst, SayLater, Silent, FirstIn, LaterIn, IsFirst, IsLater
  <2> QED BY <1>4, <1>5
<1>8. Pair(NoFull.file)
  BY DEF Pair, NoFull
<1>9. full' = NoFull \/ (full'.file = full.file /\ After = <<>>)
  <2>1. CASE Unpassed = NoFull
    BY <2>1, NoFullAgain
  <2>2. CASE Unpassed # NoFull
    <3>1. Unpassed = full /\ ~(Len(pending) > full.after)
      BY <2>2 DEF Unpassed
    <3>2. After = <<>>
      BY <1>1, <3>1, AfterTypes DEF After
    <3>3. full'.file = full.file
      <4>1. full \in [file : File1, after : Nat]
        BY DEF Inv, TypeOK
      <4> QED BY <3>1, <4>1
    <3> QED BY <3>2, <3>3
  <2> QED BY <2>1, <2>2
<1>10. Paired'
  BY <1>2, <1>8, <1>9 DEF Paired, Pair
<1>11. full' # NoFull => full # NoFull /\ After' = <<>>
  <2> SUFFICES ASSUME full' # NoFull PROVE full # NoFull /\ After' = <<>>
    OBVIOUS
  <2>1. Unpassed = full /\ ~(Len(pending) > full.after) /\ full # NoFull
    BY NoFullAgain DEF Unpassed
  <2>2. CASE pending' = <<>> /\ full' = [Unpassed EXCEPT !.after = 0]
    <3>1. full'.after = 0
      <4>1. full \in [file : File1, after : Nat]
        BY DEF Inv, TypeOK
      <4> QED BY <2>1, <2>2, <4>1
    <3>2. SubSeq(<<>>, 0 + 1, Len(<<>>)) = <<>>
      OBVIOUS
    <3> QED BY <2>1, <2>2, <3>1, <3>2 DEF After
  <2>3. CASE pending' = pending /\ full' = Unpassed
    <3>1. After' = After /\ full' = full
      BY <2>1, <2>3 DEF After
    <3>2. After = <<>>
      BY <1>1, <2>1, AfterTypes DEF After
    <3> QED BY <2>1, <3>1, <3>2
  <2> QED BY <2>2, <2>3
<1>12. ASSUME full' # NoFull, NEW p \in Periods
       PROVE  /\ reports[p] # {} => restated[p].fresh \/ SayFirst(<<full.file>>, p)
              /\ restated[p].figure # NoFigure => restated[p].fresh \/ SayLater(<<full.file>>, p)
  <2>1. full # NoFull /\ After = <<>>
    BY <1>9, <1>11, <1>12
  <2>2. ~SayFirst(<<>>, p) /\ ~SayLater(<<>>, p)
    BY <1>5 DEF SayFirst, SayLater, Silent
  <2> QED BY <1>2, <2>1, <2>2 DEF FirstCovered, LaterCovered
<1>13. full' # NoFull => full'.file = full.file
  BY <1>9
<1>14. FirstCovered' /\ LaterCovered'
  <2> SUFFICES ASSUME full' # NoFull, NEW p \in Periods
               PROVE  /\ reports[p] # {} => \/ restated[p].fresh \/ SayFirst(After', p)
                                            \/ Silent(After', p) /\ SayFirst(<<full'.file>>, p)
                      /\ restated[p].figure # NoFigure =>
                           \/ restated[p].fresh \/ SayLater(After', p)
                           \/ LaterIn(After', p) = {} /\ SayLater(<<full'.file>>, p)
    BY DEF FirstCovered, LaterCovered, SayFirst, SayLater, Silent, FirstIn, LaterIn, IsFirst, IsLater
  <2> QED BY <1>5, <1>11, <1>12, <1>13
<1> QED BY <1>3, <1>7, <1>10, <1>14 DEF DeliveredInv, Delivered, Covered

LEMMA BackfillDelivers ==
  ASSUME Inv, DeliveredInv, NEW done \in BOOLEAN, Backfill(done)
  PROVE  DeliveredInv'
<1>1. /\ Daytime /\ full # NoFull /\ UNCHANGED <<reports, restated>>
      /\ rows' = Written(rows, Said(<<full.file>>))
      /\ \/ UNCHANGED <<pending, full>>
         \/ pending' = After /\ full' = [full EXCEPT !.after = 0]
  BY DEF Backfill, world, ledger, After
<1>2. Stamps /\ Paired /\ Ended /\ FirstDelivered /\ LaterDelivered /\ FirstCovered /\ LaterCovered
  BY DEF DeliveredInv, Delivered, Covered
<1>3. /\ today \in Days /\ full \in [file : File1, after : Nat] /\ pending \in Seq(File1)
      /\ After \in Seq(File1) /\ <<full.file>> \in Seq(File1)
      /\ \A i \in DOMAIN After : \E j \in DOMAIN pending : After[i] = pending[j]
  <2>1. full \in [file : File1, after : Nat] /\ today \in Days
    BY <1>1, InvFacts DEF Inv, TypeOK, Daytime, Days
  <2> QED BY <2>1, InvFacts, Waiting
<1>4. /\ Stamps' /\ Ended'
      /\ \A p \in Periods :
           /\ SayFirst(<<full.file>>, p) => FirstHeld(p)'
           /\ SayLater(<<full.file>>, p) => LaterHeld(p)'
  BY <1>1, <1>3, TableDelivers
<1>5. full'.file = full.file /\ (full' = full \/ full'.after = 0)
  BY <1>1, <1>3
<1>6. Paired'
  BY <1>1, <1>2, <1>3, <1>5 DEF Paired, Pair
<1>7. After' = After
  <2>1. CASE UNCHANGED <<pending, full>>
    BY <2>1 DEF After
  <2>2. CASE pending' = After /\ full' = [full EXCEPT !.after = 0]
    <3>1. full'.after = 0
      BY <1>3, <2>2
    <3>2. SubSeq(After, 0 + 1, Len(After)) = After
      BY Waiting, InvFacts, AfterTypes DEF After
    <3> QED BY <2>2, <3>1, <3>2 DEF After
  <2> QED BY <1>1, <2>1, <2>2
<1>8. \A p \in Periods : Silent(After, p) \/ ~(LaterIn(After, p) = {})
  BY <1>2, SilentOf
<1>9. ASSUME NEW p \in Periods
      PROVE  /\ reports[p] # {} => \/ restated[p].fresh \/ SayFirst(pending', p)
                                   \/ Silent(pending', p) /\ FirstHeld(p)'
             /\ restated[p].figure # NoFigure => \/ restated[p].fresh \/ SayLater(pending', p)
                                                 \/ LaterIn(pending', p) = {} /\ LaterHeld(p)'
  <2>1. CASE pending' = After
    BY <1>1, <1>2, <1>4, <2>1 DEF FirstCovered, LaterCovered
  <2>2. CASE pending' = pending
    <3>1. Silent(pending, p) => ~SayFirst(After, p)
      BY Waiting DEF Silent, SayFirst
    <3>2. LaterIn(pending, p) = {} => ~SayLater(After, p)
      BY Waiting DEF SayLater
    <3>3. reports[p] # {} /\ ~restated[p].fresh /\ ~SayFirst(pending, p) => Silent(pending, p) /\ FirstHeld(p)'
      BY <1>1, <1>2, <1>4, <3>1 DEF FirstDelivered, FirstCovered
    <3>4. restated[p].figure # NoFigure /\ ~restated[p].fresh /\ ~SayLater(pending, p)
            => LaterIn(pending, p) = {} /\ LaterHeld(p)'
      BY <1>1, <1>2, <1>4, <3>2 DEF LaterDelivered, LaterCovered
    <3> QED BY <2>2, <3>3, <3>4
  <2> QED BY <1>1, <2>1, <2>2
<1>10. FirstDelivered' /\ LaterDelivered'
  BY <1>1, <1>9 DEF FirstDelivered, LaterDelivered, SayFirst, SayLater, Silent, FirstIn, LaterIn, IsFirst, IsLater
<1>11. FirstCovered' /\ LaterCovered'
  BY <1>1, <1>2, <1>5, <1>7 DEF FirstCovered, LaterCovered, SayFirst, SayLater, Silent, FirstIn, LaterIn,
     IsFirst, IsLater
<1> QED BY <1>4, <1>6, <1>10, <1>11 DEF DeliveredInv, Delivered, Covered

LEMMA DeliveredStep == ~Alone /\ Inv /\ TermsInv /\ DeliveredInv /\ [Next]_vars => DeliveredInv'
<1> SUFFICES ASSUME ~Alone, Inv, TermsInv, DeliveredInv, [Next]_vars PROVE DeliveredInv'
  OBVIOUS
<1>1. CASE World
  BY <1>1, WorldDelivers
<1>2. CASE FetchDelta
  BY <1>2, DeltaDelivers DEF TermsInv
<1>3. CASE FetchFull
  BY <1>3, FullCovers DEF TermsInv
<1>4. ASSUME NEW done \in BOOLEAN, Backfill(done) PROVE DeliveredInv'
  BY <1>4, BackfillDelivers
<1>5. CASE Load
  BY <1>5, NightDelivers DEF Load, world
<1>6. ASSUME NEW wrote \in BOOLEAN, LoadBreaks(wrote) PROVE DeliveredInv'
  <2>1. CASE UNCHANGED <<rows, full>>
    BY <1>6, <2>1, DeliveredFrame DEF LoadBreaks, world
  <2>2. CASE rows' = Written(rows, Said(pending)) /\ full' = Unpassed
    BY <1>6, <2>2, NightDelivers DEF LoadBreaks, world
  <2> QED BY <1>6, <2>1, <2>2 DEF LoadBreaks
<1>7. CASE FetchFails \/ Waits \/ UNCHANGED vars
  <2>1. UNCHANGED <<reports, restated, full, pending, rows>>
    BY <1>7 DEF FetchFails, Waits, vars, world, ledger
  <2> QED BY <2>1, DeliveredFrame
<1> QED BY <1>1, <1>2, <1>3, <1>4, <1>5, <1>6, <1>7 DEF Next, IngestFundamentals

LEMMA DeliveredInit == Init => DeliveredInv
<1> SUFFICES ASSUME Init PROVE DeliveredInv
  OBVIOUS
<1>1. /\ pending = <<>> /\ rows = {} /\ full = NoFull
      /\ \A p \in Periods : reports[p] = {} /\ restated[p] = NoRow
  BY DEF Init
<1>2. \A p \in Periods : restated[p].figure = NoFigure /\ ~restated[p].fresh
  BY <1>1 DEF NoRow
<1>3. Pair(NoFull.file)
  BY DEF Pair, NoFull
<1>4. Stamps /\ Paired /\ Ended
  BY <1>1, <1>2, <1>3 DEF Stamps, Paired, Ended, Current
<1>5. Delivered /\ Covered
  BY <1>1, <1>2 DEF Delivered, Covered, FirstDelivered, LaterDelivered, FirstCovered, LaterCovered
<1> QED BY <1>4, <1>5 DEF DeliveredInv

LEMMA DeliveredAlways ==
  ASSUME ~Alone
  PROVE  Spec => [](Inv /\ TermsInv /\ DeliveredInv)
<1>1. Init => Inv /\ TermsInv /\ DeliveredInv
  BY InitInv, TermsInit, DeliveredInit
<1>2. Inv /\ TermsInv /\ DeliveredInv /\ [Next]_vars => (Inv /\ TermsInv /\ DeliveredInv)'
  BY InvStep, TermsStep, DeliveredStep
<1> QED BY <1>1, <1>2, PTL DEF Spec

(* Where SF1 stamps every row of a period it changes, the files applied leave the *)
(* earliest filing listed as version 1, unless its correction was refused: through*)
(* nights and loads that fail, deltas merged, and a backfill that takes over from *)
(* the deltas recorded before its file.                                           *)
THEOREM FirstReportsAreHeld ==
  ASSUME ~Alone
  PROVE  Spec => []FirstReportHeld
<1>1. ASSUME Inv, TermsInv, DeliveredInv PROVE FirstReportHeld
  <2> SUFFICES ASSUME Applied, NEW p \in Periods, NEW r \in reports[p], NEW v \in Current(rows, p),
                      v.no = 1, \A s \in reports[p] : r.filed <= s.filed
               PROVE  (v.filed = r.filed /\ v.figure = r.figure) \/ (v.to # Null /\ v.to <= r.filed)
    BY DEF FirstReportHeld
  <2>1. \A s \in reports[p] : s # r => s.filed # r.filed
    BY <1>1 DEF TermsInv, Distinct
  <2>2. \A s \in reports[p] : s.filed \in Nat
    BY <1>1, InvFacts DEF Report, Days
  <2>3. r \in FirstFiling(reports[p])
    BY <2>1, <2>2 DEF FirstFiling
  <2>4. ~restated[p].fresh /\ FirstIn(pending, p) = {}
    BY InNoFile DEF Applied, NothingFresh
  <2>5. FirstHeld(p)
    BY <1>1, <2>4 DEF DeliveredInv, Delivered, FirstDelivered, SayFirst
  <2> QED BY <2>3, <2>5 DEF FirstHeld
<1> QED BY <1>1, DeliveredAlways, PTL

(* And as the version in force, the restated row SF1 serves. *)
THEOREM RestatementsAreHeld ==
  ASSUME ~Alone
  PROVE  Spec => []RestatementHeld
<1>1. ASSUME Inv, TermsInv, DeliveredInv PROVE RestatementHeld
  <2> SUFFICES ASSUME Applied, NEW p \in Periods, restated[p] # NoRow
               PROVE  \E v \in InForce(rows, p) : v.figure = restated[p].figure
    BY DEF RestatementHeld
  <2>1. ~restated[p].fresh /\ LaterIn(pending, p) = {}
    BY InNoFile DEF Applied, NothingFresh
  <2>2. restated[p].figure # NoFigure
    <3>1. restated[p] \in [figure : Figures \union {NoFigure}, fresh : BOOLEAN]
      BY <1>1, InvFacts
    <3> QED BY <2>1, <3>1 DEF NoRow
  <2>3. LaterHeld(p)
    BY <1>1, <2>1, <2>2 DEF DeliveredInv, Delivered, LaterDelivered, SayLater
  <2> QED BY <2>3 DEF LaterHeld
<1> QED BY <1>1, DeliveredAlways, PTL
=============================================================================
