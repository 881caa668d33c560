--------------------------- MODULE IdentityProofs ---------------------------
(* Type correctness of the security master, the uniqueness of a ticker's holder,   *)
(* that bars are never lost with a row, and that a ticker leads to its company.    *)
EXTENDS Identity, TLAPS, WellFoundedInduction

-----------------------------------------------------------------------------
(* Extremal elements *)

(* Every non-empty set of naturals has a least element, by the well-foundedness of < *)
(* on Nat, the one inductive fact used here.                                         *)
LEMMA LeastElement ==
  ASSUME NEW T, T \subseteq Nat, T # {}
  PROVE  \E x \in T : \A y \in T : x <= y
<1> DEFINE R == OpToRel(<, Nat)
<1>1. IsWellFoundedOn(R, Nat)
  BY NatLessThanWellFounded
<1> HIDE DEF R
<1>2. \E x \in T : \A y \in T : <<y, x>> \notin R
  BY <1>1, WFMin
<1>3. \A x, y \in T : <<y, x>> \notin R => x <= y
  <2>1. SUFFICES ASSUME NEW x \in T, NEW y \in T, y < x PROVE <<y, x>> \in R
    BY SMT
  <2>2. <<y, x>> \in Nat \X Nat /\ <<y,x>>[1] < <<y,x>>[2]
    BY <2>1
  <2> QED BY <2>2 DEF R, OpToRel
<1> QED BY <1>2, <1>3

(* Every non-empty set of naturals with an upper bound has a greatest element. *)
LEMMA GreatestElement ==
  ASSUME NEW n \in Nat, NEW S, S \subseteq 0..n, S # {}
  PROVE  \E x \in S : \A y \in S : y <= x
<1> DEFINE T == {n - d : d \in S}
<1>1. T \subseteq Nat
  <2>1. \A d \in S : n - d \in Nat
    OBVIOUS
  <2> QED BY <2>1
<1>2. T # {}
  BY Zenon
<1>3. PICK x \in T : \A y \in T : x <= y
  <2> HIDE DEF T
  <2> QED BY <1>1, <1>2, LeastElement
<1>4. PICK m \in S : x = n - m
  BY <1>3
<1>5. \A d \in S : n - m <= n - d
  BY <1>3, <1>4
<1>6. \A d \in S : d <= m
  BY <1>5, SMT
<1> QED BY <1>6

-----------------------------------------------------------------------------
(* What the writes of core.symbol_xref return *)

(* An open period after a claim is one of the others', or the claimant's. *)
LEMMA ClaimedPeriods ==
  ASSUME NEW X, X \subseteq Period, NEW s \in Ids, NEW t \in Tickers, NEW d \in Nat
  PROVE  /\ Claimed(X, s, t, d) \subseteq Period
         /\ \A p \in Claimed(X, s, t, d) :
              p.to = Open => \/ p \in X /\ ~(p.sym = t /\ p.from = d)
                             \/ p = [sym |-> t, sec |-> s, from |-> d, to |-> Open]
         /\ \A p \in Claimed(X, s, t, d) : p.sec = s \/ \E q \in X : q.sec = p.sec
         /\ \A p \in Claimed(X, s, t, d) :
              (p.from = d /\ p.to = Open) \/ \E q \in X : p.from = q.from /\ p.to = q.to
<1> DEFINE at == {p \in X : p.sym = t /\ p.from = d}
           new == [sym |-> t, sec |-> s, from |-> d, to |-> Open]
           taken(p) == IF p \in at /\ p.to = Open THEN [p EXCEPT !.sec = s] ELSE p
<1>1. new \in Period
  BY DEF Period
<1>2. CASE at = {}
  <2>1. Claimed(X, s, t, d) = X \cup {new}
    BY <1>2 DEF Claimed
  <2>2. \A p \in X : ~(p.sym = t /\ p.from = d)
    BY <1>2
  <2> QED BY <1>1, <2>1, <2>2
<1>3. CASE at # {}
  <2>1. Claimed(X, s, t, d) = {taken(p) : p \in X}
    BY <1>3 DEF Claimed
  <2>2. ASSUME NEW p \in X
        PROVE  /\ taken(p) \in Period
               /\ taken(p).to = Open => \/ taken(p) \in X /\ ~(taken(p).sym = t /\ taken(p).from = d)
                                        \/ taken(p) = new
               /\ taken(p).sec = s \/ taken(p).sec = p.sec
               /\ taken(p).from = p.from /\ taken(p).to = p.to
    <3>1. p \in Period
      OBVIOUS
    <3>2. CASE p \in at /\ p.to = Open
      <4>1. taken(p) = [p EXCEPT !.sec = s]
        BY <3>2
      <4>2. [p EXCEPT !.sec = s] = new
        BY <3>1, <3>2 DEF Period
      <4>3. new.sec = s /\ new.from = d /\ new.to = Open
        OBVIOUS
      <4> HIDE DEF taken, new
      <4> QED BY <1>1, <3>1, <3>2, <4>1, <4>2, <4>3
    <3>3. CASE ~(p \in at /\ p.to = Open)
      BY <3>1, <3>3
    <3> QED BY <3>2, <3>3
  <2> HIDE DEF taken
  <2> QED BY <2>1, <2>2
<1> QED BY <1>2, <1>3

(* After a security's periods on some tickers are closed, those open are others'. *)
LEMMA ClosedPeriods ==
  ASSUME NEW X, X \subseteq Period, NEW s \in Ids, NEW ts, NEW d \in Nat
  PROVE  /\ Closed(X, s, ts, d) \subseteq Period
         /\ \A p \in Closed(X, s, ts, d) :
              p.to = Open => p \in X /\ ~(p.sec = s /\ p.sym \in ts)
         /\ \A p \in Closed(X, s, ts, d) :
              \E q \in X : p.sec = q.sec /\ p.from = q.from /\ p.to \in {q.to, q.from, d}
<1> DEFINE shut(p) == IF p.sec = s /\ p.sym \in ts /\ p.to = Open
                      THEN [p EXCEPT !.to = Later(p.from, d)] ELSE p
<1>1. Closed(X, s, ts, d) = {shut(p) : p \in X}
  BY DEF Closed
<1>2. ASSUME NEW p \in X
      PROVE  /\ shut(p) \in Period
             /\ shut(p).to = Open => shut(p) \in X /\ ~(shut(p).sec = s /\ shut(p).sym \in ts)
             /\ shut(p).sec = p.sec /\ shut(p).from = p.from
             /\ shut(p).to \in {p.to, p.from, d}
  <2>1. p \in Period
    OBVIOUS
  <2>2. CASE p.sec = s /\ p.sym \in ts /\ p.to = Open
    <3>1. Later(p.from, d) \in Nat /\ Later(p.from, d) \in {p.from, d}
      BY <2>1 DEF Period, Later
    <3>2. Later(p.from, d) # Open
      BY <3>1 DEF Open
    <3>3. shut(p) = [p EXCEPT !.to = Later(p.from, d)]
      BY <2>2
    <3> HIDE DEF shut
    <3> QED BY <2>1, <3>1, <3>2, <3>3 DEF Period
  <2>3. CASE ~(p.sec = s /\ p.sym \in ts /\ p.to = Open)
    BY <2>1, <2>3
  <2> QED BY <2>2, <2>3
<1> HIDE DEF shut
<1> QED BY <1>1, <1>2
\* A rename closes the security's period on the old ticker and opens one on the new.
LEMMA RetargetedPeriods ==
  ASSUME NEW X, X \subseteq Period, NEW s \in Ids, NEW old \in Tickers, NEW new \in Tickers,
         NEW d \in Days
  PROVE  LET Y == Retargeted(X, s, old, new, d)
         IN /\ Y \subseteq Period
            /\ \A p \in Y :
                 p.to = Open => \/ p \in X /\ ~(p.sec = s /\ p.sym = old)
                                \/ p = [sym |-> new, sec |-> s, from |-> d, to |-> Open]
            /\ \A p \in Y : p.sec = s \/ \E q \in X : q.sec = p.sec
            /\ \A p \in Y :
                 \/ p.from = d /\ p.to = Open
                 \/ \E q \in X : p.from = q.from /\ p.to \in {q.to, q.from, d - 1}
<1> DEFINE Z == Closed(X, s, {old}, d - 1)
<1>1. d \in Nat /\ d - 1 \in Nat
  BY IdentityAssumption DEF Days
<1>2. /\ Z \subseteq Period
      /\ \A p \in Z : p.to = Open => p \in X /\ ~(p.sec = s /\ p.sym \in {old})
      /\ \A p \in Z : \E q \in X : p.sec = q.sec /\ p.from = q.from /\ p.to \in {q.to, q.from, d - 1}
  BY <1>1, ClosedPeriods
<1>3. Retargeted(X, s, old, new, d) = Claimed(Z, s, new, d)
  BY DEF Retargeted
<1> HIDE DEF Z
<1>4. /\ Claimed(Z, s, new, d) \subseteq Period
      /\ \A p \in Claimed(Z, s, new, d) :
           p.to = Open => \/ p \in Z /\ ~(p.sym = new /\ p.from = d)
                          \/ p = [sym |-> new, sec |-> s, from |-> d, to |-> Open]
      /\ \A p \in Claimed(Z, s, new, d) : p.sec = s \/ \E q \in Z : q.sec = p.sec
      /\ \A p \in Claimed(Z, s, new, d) :
           (p.from = d /\ p.to = Open) \/ \E q \in Z : p.from = q.from /\ p.to = q.to
  BY <1>1, <1>2, ClaimedPeriods
<1>5. \A p \in Claimed(Z, s, new, d) :
        p.to = Open => \/ p \in X /\ ~(p.sec = s /\ p.sym = old)
                       \/ p = [sym |-> new, sec |-> s, from |-> d, to |-> Open]
  BY <1>2, <1>4
<1>6. \A p \in Claimed(Z, s, new, d) : p.sec = s \/ \E q \in X : q.sec = p.sec
  BY <1>2, <1>4
<1>7. \A p \in Claimed(Z, s, new, d) :
        \/ p.from = d /\ p.to = Open
        \/ \E q \in X : p.from = q.from /\ p.to \in {q.to, q.from, d - 1}
  BY <1>2, <1>4
<1> QED BY <1>3, <1>4, <1>5, <1>6, <1>7

-----------------------------------------------------------------------------
(* Types *)

\* The periods' days have a bound: the day after the last of a ticker is a day.
Bounded == \E n \in Nat : \A p \in xref : p.from <= n /\ p.to <= n

\* No row has an id that was not given out.
Fresh == \A s \in Ids : s > minted => secs[s] = None

\* Who trades has a first day, and so has a row with bars.
Dated ==
  /\ \A c \in Companies : on[c] # None => since[c] # 0 /\ took[c] # 0
  /\ \A s \in Rows : secs[s].of # {} => secs[s].first # 0

WorldType ==
  /\ today \in Days
  /\ on \in [Companies -> Tickers \cup {None}] /\ since \in [Companies -> 0..MaxDay]
  /\ took \in [Companies -> 0..MaxDay] /\ past \subseteq Stay
  /\ renames \subseteq Rename /\ delistings \subseteq Delisting
  /\ events \in 0..MaxEvents
  /\ \A c \in Companies : on[c] # None => since[c] # 0 /\ took[c] # 0

MasterType ==
  /\ secs \in [Ids -> Security \cup {None}] /\ xref \subseteq Period
  /\ minted \in 0..MaxSec
  /\ Bounded /\ Fresh
  /\ \A s \in Rows : secs[s].of # {} => secs[s].first # 0
  /\ \A p \in xref : p.sec \in Rows

QueueType ==
  /\ recorded \subseteq Recorded /\ conflicts \subseteq Tickers \X Tickers
  /\ judged \subseteq (Ids \X Tickers \X Days \X {"open", "accepted"})
  /\ drift \subseteq Rows
  /\ \A j \in judged : j[1] \in Rows
  /\ \A r \in recorded : r.sec \in Rows \cup {None}

NightType ==
  /\ ran \in {"no", "started", "listed"}
  /\ phase \in {"idle", "renames", "list", "delist", "prices"}
  /\ todo \subseteq (CASE phase = "renames" -> Rename [] phase = "list" -> Entry
                       [] OTHER -> Delisting)
  /\ ops \in 0..MaxOps /\ fails \in 0..MaxFails

TypeInv == TypeOK /\ Bounded /\ Fresh /\ Dated

LEMMA TypeParts ==
  TypeInv <=> WorldType /\ MasterType /\ QueueType /\ NightType
<1>1. ({p.sec : p \in xref} \cup {j[1] : j \in judged} \subseteq Rows)
        <=> (\A p \in xref : p.sec \in Rows) /\ (\A j \in judged : j[1] \in Rows)
  OBVIOUS
<1>2. ({r.sec : r \in recorded} \subseteq Rows \cup {None})
        <=> (\A r \in recorded : r.sec \in Rows \cup {None})
  OBVIOUS
<1> QED BY <1>1, <1>2, Zenon DEF TypeInv, TypeOK, Dated, WorldType, MasterType, QueueType, NightType

\* The same of the next state.
LEMMA TypePartsNext ==
  WorldType' /\ MasterType' /\ QueueType' /\ NightType' => TypeInv'
<1>1. ({p.sec : p \in xref'} \cup {j[1] : j \in judged'} \subseteq Rows')
        <=> (\A p \in xref' : p.sec \in Rows') /\ (\A j \in judged' : j[1] \in Rows')
  OBVIOUS
<1>2. ({r.sec : r \in recorded'} \subseteq Rows' \cup {None})
        <=> (\A r \in recorded' : r.sec \in Rows' \cup {None})
  OBVIOUS
<1> QED BY <1>1, <1>2, Zenon DEF TypeInv, TypeOK, Dated, WorldType, MasterType, QueueType, NightType

\* What a group of variables left alone keeps.
LEMMA SameWorld == WorldType /\ UNCHANGED <<today, world>> => WorldType'
BY DEF WorldType, world, Days

LEMMA SameMaster == MasterType /\ UNCHANGED master => MasterType'
BY DEF MasterType, master, Bounded, Fresh, Rows

LEMMA SameQueues == QueueType /\ UNCHANGED queues /\ UNCHANGED secs => QueueType'
BY DEF QueueType, queues, Rows

LEMMA SameNight == NightType /\ UNCHANGED <<ran, phase, todo, ops, fails>> => NightType'
BY DEF NightType

\* The ticker's security is listed.
LEMMA ActiveListed ==
  ASSUME NEW t PROVE Active(t) = None \/ Active(t) \in Listed
<1>1. HoldersOf(t) \subseteq Listed /\ NamedBy(t) \subseteq Listed
  BY DEF HoldersOf, NamedBy
<1>2. NamedBy(t) # {} => Min(NamedBy(t)) \in NamedBy(t)
  <2>1. NamedBy(t) \subseteq Nat
    BY DEF NamedBy, Listed, Rows, Ids
  <2>2. NamedBy(t) # {} => \E x \in NamedBy(t) : \A y \in NamedBy(t) : x <= y
    BY <2>1, LeastElement
  <2> QED BY <2>2, Zenon DEF Min
<1> QED BY <1>1, <1>2 DEF Active

LEMMA MarketTyped ==
  ASSUME TypeInv, Market PROVE TypeInv'
<1> USE IdentityAssumption
<1>1. WorldType /\ MasterType /\ QueueType /\ NightType
  BY TypeParts
<1>2. CASE Tomorrow
  <2>1. WorldType'
    BY <1>1, <1>2 DEF WorldType, Tomorrow, world, Days
  <2>2. NightType'
    BY <1>1, <1>2 DEF NightType, Tomorrow
  <2> QED BY <1>1, <1>2, <2>1, <2>2, SameMaster, SameQueues, TypePartsNext DEF Tomorrow, master
<1>3. ASSUME Happens, WorldType' PROVE TypeInv'
  <2>1. UNCHANGED master /\ UNCHANGED queues /\ UNCHANGED secs
        /\ UNCHANGED <<ran, phase, todo, ops, fails>>
    BY <1>3 DEF Happens, master
  <2> QED BY <1>1, <1>3, <2>1, SameMaster, SameQueues, SameNight, TypePartsNext
<1>4. ASSUME NEW c \in Companies, NEW t \in Tickers, Lists(c, t) PROVE TypeInv'
  <2>1. WorldType'
    BY <1>1, <1>4 DEF WorldType, Lists, Happens, Days
  <2> QED BY <1>3, <1>4, <2>1 DEF Lists
<1>5. ASSUME NEW c \in Companies, NEW t \in Tickers, ChangesTicker(c, t) PROVE TypeInv'
  <2>1. Stayed(c) \in Stay
    BY <1>1, <1>5 DEF WorldType, ChangesTicker, Stayed, Stay, Days
  <2>2. [day |-> today, old |-> on[c], new |-> t, co |-> c] \in Rename
    BY <1>1, <1>5 DEF WorldType, ChangesTicker, Rename
  <2>3. WorldType'
    BY <1>1, <1>5, <2>1, <2>2 DEF WorldType, ChangesTicker, Happens, Days
  <2> QED BY <1>3, <1>5, <2>3 DEF ChangesTicker
<1>6. ASSUME NEW c \in Companies, StopsTrading(c) PROVE TypeInv'
  <2>1. Stayed(c) \in Stay
    BY <1>1, <1>6 DEF WorldType, StopsTrading, Stayed, Stay, Days
  <2>2. [day |-> today - 1, sym |-> on[c], co |-> c] \in Delisting
    BY <1>1, <1>6 DEF WorldType, StopsTrading, Delisting, Days
  <2>3. WorldType'
    BY <1>1, <1>6, <2>1, <2>2 DEF WorldType, StopsTrading, Happens, Days
  <2> QED BY <1>3, <1>6, <2>3 DEF StopsTrading
<1>7. ASSUME NEW c \in Companies, NEW d \in Days, MovesVenue(c, d) PROVE TypeInv'
  <2>1. [day |-> d, sym |-> on[c], co |-> c] \in Delisting
    BY <1>1, <1>7 DEF WorldType, MovesVenue, Delisting, Days
  <2>2. WorldType'
    BY <1>1, <1>7, <2>1 DEF WorldType, MovesVenue, Happens, Days
  <2> QED BY <1>3, <1>7, <2>2 DEF MovesVenue
<1>8. ASSUME NEW c \in Companies, NEW t \in Tickers, ReportsShuffle(c, t) PROVE TypeInv'
  <2>1. [day |-> today, old |-> on[c], new |-> t, co |-> c] \in Rename
    BY <1>1, <1>8 DEF WorldType, ReportsShuffle, Rename
  <2>2. WorldType'
    BY <1>1, <1>8, <2>1 DEF WorldType, ReportsShuffle, Happens, Days
  <2> QED BY <1>3, <1>8, <2>2 DEF ReportsShuffle
<1> QED BY <1>2, <1>4, <1>5, <1>6, <1>7, <1>8 DEF Market

\* What a sweep finds in its list.
LEMMA TodoTyped ==
  NightType => /\ phase = "renames" => todo \subseteq Rename
               /\ phase = "list" => todo \subseteq Entry
               /\ phase \notin {"renames", "list"} => todo \subseteq Delisting
BY DEF NightType

\* The universe step reads one entry per ticker, with the names retired from it.
LEMMA EntriesTyped ==
  ASSUME TypeInv PROVE Entries \subseteq Entry
<1>1. MasterType /\ QueueType
  BY TypeParts
<1>2. \A s \in Rows : secs[s] \in Security /\ secs[s].name \in Companies
  BY <1>1 DEF MasterType, Rows, Security
<1>3. ASSUME NEW t \in Tickers PROVE RenamedAway(t) \subseteq Companies
  <2>1. ASSUME NEW x \in recorded, x.sec # None
        PROVE  {x.was, x.co, secs[x.sec].name} \ {None} \subseteq Companies
    BY <1>1, <1>2, <2>1 DEF QueueType, Recorded
  <2> QED BY <2>1 DEF RenamedAway
<1>4. ASSUME NEW t \in Tickers PROVE Retired(t) \subseteq Companies
  BY <1>2, <1>3 DEF Retired
<1> QED BY <1>4 DEF Entries, Entry

\* The entry read next.
LEMMA EntryTyped ==
  ASSUME TypeInv, NEW e, NextEntry(e), phase = "list"
  PROVE  e \in todo /\ e \in Entry /\ e.sym \in Tickers /\ e.echoes \subseteq Companies
BY TypeParts, TodoTyped DEF NextEntry, Entry

LEMMA RecordedRows ==
  ASSUME NEW rows, NEW row
  PROVE  /\ row \in Record(rows, row)
         /\ \A x \in Record(rows, row) : x = row \/ x \in rows
BY DEF Record

LEMMA NamedTyped ==
  ASSUME QueueType, NEW r PROVE Named(r) \in Rows \cup {None}
<1> DEFINE y == {x \in recorded : Key(x) = Key(r)}
<1>1. y # {} => (CHOOSE x \in y : TRUE) \in recorded
  OBVIOUS
<1> QED BY <1>1 DEF Named, QueueType

LEMMA RowTyped ==
  ASSUME NEW r \in Rename \cup Recorded, NEW st \in {"applied", "ignored", "conflict", "dismissed"},
         NEW s \in Rows \cup {None}, NEW was \in Companies \cup {None}
  PROVE  Row(r, st, s, was) \in Recorded /\ Row(r, st, s, was).sec = s
BY DEF Row, Rename, Recorded, Rows

\* The steps of the rename sweep that leave the master alone.
LEMMA QuietRenamesTyped ==
  ASSUME TypeInv, NEW r,
         SkipRename(r) \/ UnheldRename(r) \/ ConflictRename(r)
  PROVE  TypeInv'
<1> USE IdentityAssumption
<1>1. WorldType /\ MasterType /\ QueueType /\ NightType
  BY TypeParts
<1>2. /\ phase = "renames" /\ r \in todo /\ todo' = todo \ {r}
      /\ UNCHANGED <<today, world>> /\ UNCHANGED master /\ UNCHANGED secs
      /\ UNCHANGED <<judged, drift, ran, phase, ops, fails>>
  BY DEF SkipRename, UnheldRename, ConflictRename, NextRename, master
<1>3. r \in Rename
  BY <1>1, <1>2, TodoTyped
<1>4. <<r.old, r.new>> \in Tickers \X Tickers
  BY <1>3 DEF Rename
<1>5. NightType'
  BY <1>1, <1>2 DEF NightType
<1>6. conflicts' \subseteq Tickers \X Tickers
  <2>1. conflicts' \subseteq conflicts \cup {<<r.old, r.new>>}
    BY DEF SkipRename, UnheldRename, ConflictRename
  <2> QED BY <1>1, <1>4, <2>1 DEF QueueType
<1>7. recorded' \subseteq Recorded /\ \A x \in recorded' : x.sec \in Rows \cup {None}
  <2>1. ASSUME NEW st \in {"applied", "ignored", "conflict", "dismissed"},
               NEW s \in Rows \cup {None}, recorded' = Record(recorded, Row(r, st, s, None))
        PROVE  recorded' \subseteq Recorded /\ \A x \in recorded' : x.sec \in Rows \cup {None}
    BY <1>1, <1>3, <2>1, RowTyped, RecordedRows DEF QueueType
  <2>2. Active(r.old) \in Rows \cup {None} /\ Active(r.new) \in Rows \cup {None}
    BY ActiveListed DEF Listed
  <2>3. Named(r) \in Rows \cup {None}
    BY <1>1, NamedTyped
  <2>4. \/ recorded' = recorded
        \/ recorded' = Record(recorded, Row(r, "ignored", Named(r), None))
        \/ recorded' = Record(recorded, Row(r, "applied", Active(r.new), None))
        \/ recorded' = Record(recorded, Row(r, "conflict", Active(r.old), None))
    BY DEF SkipRename, UnheldRename, ConflictRename
  <2> QED BY <1>1, <2>1, <2>2, <2>3, <2>4 DEF QueueType
<1>8. QueueType'
  <2>1. Rows' = Rows
    BY <1>2 DEF Rows
  <2> QED BY <1>1, <1>2, <1>6, <1>7, <2>1 DEF QueueType
<1> QED BY <1>1, <1>2, <1>5, <1>8, SameWorld, SameMaster, TypePartsNext

\* The steps that begin or end a part of the night.
LEMMA NightStepsTyped ==
  ASSUME TypeInv,
         \/ StartNight \/ EndRenames \/ SweepFails
         \/ EndList \/ ListFails \/ EndDelist \/ DelistFails
         \/ \E e \in todo, c \in Companies \cup {None} : SkipEntry(e, c)
         \/ \E r \in delistings : DelistingUnread(r)
  PROVE  TypeInv'
<1>1. WorldType /\ MasterType /\ QueueType /\ NightType
  BY TypeParts
<1>2. UNCHANGED <<today, world>> /\ UNCHANGED master /\ UNCHANGED secs /\ UNCHANGED queues
  BY DEF StartNight, EndRenames, SweepFails, EndList, ListFails, EndDelist, DelistFails, SkipEntry,
         DelistingUnread, master
<1>3. NightType'
  <2>1. CASE StartNight
    BY <1>1, <2>1 DEF NightType, StartNight, WorldType
  <2>2. CASE EndRenames
    BY <1>1, <2>2, EntriesTyped DEF NightType, EndRenames
  <2>3. CASE SweepFails
    BY <1>1, <2>3, EntriesTyped, IdentityAssumption DEF NightType, SweepFails
  <2>4. CASE EndList
    BY <1>1, <2>4 DEF NightType, EndList, WorldType
  <2>5. CASE EndDelist
    BY <1>1, <2>5 DEF NightType, EndDelist
  <2>6. CASE DelistFails
    BY <1>1, <2>6, IdentityAssumption DEF NightType, DelistFails
  <2>7. CASE \E e \in todo, c \in Companies \cup {None} : SkipEntry(e, c)
    BY <1>1, <2>7 DEF NightType, SkipEntry
  <2>8. CASE ListFails
    BY <1>1, <2>8, IdentityAssumption DEF NightType, ListFails, WorldType
  <2>9. CASE \E r \in delistings : DelistingUnread(r)
    BY <1>1, <2>9, IdentityAssumption DEF NightType, DelistingUnread
  <2> QED BY <2>1, <2>2, <2>3, <2>4, <2>5, <2>6, <2>7, <2>8, <2>9
<1> QED BY <1>1, <1>2, <1>3, SameWorld, SameMaster, SameQueues, TypePartsNext

\* Periods taken over, closed by a day or opened on it stay within a bound.
LEMMA StillBounded ==
  ASSUME MasterType, NEW Y, NEW k \in Nat,
         \A p \in Y : \/ p.from = k /\ p.to = Open
                    \/ \E q \in xref : p.from = q.from /\ (p.to \in {q.to, q.from} \/ p.to \in 0..k)
  PROVE  \E n \in Nat : \A p \in Y : p.from <= n /\ p.to <= n
<1>1. PICK m \in Nat : \A q \in xref : q.from <= m /\ q.to <= m
  BY DEF MasterType, Bounded
<1>2. \A q \in xref : q.from \in Nat /\ q.to \in Nat \cup {Open}
  BY DEF MasterType, Period
<1>3. m + k \in Nat /\ m <= m + k /\ k <= m + k /\ Open <= m + k
  BY <1>1 DEF Open
<1>4. \A p \in Y : p.from <= m + k /\ p.to <= m + k
  <2>1. SUFFICES ASSUME NEW p \in Y PROVE p.from <= m + k /\ p.to <= m + k
    OBVIOUS
  <2>2. CASE p.from = k /\ p.to = Open
    BY <1>3, <2>2
  <2>3. ASSUME NEW q \in xref, p.from = q.from, p.to \in {q.to, q.from} \/ p.to \in 0..k
        PROVE  p.from <= m + k /\ p.to <= m + k
    BY <1>1, <1>2, <1>3, <2>3 DEF Open
  <2> QED BY <2>2, <2>3
<1> QED BY <1>3, <1>4

\* A security is stamped: its row stays, its periods are closed.
LEMMA StampedTyped ==
  ASSUME MasterType, NEW s \in Listed, NEW d \in Days, NEW c \in Companies \cup {None},
         Stamped(s, d, c), UNCHANGED minted
  PROVE  MasterType' /\ Rows' = Rows
<1> USE IdentityAssumption
<1>1. s \in Ids /\ secs[s] \in Security
  BY DEF Listed, Rows, MasterType
<1>2. secs' = [secs EXCEPT ![s] = [secs[s] EXCEPT !.off = d, !.stamp = c]]
  BY <1>1 DEF Stamped, MasterType
<1>3. /\ [secs[s] EXCEPT !.off = d, !.stamp = c] \in Security
      /\ [secs[s] EXCEPT !.off = d, !.stamp = c].of = secs[s].of
      /\ [secs[s] EXCEPT !.off = d, !.stamp = c].first = secs[s].first
  <2>1. d \in 0..MaxDay
    BY DEF Days
  <2>2. ASSUME NEW w \in Security
        PROVE  /\ [w EXCEPT !.off = d, !.stamp = c] \in Security
               /\ [w EXCEPT !.off = d, !.stamp = c].of = w.of
               /\ [w EXCEPT !.off = d, !.stamp = c].first = w.first
    <3>1. [w EXCEPT !.off = d, !.stamp = c] \in Security
      BY <2>1, Zenon DEF Security
    <3>2. /\ [w EXCEPT !.off = d, !.stamp = c].of = w.of
          /\ [w EXCEPT !.off = d, !.stamp = c].first = w.first
      BY DEF Security
    <3> QED BY <3>1, <3>2
  <2> QED BY <1>1, <2>2
<1>4. secs' \in [Ids -> Security \cup {None}] /\ Rows' = Rows
  BY <1>1, <1>2, <1>3 DEF MasterType, Rows
<1>5. xref' = Closed(xref, s, Tickers, d) /\ d \in Nat
  BY DEF Stamped, DelistedPeriods, Days
<1>6. /\ xref' \subseteq Period
      /\ \A p \in xref' : \E q \in xref : p.sec = q.sec /\ p.from = q.from /\ p.to \in {q.to, q.from, d}
  BY <1>1, <1>5, ClosedPeriods DEF MasterType
<1>7. Bounded'
  <2>1. d \in 0..d
    BY <1>5
  <2>2. \A p \in xref' : \E q \in xref : p.from = q.from /\ (p.to \in {q.to, q.from} \/ p.to \in 0..d)
    BY <1>6, <2>1
  <2> QED BY <1>5, <2>2, StillBounded DEF Bounded
<1>8. \A p \in xref' : p.sec \in Rows'
  BY <1>4, <1>6 DEF MasterType
<1>9. Fresh'
  BY <1>1, <1>2 DEF MasterType, Fresh, Listed, Rows
<1>10. \A v \in Rows' : secs'[v].of # {} => secs'[v].first # 0
  BY <1>1, <1>2, <1>3, <1>4 DEF MasterType, Rows
<1> QED BY <1>4, <1>6, <1>7, <1>8, <1>9, <1>10 DEF MasterType

\* One record of the delisting feed.
LEMMA JudgeTyped ==
  ASSUME TypeInv, NEW r \in delistings, Judge(r), UNCHANGED <<minted, recorded, conflicts, drift>>
  PROVE  MasterType' /\ QueueType'
<1> USE IdentityAssumption
<1>1. WorldType /\ MasterType /\ QueueType /\ NightType
  BY TypeParts
<1>2. r \in Delisting
  BY <1>1 DEF WorldType
<1> DEFINE s == Active(r.sym)
<1>3. CASE UNCHANGED <<secs, xref, judged>>
  BY <1>1, <1>3, SameMaster, SameQueues DEF master, queues
<1>4. CASE s # None /\ judged' = judged \cup {<<s, r.sym, r.day, "open">>} /\ UNCHANGED <<secs, xref>>
  <2>1. s \in Listed
    BY <1>4, ActiveListed
  <2>2. <<s, r.sym, r.day, "open">> \in Ids \X Tickers \X Days \X {"open", "accepted"}
    BY <1>2, <2>1 DEF Delisting, Listed, Rows
  <2>3. Rows' = Rows /\ s \in Rows
    BY <1>4, <2>1 DEF Rows, Listed
  <2>4. \A j \in judged' : j[1] \in Rows'
    BY <1>1, <1>4, <2>3 DEF QueueType
  <2>5. judged' \subseteq (Ids \X Tickers \X Days \X {"open", "accepted"})
    BY <1>1, <1>4, <2>2 DEF QueueType
  <2>6. QueueType'
    BY <1>1, <2>3, <2>4, <2>5 DEF QueueType
  <2> QED BY <1>1, <1>4, <2>6, SameMaster DEF master
<1>5. CASE s # None /\ Stamped(s, r.day, r.co) /\ UNCHANGED judged
  <2>1. s \in Listed /\ r.day \in Days /\ r.co \in Companies \cup {None}
    BY <1>2, <1>5, ActiveListed DEF Delisting
  <2>2. MasterType' /\ Rows' = Rows
    <3> HIDE DEF s
    <3> QED BY <1>1, <1>5, <2>1, StampedTyped
  <2>3. QueueType'
    BY <1>1, <1>5, <2>2 DEF QueueType
  <2> QED BY <2>2, <2>3
<1> QED BY <1>3, <1>4, <1>5 DEF Judge, Unasked

LEMMA DelistingsTyped ==
  ASSUME TypeInv, NEW r \in delistings, SweepDelisting(r) \/ FullSweep(r)
  PROVE  TypeInv'
<1>1. WorldType /\ MasterType /\ QueueType /\ NightType
  BY TypeParts
<1>2. Judge(r) /\ UNCHANGED <<minted, recorded, conflicts, drift>> /\ UNCHANGED <<today, world>>
  BY DEF SweepDelisting, FullSweep, Operates
<1>3. NightType'
  <2>1. CASE SweepDelisting(r)
    BY <1>1, <2>1 DEF NightType, SweepDelisting
  <2>2. CASE FullSweep(r)
    BY <1>1, <2>2, IdentityAssumption DEF NightType, FullSweep, Operates
  <2> QED BY <2>1, <2>2
<1> QED BY <1>1, <1>2, <1>3, JudgeTyped, SameWorld, TypePartsNext

LEMMA DelistByHandTyped ==
  ASSUME TypeInv, NEW s \in Ids, NEW d, DelistByHand(s, d) PROVE TypeInv'
<1> USE IdentityAssumption
<1>1. WorldType /\ MasterType /\ QueueType /\ NightType
  BY TypeParts
<1>2. s \in Listed /\ d \in Days /\ Stamped(s, d, None) /\ UNCHANGED minted
  BY <1>1 DEF DelistByHand, Operates, WorldType, Days
<1>3. MasterType' /\ Rows' = Rows
  BY <1>1, <1>2, StampedTyped
<1>4. QueueType'
  BY <1>1, <1>3 DEF QueueType, DelistByHand
<1>5. NightType' /\ UNCHANGED <<today, world>>
  BY <1>1 DEF NightType, DelistByHand, Operates
<1> QED BY <1>1, <1>3, <1>4, <1>5, SameWorld, TypePartsNext

LEMMA DismissTyped ==
  ASSUME TypeInv, NEW x, DismissRename(x) PROVE TypeInv'
<1> USE IdentityAssumption
<1>1. WorldType /\ MasterType /\ QueueType /\ NightType
  BY TypeParts
<1>2. /\ recorded' = Record(recorded, [x EXCEPT !.status = "dismissed"])
      /\ x \in Recorded /\ x.sec \in Rows \cup {None}
      /\ conflicts' \subseteq conflicts
      /\ UNCHANGED master /\ UNCHANGED <<secs, judged, drift>> /\ UNCHANGED <<today, world>>
  BY <1>1 DEF DismissRename, Operates, QueueType, master
<1>3. [x EXCEPT !.status = "dismissed"] \in Recorded /\ [x EXCEPT !.status = "dismissed"].sec = x.sec
  BY <1>2 DEF Recorded
<1>4. Rows' = Rows
  BY <1>2 DEF Rows
<1>5. QueueType'
  BY <1>1, <1>2, <1>3, <1>4, RecordedRows DEF QueueType
<1>6. NightType'
  BY <1>1 DEF NightType, DismissRename, Operates
<1> QED BY <1>1, <1>2, <1>5, <1>6, SameWorld, SameMaster, TypePartsNext

\* A period that no date is given for starts on a day.
LEMMA StartOfNat ==
  ASSUME MasterType, NEW t PROVE StartOf(t, xref) \in Nat
<1>1. PICK n \in Nat : \A p \in xref : p.from <= n /\ p.to <= n
  BY DEF MasterType, Bounded
<1>2. ASSUME NEW S, S \subseteq 0..n, S # {} PROVE Max(S) \in Nat
  <2>1. PICK x \in S : \A y \in S : y <= x
    BY <1>2, GreatestElement
  <2>2. \A y \in S : x >= y
    BY <2>1
  <2>3. Max(S) \in S
    BY <2>2, Zenon DEF Max
  <2>4. S \subseteq Nat
    BY <1>1, <1>2
  <2> QED BY <2>3, <2>4
<1> DEFINE open   == {p.from : p \in {q \in xref : q.sym = t /\ q.to = Open}}
           closed == {p.to : p \in {q \in xref : q.sym = t /\ q.to # Open}}
<1>3. open \subseteq 0..n /\ closed \subseteq 0..n
  BY <1>1 DEF MasterType, Period
<1>4. StartOf(t, xref) = IF open # {} THEN Max(open)
                         ELSE IF closed # {} THEN Max(closed) + 1 ELSE 0
  BY DEF StartOf
<1> HIDE DEF open, closed
<1>5. open # {} => Max(open) \in Nat
  BY <1>2, <1>3
<1>6. closed # {} => Max(closed) \in Nat
  BY <1>2, <1>3
<1> QED BY <1>4, <1>5, <1>6

\* The universe: a row minted, or refreshed.
LEMMA ClaimTyped ==
  ASSUME MasterType, NEW s \in Ids, NEW t \in Tickers, s \in Rows', Rows \subseteq Rows',
         xref' = Claimed(xref, s, t, StartOf(t, xref))
  PROVE  xref' \subseteq Period /\ Bounded' /\ \A p \in xref' : p.sec \in Rows'
<1>1. StartOf(t, xref) \in Nat
  BY StartOfNat
<1>2. /\ xref' \subseteq Period
      /\ \A p \in xref' : p.sec = s \/ \E q \in xref : q.sec = p.sec
      /\ \A p \in xref' : \/ p.from = StartOf(t, xref) /\ p.to = Open
                          \/ \E q \in xref : p.from = q.from /\ p.to = q.to
  BY <1>1, ClaimedPeriods DEF MasterType
<1>3. PICK k \in Nat : k = StartOf(t, xref)
  BY <1>1
<1>4. Bounded'
  <2>1. \A p \in xref' : \/ p.from = k /\ p.to = Open
                        \/ \E q \in xref :
                             p.from = q.from /\ (p.to \in {q.to, q.from} \/ p.to \in 0..k)
    BY <1>2, <1>3
  <2>2. \E n \in Nat : \A p \in xref' : p.from <= n /\ p.to <= n
    BY <2>1, StillBounded
  <2> QED BY <2>2 DEF Bounded
<1> QED BY <1>2, <1>4 DEF MasterType

LEMMA MintTyped ==
  ASSUME TypeInv, NEW e, NEW c \in Companies, Mint(e, c) PROVE TypeInv'
<1> USE IdentityAssumption
<1> DEFINE t == e.sym
<1>1. WorldType /\ MasterType /\ QueueType /\ NightType
  BY TypeParts
<1>0. t \in Tickers
  BY EntryTyped DEF Mint
<1> DEFINE row == [sym |-> t, name |-> c, off |-> 0, of |-> {}, first |-> 0, last |-> 0,
                   stamp |-> None]
<1>2. minted' \in Ids /\ minted' = minted + 1 /\ minted' \in 0..MaxSec /\ secs[minted'] = None
  BY <1>1 DEF Mint, MasterType, Ids, Fresh
<1>3. row \in Security /\ row.of = {}
  BY <1>0 DEF Security
<1>4. secs' = [secs EXCEPT ![minted'] = row]
  BY DEF Mint
<1> HIDE DEF row
<1>5. secs' \in [Ids -> Security \cup {None}] /\ Rows' = Rows \cup {minted'}
  BY <1>1, <1>2, <1>3, <1>4 DEF MasterType, Rows
<1>6. Fresh' /\ \A v \in Rows' : secs'[v].of # {} => secs'[v].first # 0
  BY <1>1, <1>2, <1>3, <1>4, <1>5 DEF MasterType, Fresh, Rows, Ids
<1>7. xref' = Claimed(xref, minted', t, StartOf(t, xref))
  BY DEF Mint
<1>8. xref' \subseteq Period /\ Bounded' /\ \A p \in xref' : p.sec \in Rows'
  BY <1>0, <1>1, <1>2, <1>5, <1>7, ClaimTyped
<1>9. MasterType'
  BY <1>2, <1>5, <1>6, <1>8 DEF MasterType
<1>10. QueueType'
  BY <1>1, <1>5 DEF QueueType, Mint, queues
<1>11. NightType' /\ UNCHANGED <<today, world>>
  BY <1>1 DEF NightType, Mint
<1> QED BY <1>1, <1>9, <1>10, <1>11, SameWorld, TypePartsNext

LEMMA RefreshTyped ==
  ASSUME TypeInv, NEW e, NEW c \in Companies, Refresh(e, c) PROVE TypeInv'
<1> USE IdentityAssumption
<1> DEFINE t == e.sym
<1>1. WorldType /\ MasterType /\ QueueType /\ NightType
  BY TypeParts
<1>0. t \in Tickers
  BY EntryTyped DEF Refresh
<1>2. PICK s \in NamedBy(t) :
        /\ secs' = [secs EXCEPT ![s].name = c]
        /\ xref' = Claimed(xref, s, t, StartOf(t, xref))
        /\ drift' = IF secs[s].name # c THEN drift \cup {s} ELSE drift
        /\ phase = "list" /\ todo' = todo \ {e}
        /\ UNCHANGED <<today, world, minted, recorded, conflicts, judged, ran, phase, ops, fails>>
  BY DEF Refresh
<1>3. s \in Ids /\ s \in Rows /\ secs[s] \in Security
  BY <1>1 DEF NamedBy, Listed, Rows, MasterType
<1>4. [secs[s] EXCEPT !.name = c] \in Security
  BY <1>3, Zenon DEF Security
<1>5. /\ [secs[s] EXCEPT !.name = c].of = secs[s].of
      /\ [secs[s] EXCEPT !.name = c].first = secs[s].first
  BY <1>3 DEF Security
<1>6. secs' = [secs EXCEPT ![s] = [secs[s] EXCEPT !.name = c]]
  BY <1>1, <1>2, <1>3 DEF MasterType
<1>7. secs' \in [Ids -> Security \cup {None}] /\ Rows' = Rows
  BY <1>1, <1>3, <1>4, <1>6 DEF MasterType, Rows
<1>8. Fresh' /\ \A v \in Rows' : secs'[v].of # {} => secs'[v].first # 0
  BY <1>1, <1>2, <1>3, <1>5, <1>6, <1>7 DEF MasterType, Fresh, Rows
<1>9. xref' \subseteq Period /\ Bounded' /\ \A p \in xref' : p.sec \in Rows'
  BY <1>0, <1>1, <1>2, <1>3, <1>7, ClaimTyped
<1>10. MasterType'
  BY <1>1, <1>2, <1>7, <1>8, <1>9 DEF MasterType
<1>11. QueueType'
  BY <1>1, <1>2, <1>3, <1>7 DEF QueueType
<1>12. NightType' /\ UNCHANGED <<today, world>>
  BY <1>1, <1>2 DEF NightType
<1> QED BY <1>1, <1>10, <1>11, <1>12, SameWorld, TypePartsNext

\* Rows folded into another take their periods along, and what pointed to them points
\* to the survivor.
LEMMA FoldTyped ==
  ASSUME MasterType, QueueType, NEW B, B \subseteq Listed, NEW s \in Listed \ B,
         secs' \in [Ids -> Security \cup {None}],
         \A v \in B : secs'[v] = None,
         \A v \in Ids \ (B \cup {s}) : secs'[v] = secs[v],
         secs'[s] \in Security, secs'[s].of # {} => secs'[s].first # 0,
         NEW old \in Tickers, NEW new \in Tickers, NEW d \in Days,
         xref' = Retargeted(Without(xref, B), s, old, new, d),
         NEW row \in Recorded, row.sec = s,
         recorded' = Record(Repointed(B, s), row),
         conflicts' \subseteq conflicts, drift' = DriftTo(B, s), judged' = JudgedTo(B, s),
         UNCHANGED minted
  PROVE  MasterType' /\ QueueType'
<1> USE IdentityAssumption
<1>1. Rows' = Rows \ B /\ s \in Rows' /\ s \in Ids
  BY DEF Listed, Rows
<1> DEFINE X == Without(xref, B)
<1>2. X \subseteq Period /\ \A q \in X : q \in xref /\ q.sec \in Rows'
  BY <1>1 DEF Without, MasterType
<1>3. /\ xref' \subseteq Period
      /\ \A p \in xref' : p.sec = s \/ \E q \in X : q.sec = p.sec
      /\ \A p \in xref' :
           \/ p.from = d /\ p.to = Open
           \/ \E q \in X : p.from = q.from /\ p.to \in {q.to, q.from, d - 1}
  <2>1. xref' = Retargeted(X, s, old, new, d)
    OBVIOUS
  <2> HIDE DEF X
  <2> QED BY <1>1, <1>2, <2>1, RetargetedPeriods
<1>4. \A p \in xref' : p.sec \in Rows'
  BY <1>1, <1>2, <1>3
<1>5. d \in Nat /\ d - 1 \in 0..d
  BY DEF Days
<1>6. \A p \in xref' :
        \/ p.from = d /\ p.to = Open
        \/ \E q \in xref : p.from = q.from /\ (p.to \in {q.to, q.from} \/ p.to \in 0..d)
  BY <1>2, <1>3, <1>5
<1>7. Bounded'
  <2>1. \E n \in Nat : \A p \in xref' : p.from <= n /\ p.to <= n
    BY <1>5, <1>6, StillBounded
  <2> QED BY <2>1 DEF Bounded
<1>8. Fresh'
  BY <1>1 DEF Fresh, MasterType, Rows
<1>9. \A v \in Rows' : secs'[v].of # {} => secs'[v].first # 0
  BY <1>1 DEF MasterType, Rows
<1>10. MasterType'
  BY <1>3, <1>4, <1>7, <1>8, <1>9 DEF MasterType
<1>11. Repointed(B, s) \subseteq Recorded /\ \A x \in Repointed(B, s) : x.sec \in Rows' \cup {None}
  <2>1. ASSUME NEW x \in recorded
        PROVE  LET y == IF x.sec \in B THEN [x EXCEPT !.sec = s] ELSE x
               IN y \in Recorded /\ y.sec \in Rows' \cup {None}
    <3>1. x \in Recorded /\ x.sec \in Rows \cup {None}
      BY DEF QueueType
    <3>2. [x EXCEPT !.sec = s] \in Recorded
      BY <1>1, <3>1, Zenon DEF Recorded
    <3>3. [x EXCEPT !.sec = s].sec = s
      BY <3>1 DEF Recorded
    <3> QED BY <1>1, <3>1, <3>2, <3>3
  <2> QED BY <2>1 DEF Repointed
<1>12. recorded' \subseteq Recorded /\ \A x \in recorded' : x.sec \in Rows' \cup {None}
  BY <1>1, <1>11, RecordedRows
<1>13. judged' \subseteq (Ids \X Tickers \X Days \X {"open", "accepted"}) /\ \A j \in judged' : j[1] \in Rows'
  BY <1>1 DEF JudgedTo, QueueType
<1>14. drift' \subseteq Rows'
  BY <1>1 DEF DriftTo, QueueType
<1>15. QueueType'
  BY <1>12, <1>13, <1>14 DEF QueueType
<1> QED BY <1>10, <1>15

LEMMA ApplyTyped ==
  ASSUME TypeInv, NEW r, ApplyRename(r) PROVE TypeInv'
<1> USE IdentityAssumption
<1>1. WorldType /\ MasterType /\ QueueType /\ NightType
  BY TypeParts
<1> DEFINE s == Active(r.old)
           B == Blocker(r)
<1>2. s \in Listed /\ s \in Ids /\ secs[s] \in Security
  BY <1>1, ActiveListed DEF ApplyRename, Listed, Rows, MasterType
<1>3. B \subseteq Listed /\ s \notin B
  BY ActiveListed DEF Blocker
<1>4. r \in Rename /\ r.old \in Tickers /\ r.new \in Tickers /\ r.day \in Days /\ r.co \in Companies
  <2>1. r \in Rename
    BY <1>1, TodoTyped DEF ApplyRename, NextRename
  <2> QED BY <2>1 DEF Rename
<1>5. /\ secs' = [v \in Ids |-> IF v \in B THEN None
                               ELSE IF v = s THEN [secs[s] EXCEPT !.sym = r.new, !.name = r.co]
                               ELSE secs[v]]
      /\ xref' = Retargeted(Without(xref, B), s, r.old, r.new, r.day)
      /\ recorded' = Record(Repointed(B, s), Row(r, "applied", s, secs[s].name))
      /\ conflicts' \subseteq conflicts
      /\ drift' = DriftTo(B, s) /\ judged' = JudgedTo(B, s)
      /\ UNCHANGED minted /\ UNCHANGED <<today, world>>
  BY DEF ApplyRename
<1>6. [secs[s] EXCEPT !.sym = r.new, !.name = r.co] \in Security
  BY <1>2, <1>4, Zenon DEF Security
<1>7. /\ [secs[s] EXCEPT !.sym = r.new, !.name = r.co].of = secs[s].of
      /\ [secs[s] EXCEPT !.sym = r.new, !.name = r.co].first = secs[s].first
      /\ secs[s].name \in Companies
  BY <1>2 DEF Security
<1> HIDE DEF s, B
<1>8. /\ secs' \in [Ids -> Security \cup {None}]
      /\ \A v \in B : secs'[v] = None
      /\ \A v \in Ids \ (B \cup {s}) : secs'[v] = secs[v]
      /\ secs'[s] \in Security /\ secs'[s].of = secs[s].of /\ secs'[s].first = secs[s].first
  BY <1>1, <1>2, <1>3, <1>5, <1>6, <1>7 DEF MasterType, Listed, Rows
<1>9. secs'[s].of # {} => secs'[s].first # 0
  BY <1>1, <1>2, <1>8 DEF MasterType, Listed
<1>10. Row(r, "applied", s, secs[s].name) \in Recorded /\ Row(r, "applied", s, secs[s].name).sec = s
  BY <1>2, <1>4, <1>7 DEF Row, Recorded
<1>11. MasterType' /\ QueueType'
  BY <1>1, <1>2, <1>3, <1>4, <1>5, <1>8, <1>9, <1>10, FoldTyped
<1>12. NightType'
  BY <1>1 DEF NightType, ApplyRename
<1> QED BY <1>1, <1>5, <1>11, <1>12, SameWorld, TypePartsNext

LEMMA MergeTyped ==
  ASSUME TypeInv, NEW x, MergeRename(x) PROVE TypeInv'
<1> USE IdentityAssumption
<1>1. WorldType /\ MasterType /\ QueueType /\ NightType
  BY TypeParts
<1> DEFINE s == Active(x.old)
           v == Active(x.new)
           B == {v}
           first == Earlier(secs[s].first, secs[v].first)
           row == Merged(s, v, x.new)
<1>2. s \in Listed /\ v \in Listed /\ s # v
  BY ActiveListed DEF MergeRename
<1>3. s \in Ids /\ v \in Ids /\ secs[s] \in Security /\ secs[v] \in Security
  BY <1>1, <1>2 DEF Listed, Rows, MasterType
<1>4. x \in Recorded /\ x.old \in Tickers /\ x.new \in Tickers /\ x.day \in Days
  BY <1>1 DEF MergeRename, QueueType, Recorded
<1>5. /\ secs[s].first \in 0..MaxDay /\ secs[v].first \in 0..MaxDay
      /\ secs[s].last \in 0..MaxDay /\ secs[v].last \in 0..MaxDay
      /\ secs[s].of \subseteq Companies /\ secs[v].of \subseteq Companies
      /\ secs[s].name \in Companies
  BY <1>3 DEF Security
<1>6. first \in 0..MaxDay /\ Later(secs[s].last, secs[v].last) \in 0..MaxDay
  BY <1>5 DEF Later, Earlier
<1>7. first = 0 => secs[s].of \cup secs[v].of = {}
  BY <1>1, <1>2, <1>5 DEF MasterType, Earlier, Listed
<1>8. secs' = [u \in Ids |-> IF u = v THEN None ELSE IF u = s THEN row ELSE secs[u]]
  BY DEF MergeRename
<1>9. /\ xref' = Retargeted(Without(xref, B), s, x.old, x.new, x.day)
      /\ recorded' = Record(Repointed(B, s), Row(x, "applied", s, secs[s].name))
      /\ conflicts' \subseteq conflicts
      /\ drift' = DriftTo(B, s) /\ judged' = JudgedTo(B, s)
      /\ UNCHANGED minted /\ UNCHANGED <<today, world>>
  BY DEF MergeRename, Operates
<1>10. row \in Security /\ row.of = secs[s].of \cup secs[v].of /\ row.first = first
  <2>1. secs[s].of \cup secs[v].of \in SUBSET Companies
    BY <1>5
  <2> HIDE DEF first, s, v
  <2>2. row \in Security
    BY <1>3, <1>4, <1>6, <2>1, Zenon DEF Security, Merged, first
  <2>3. row.of = secs[s].of \cup secs[v].of /\ row.first = first
    BY <1>3 DEF Security, Merged, first
  <2> QED BY <2>2, <2>3
<1> HIDE DEF s, v, row, first
<1>11. /\ secs' \in [Ids -> Security \cup {None}]
       /\ \A u \in B : secs'[u] = None
       /\ \A u \in Ids \ (B \cup {s}) : secs'[u] = secs[u]
       /\ secs'[s] \in Security
       /\ secs'[s].of # {} => secs'[s].first # 0
  BY <1>1, <1>2, <1>3, <1>7, <1>8, <1>10 DEF MasterType
<1>12. Row(x, "applied", s, secs[s].name) \in Recorded /\ Row(x, "applied", s, secs[s].name).sec = s
  <2>1. s \in Ids /\ x.co \in Companies /\ secs[s].name \in Companies
    BY <1>3, <1>4, <1>5 DEF Recorded
  <2> QED BY <1>4, <2>1 DEF Row, Recorded
<1>13. MasterType' /\ QueueType'
  <2>1. B \subseteq Listed /\ s \in Listed \ B
    BY <1>2
  <2> HIDE DEF B
  <2> QED BY <1>1, <1>4, <1>9, <1>11, <1>12, <2>1, FoldTyped
<1>14. NightType'
  BY <1>1 DEF NightType, MergeRename, Operates
<1> QED BY <1>1, <1>9, <1>13, <1>14, SameWorld, TypePartsNext

\* The prices: a row gets the bars of whoever trades on its ticker.
LEMMA LoadedTyped ==
  ASSUME WorldType, MasterType, NEW s \in Ids
  PROVE  /\ Loaded(s) \in Security \cup {None}
         /\ Loaded(s) = None <=> secs[s] = None
         /\ (s \in Rows /\ Loaded(s).of # {}) => Loaded(s).first # 0
         /\ s \in Rows => /\ secs[s].of \subseteq Loaded(s).of
                          /\ Loaded(s).sym = secs[s].sym /\ Loaded(s).off = secs[s].off
<1> USE IdentityAssumption
<1> DEFINE cs == {c \in Companies : on[c] = secs[s].sym}
           from == IF secs[s].first = 0 THEN Min({since[c] : c \in cs}) ELSE secs[s].first
           row == [secs[s] EXCEPT !.of = secs[s].of \cup cs, !.first = from, !.last = today]
<1>1. CASE s \notin Listed \/ cs = {}
  <2>1. Loaded(s) = secs[s]
    BY <1>1 DEF Loaded
  <2> QED BY <2>1 DEF MasterType, Rows
<1>2. CASE s \in Listed /\ cs # {}
  <2>1. secs[s] \in Security /\ s \in Rows
    BY <1>2 DEF MasterType, Listed, Rows
  <2>2. /\ secs[s].sym \in Tickers /\ secs[s].first \in 0..MaxDay
        /\ secs[s].of \in SUBSET Companies
    BY <2>1 DEF Security
  <2>3. \A c \in cs : since[c] \in 1..MaxDay
    <3>1. secs[s].sym # None
      BY <2>2
    <3>2. ASSUME NEW c \in Companies, on[c] = secs[s].sym PROVE since[c] \in 0..MaxDay /\ since[c] # 0
      BY <3>1, <3>2 DEF WorldType
    <3> QED BY <3>2
  <2>4. Min({since[c] : c \in cs}) \in 1..MaxDay
    <3> DEFINE T == {since[c] : c \in cs}
    <3>1. T \subseteq 1..MaxDay /\ T # {} /\ T \subseteq Nat
      BY <1>2, <2>3
    <3> HIDE DEF T
    <3>2. \E x \in T : \A y \in T : x <= y
      BY <3>1, LeastElement
    <3>3. Min(T) \in T
      BY <3>2, Zenon DEF Min
    <3> QED BY <3>1, <3>3 DEF T
  <2>5. from \in 0..MaxDay /\ from # 0 /\ today \in 0..MaxDay
    BY <2>2, <2>4 DEF WorldType, Days
  <2>6. secs[s].of \cup cs \in SUBSET Companies
    BY <2>2
  <2>7. Loaded(s) = row
    BY <1>2 DEF Loaded
  <2> HIDE DEF from, cs
  <2>8. row \in Security
    BY <2>1, <2>5, <2>6, Zenon DEF Security
  <2>9. /\ row.of = secs[s].of \cup cs /\ row.first = from
        /\ row.sym = secs[s].sym /\ row.off = secs[s].off
    BY <2>1 DEF Security
  <2> HIDE DEF row
  <2> QED BY <2>1, <2>5, <2>7, <2>8, <2>9
<1> QED BY <1>1, <1>2

LEMMA LoadPricesTyped ==
  ASSUME TypeInv, LoadPrices PROVE TypeInv'
<1>1. WorldType /\ MasterType /\ QueueType /\ NightType
  BY TypeParts
<1>2. secs' = [s \in Ids |-> Loaded(s)] /\ UNCHANGED <<today, world, xref, minted, queues>>
  BY DEF LoadPrices
<1>3. \A s \in Ids : /\ secs'[s] = Loaded(s) /\ Loaded(s) \in Security \cup {None}
                     /\ Loaded(s) = None <=> secs[s] = None
                     /\ (s \in Rows /\ Loaded(s).of # {}) => Loaded(s).first # 0
  BY <1>1, <1>2, LoadedTyped
<1>4. secs' \in [Ids -> Security \cup {None}] /\ Rows' = Rows
  BY <1>2, <1>3 DEF Rows
<1>5. MasterType'
  <2>1. Bounded' /\ Fresh'
    BY <1>1, <1>2, <1>3 DEF MasterType, Bounded, Fresh
  <2>2. \A s \in Rows' : secs'[s].of # {} => secs'[s].first # 0
    BY <1>3, <1>4 DEF Rows
  <2> QED BY <1>1, <1>2, <1>4, <2>1, <2>2 DEF MasterType
<1>6. QueueType'
  BY <1>1, <1>2, <1>4 DEF QueueType, queues
<1>7. NightType' /\ UNCHANGED <<today, world>>
  BY <1>1, <1>2 DEF NightType, LoadPrices
<1> QED BY <1>1, <1>5, <1>6, <1>7, SameWorld, TypePartsNext

\* Periods that are opened again are among the security's own.
LEMMA ReopenedPeriods ==
  ASSUME NEW X, X \subseteq Period, NEW ps, ps \subseteq X
  PROVE  /\ Reopened(X, ps) \subseteq Period
         /\ \A p \in Reopened(X, ps) :
              \/ p \in X \ ps
              \/ \E q \in ps : /\ p.sym = q.sym /\ p.sec = q.sec /\ p.from = q.from
                               /\ p.to = Open
<1>1. ASSUME NEW q \in ps
      PROVE  LET p == [q EXCEPT !.to = Open]
             IN /\ p \in Period /\ p.sym = q.sym /\ p.sec = q.sec /\ p.from = q.from
                /\ p.to = Open
  BY <1>1 DEF Period
<1> QED BY <1>1 DEF Reopened

LEMMA VenueTransferTyped ==
  ASSUME TypeInv, NEW s \in Ids, NEW d, VenueTransfer(s, d) PROVE TypeInv'
<1> USE IdentityAssumption
<1>1. WorldType /\ MasterType /\ QueueType /\ NightType
  BY TypeParts
<1>2. s \in Rows /\ secs[s] \in Security /\ d \in Days
  BY <1>1 DEF VenueTransfer, Rows, MasterType, WorldType, Days
<1> DEFINE row == [secs[s] EXCEPT !.off = 0, !.stamp = None]
<1>3. secs' = [secs EXCEPT ![s] = row]
  BY <1>1, <1>2 DEF VenueTransfer, MasterType
<1>4. row \in Security
  <2>1. 0 \in 0..MaxDay
    OBVIOUS
  <2> QED BY <1>2, <2>1, Zenon DEF Security
<1>5. /\ row.of = secs[s].of /\ row.first = secs[s].first
      /\ secs[s].sym \in Tickers /\ secs[s].off \in 0..MaxDay
  BY <1>2 DEF Security
<1> HIDE DEF row
<1>6. secs' \in [Ids -> Security \cup {None}] /\ Rows' = Rows
  BY <1>1, <1>2, <1>3, <1>4 DEF MasterType, Rows
<1>7. Fresh' /\ \A v \in Rows' : secs'[v].of # {} => secs'[v].first # 0
  BY <1>1, <1>2, <1>3, <1>5, <1>6 DEF MasterType, Fresh, Rows, VenueTransfer, Operates
<1>8. xref' = xref \/ xref' = Reopened(xref, ClosedByDelisting(s))
  BY DEF VenueTransfer
<1>9. ClosedByDelisting(s) \subseteq xref /\ \A q \in ClosedByDelisting(s) : q.sec = s
  BY DEF ClosedByDelisting
<1>10. ASSUME xref' = Reopened(xref, ClosedByDelisting(s))
       PROVE  xref' \subseteq Period /\ Bounded' /\ \A p \in xref' : p.sec \in Rows'
  <2>1. /\ xref' \subseteq Period
        /\ \A p \in xref' :
             p \in xref \/ \E q \in xref : p.sec = q.sec /\ p.from = q.from /\ p.to = Open
    BY <1>1, <1>9, <1>10, ReopenedPeriods DEF MasterType
  <2>2. PICK n \in Nat : \A p \in xref : p.from <= n /\ p.to <= n
    BY <1>1 DEF MasterType, Bounded
  <2>3. \A p \in xref' : p.from <= n /\ p.to <= n
    BY <2>1, <2>2 DEF Open
  <2> QED BY <1>1, <1>6, <2>1, <2>2, <2>3 DEF MasterType, Bounded
<1>11. xref' \subseteq Period /\ Bounded' /\ \A p \in xref' : p.sec \in Rows'
  BY <1>1, <1>6, <1>8, <1>10 DEF MasterType, Bounded
<1>12. MasterType'
  BY <1>1, <1>6, <1>7, <1>11 DEF MasterType, VenueTransfer, Operates
<1>13. /\ judged' \subseteq (Ids \X Tickers \X Days \X {"open", "accepted"})
       /\ \A j \in judged' : j[1] \in Rows'
  <2>1. \A e \in {d, secs[s].off} \ {0} : e \in Days
    BY <1>2, <1>5 DEF Days
  <2>2. \A j \in judged : <<s, j[2], j[3], "accepted">> \in Ids \X Tickers \X Days \X {"open", "accepted"}
    BY <1>1 DEF QueueType
  <2>3. \A e \in {d, secs[s].off} \ {0} :
          <<s, secs[s].sym, e, "accepted">> \in Ids \X Tickers \X Days \X {"open", "accepted"}
    BY <1>5, <2>1
  <2>4. \A j \in judged' :
          \/ j \in judged
          \/ \E i \in judged : j = <<s, i[2], i[3], "accepted">>
          \/ \E e \in {d, secs[s].off} \ {0} : j = <<s, secs[s].sym, e, "accepted">>
    BY DEF VenueTransfer
  <2> QED BY <1>1, <1>2, <1>6, <2>2, <2>3, <2>4 DEF QueueType
<1>14. QueueType'
  BY <1>1, <1>6, <1>13 DEF QueueType, VenueTransfer
<1>15. NightType' /\ UNCHANGED <<today, world>>
  BY <1>1 DEF NightType, VenueTransfer, Operates
<1> QED BY <1>1, <1>12, <1>14, <1>15, SameWorld, TypePartsNext

-----------------------------------------------------------------------------
LEMMA InitTyped == Init => TypeInv
<1> SUFFICES ASSUME Init PROVE TypeInv
  OBVIOUS
<1> USE IdentityAssumption DEF Init
<1>1. WorldType
  BY DEF WorldType, Days
<1>2. MasterType
  BY DEF MasterType, Bounded, Fresh, Rows
<1>3. QueueType
  BY DEF QueueType
<1>4. NightType
  <2>1. 0 \in 0..MaxOps /\ 0 \in 0..MaxFails
    OBVIOUS
  <2> QED BY <2>1 DEF NightType
<1> QED BY <1>1, <1>2, <1>3, <1>4, TypeParts

LEMMA StutterTyped ==
  ASSUME TypeInv, UNCHANGED vars PROVE TypeInv'
<1>1. WorldType /\ MasterType /\ QueueType /\ NightType
  BY TypeParts
<1> QED BY <1>1, SameWorld, SameMaster, SameQueues, SameNight, TypePartsNext DEF vars, master

LEMMA NextTyped ==
  ASSUME TypeInv, [Next]_vars PROVE TypeInv'
<1>1. CASE Market
  BY <1>1, MarketTyped
<1>2. CASE StartNight
  BY <1>2, NightStepsTyped
<1>3. CASE RenameStep
  BY <1>3, NightStepsTyped, QuietRenamesTyped, ApplyTyped DEF RenameStep
<1>4. CASE ListStep
  BY <1>4, NightStepsTyped, MintTyped, RefreshTyped DEF ListStep
<1>5. CASE DelistStep
  BY <1>5, NightStepsTyped, DelistingsTyped DEF DelistStep
<1>6. CASE LoadPrices
  BY <1>6, LoadPricesTyped
<1>7. CASE ByHand
  BY <1>7, DelistingsTyped, MergeTyped, DismissTyped, VenueTransferTyped, DelistByHandTyped
     DEF ByHand, SecurityMergeRename, SecurityDismissRename, SecurityVenueTransfer
<1>8. CASE UNCHANGED vars
  BY <1>8, StutterTyped
<1> QED BY <1>1, <1>2, <1>3, <1>4, <1>5, <1>6, <1>7, <1>8 DEF Next

(* Every reachable state is well typed: rows point to rows, no period outlives its *)
(* security's row, and no id is given out twice.                                   *)
THEOREM TypeInvariant == Spec => []TypeInv
<1>1. TypeInv /\ [Next]_vars => TypeInv'
  BY NextTyped
<1> QED BY <1>1, InitTyped, PTL DEF Spec

THEOREM TypeCorrect == Spec => []TypeOK
<1>1. TypeInv => TypeOK
  BY DEF TypeInv
<1> QED BY <1>1, TypeInvariant, PTL

-----------------------------------------------------------------------------
(* One holder of a ticker *)

\* The ticker's security is the one listed on it.
LEMMA ActiveNamed ==
  ASSUME OneHolder, NEW t \in Tickers
  PROVE  \/ NamedBy(t) = {Active(t)} /\ Active(t) # None
         \/ NamedBy(t) = {} /\ Active(t) = None
<1>1. HoldersOf(t) \subseteq NamedBy(t)
  BY DEF OneHolder, HoldersOf
<1>2. \A s, v \in NamedBy(t) : s = v
  BY DEF OneHolder
<1>3. CASE NamedBy(t) = {}
  BY <1>1, <1>3 DEF Active
<1>4. CASE NamedBy(t) # {}
  <2>1. NamedBy(t) \subseteq Nat
    BY DEF NamedBy, Listed, Rows, Ids
  <2>2. \E x \in NamedBy(t) : \A y \in NamedBy(t) : x <= y
    BY <1>4, <2>1, LeastElement
  <2>3. Min(NamedBy(t)) \in NamedBy(t)
    BY <2>2, Zenon DEF Min
  <2>4. Active(t) \in NamedBy(t)
    BY <1>1, <1>4, <2>3 DEF Active
  <2>5. None \notin NamedBy(t)
    BY <2>1, IdentityAssumption
  <2> QED BY <1>2, <2>4, <2>5
<1> QED BY <1>3, <1>4

\* A stamp takes the security off its ticker, with its open periods.
LEMMA StampedHolder ==
  ASSUME MasterType, OneHolder, NEW s \in Listed, NEW d \in Days, NEW c, Stamped(s, d, c)
  PROVE  OneHolder'
<1>1. s \in Ids /\ secs[s] \in Security
  BY DEF Listed, Rows, MasterType
<1>2. /\ \A v \in Ids \ {s} : secs'[v] = secs[v]
      /\ secs'[s].off # 0
  <2>1. secs' = [secs EXCEPT ![s] = [secs[s] EXCEPT !.off = d, !.stamp = c]]
    BY <1>1 DEF Stamped, MasterType
  <2>2. [secs[s] EXCEPT !.off = d, !.stamp = c].off = d
    BY <1>1 DEF Security
  <2> QED BY <1>1, <2>1, <2>2, IdentityAssumption DEF MasterType, Days
<1>3. \A t \in Tickers : NamedBy(t)' = NamedBy(t) \ {s}
  BY <1>1, <1>2 DEF NamedBy, Listed, Rows
<1>4. \A p \in xref' : p.to = Open => p \in xref /\ p.sec # s
  <2>1. \A p \in xref' : p.to = Open => p \in xref /\ ~(p.sec = s /\ p.sym \in Tickers)
    BY <1>1, ClosedPeriods, IdentityAssumption DEF Stamped, DelistedPeriods, MasterType, Days
  <2> QED BY <2>1 DEF MasterType, Period
<1>5. \A t \in Tickers : OpenOn(t)' \subseteq {p \in OpenOn(t) : p.sec # s}
  BY <1>4 DEF OpenOn
<1> QED BY <1>3, <1>5 DEF OneHolder

\* A rename moves the security from one ticker to the other, where it takes the place
\* of whoever was listed there.
LEMMA RetargetedHolder ==
  ASSUME TypeInv, OneHolder, NEW old \in Tickers, NEW new \in Tickers, NEW d \in Days,
         NEW s, s = Active(old), s # None,
         NEW B, B = IF Active(new) \in {None, s} THEN {} ELSE {Active(new)},
         secs'[s] # None, secs'[s].sym = new, secs'[s].off = 0,
         \A v \in B : secs'[v] = None,
         \A v \in Ids \ (B \cup {s}) : secs'[v] = secs[v],
         xref' = Retargeted(Without(xref, B), s, old, new, d)
  PROVE  OneHolder'
<1>1. MasterType
  BY TypeParts
<1>2. NamedBy(old) = {s} /\ s \in Ids /\ secs[s].sym = old /\ secs[s].off = 0
  BY ActiveNamed DEF NamedBy, Listed, Rows
<1>3. NamedBy(new) \subseteq B \cup {s} /\ B \subseteq NamedBy(new) /\ s \notin B
  BY ActiveNamed
<1>4. s \in NamedBy(new) => new = old
  BY <1>2 DEF NamedBy
<1>5. /\ NamedBy(new)' = {s}
      /\ \A t \in Tickers \ {new} : NamedBy(t)' = NamedBy(t) \ {s}
  BY <1>2, <1>3 DEF NamedBy, Listed, Rows
<1> DEFINE X == Without(xref, B)
           opened == [sym |-> new, sec |-> s, from |-> d, to |-> Open]
<1>6. X \subseteq Period /\ \A p \in X : p \in xref /\ p.sec \notin B
  BY <1>1 DEF Without, MasterType
<1>7. \A p \in xref' : p.to = Open => (p \in X /\ ~(p.sec = s /\ p.sym = old)) \/ p = opened
  <2>1. xref' = Retargeted(X, s, old, new, d)
    OBVIOUS
  <2> HIDE DEF X
  <2> QED BY <1>2, <1>6, <2>1, RetargetedPeriods
<1>8. \A t \in Tickers : \A p \in OpenOn(t)' :
        \/ p = opened /\ t = new
        \/ p \in OpenOn(t) /\ p.sec \in NamedBy(t) \ (B \cup {s})
  <2>1. SUFFICES ASSUME NEW t \in Tickers, NEW p \in xref', p.sym = t, p.to = Open, p # opened
                 PROVE  p \in OpenOn(t) /\ p.sec \in NamedBy(t) \ (B \cup {s})
    BY DEF OpenOn
  <2>2. p \in xref /\ p.sec \notin B /\ ~(p.sec = s /\ t = old)
    BY <1>6, <1>7, <2>1
  <2>3. p \in OpenOn(t) /\ p.sec \in NamedBy(t)
    BY <2>1, <2>2 DEF OpenOn, OneHolder
  <2>4. p.sec # s
    BY <1>2, <2>2, <2>3 DEF NamedBy
  <2> QED BY <2>2, <2>3, <2>4
<1>9. OpenOn(new)' \subseteq {opened} /\ opened.sec = s
  BY <1>3, <1>8
<1>10. \A t \in Tickers \ {new} : OpenOn(t)' \subseteq {p \in OpenOn(t) : p.sec # s}
  BY <1>8
<1> HIDE DEF opened
<1>11. \A t \in Tickers \ {new} : \A p \in OpenOn(t)' : p.sec \in NamedBy(t)'
  BY <1>5, <1>10 DEF OneHolder
<1>12. \A t \in Tickers \ {new} : /\ \A p, q \in OpenOn(t)' : p = q
                                 /\ \A a, b \in NamedBy(t)' : a = b
  BY <1>5, <1>10 DEF OneHolder
<1>13. ASSUME NEW t \in Tickers
       PROVE  /\ \A a, b \in NamedBy(t)' : a = b
              /\ \A p, q \in OpenOn(t)' : p = q
              /\ \A p \in OpenOn(t)' : p.sec \in NamedBy(t)'
  BY <1>5, <1>9, <1>11, <1>12
<1> QED BY <1>13 DEF OneHolder

\* The listed row of a ticker takes its open period, or starts one.
LEMMA ClaimedHolder ==
  ASSUME TypeInv, OneHolder, NEW s \in Ids, NEW t \in Tickers,
         NamedBy(t) \subseteq {s}, NamedBy(t)' = {s},
         \A u \in Tickers \ {t} : NamedBy(u)' = NamedBy(u),
         xref' = Claimed(xref, s, t, StartOf(t, xref))
  PROVE  OneHolder'
<1>1. MasterType
  BY TypeParts
<1> DEFINE d == StartOf(t, xref)
           opened == [sym |-> t, sec |-> s, from |-> d, to |-> Open]
<1>2. \A p \in OpenOn(t) : p.from = d
  <2>1. SUFFICES ASSUME NEW p \in OpenOn(t) PROVE d = p.from
    OBVIOUS
  <2> DEFINE open == {q.from : q \in {q \in xref : q.sym = t /\ q.to = Open}}
  <2>2. open = {p.from} /\ p.from \in Nat
    BY <1>1, <2>1 DEF OpenOn, OneHolder, MasterType, Period
  <2>3. d = Max(open)
    BY <2>2 DEF StartOf
  <2> HIDE DEF open
  <2>4. Max({p.from}) = p.from
    BY <2>2 DEF Max
  <2> QED BY <2>2, <2>3, <2>4
<1>3. \A p \in xref' : p.to = Open => (p \in xref /\ ~(p.sym = t /\ p.from = d)) \/ p = opened
  <2>1. d \in Nat
    BY <1>1, StartOfNat
  <2> HIDE DEF d
  <2> QED BY <1>1, <2>1, ClaimedPeriods DEF MasterType, d
<1> HIDE DEF d
<1>4. OpenOn(t)' \subseteq {opened} /\ opened.sec = s /\ opened.sym = t
  BY <1>2, <1>3 DEF OpenOn
<1>5. \A u \in Tickers \ {t} : OpenOn(u)' \subseteq OpenOn(u)
  BY <1>3 DEF OpenOn
<1> HIDE DEF opened
<1>6. ASSUME NEW u \in Tickers
      PROVE  /\ \A a, b \in NamedBy(u)' : a = b
             /\ \A p, q \in OpenOn(u)' : p = q
             /\ \A p \in OpenOn(u)' : p.sec \in NamedBy(u)'
  <2>1. CASE u = t
    BY <1>4, <2>1
  <2>2. CASE u # t
    BY <1>5, <2>2 DEF OneHolder
  <2> QED BY <2>1, <2>2
<1> QED BY <1>6 DEF OneHolder

\* A delisting that is reversed opens one period, on a ticker nobody has taken.
LEMMA TransferredHolder ==
  ASSUME Heeds, TypeInv, OneHolder, NEW s \in Ids, NEW d, VenueTransfer(s, d)
  PROVE  OneHolder'
<1>1. MasterType
  BY TypeParts
<1>0. PICK t \in Tickers : t = secs[s].sym
  BY <1>1 DEF VenueTransfer, Rows, MasterType, Security
<1>2. s \in Rows /\ secs[s] \in Security /\ secs[s].sym = t /\ secs[s].off \in Nat
  BY <1>0, <1>1, IdentityAssumption DEF VenueTransfer, Rows, MasterType, Security
<1>3. /\ \A v \in Ids \ {s} : secs'[v] = secs[v]
      /\ secs'[s] # None /\ secs'[s].off = 0 /\ secs'[s].sym = t
  <2>1. secs' = [secs EXCEPT ![s] = [secs[s] EXCEPT !.off = 0, !.stamp = None]]
    BY <1>1, <1>2 DEF VenueTransfer, MasterType
  <2>2. [secs[s] EXCEPT !.off = 0, !.stamp = None] \in Security
    <3>1. 0 \in 0..MaxDay
      BY IdentityAssumption
    <3> QED BY <1>2, <3>1, Zenon DEF Security
  <2>3. /\ [secs[s] EXCEPT !.off = 0, !.stamp = None].off = 0
        /\ [secs[s] EXCEPT !.off = 0, !.stamp = None].sym = secs[s].sym
    BY <1>2 DEF Security
  <2> QED BY <1>1, <1>2, <2>1, <2>2, <2>3, IdentityAssumption DEF MasterType
<1>4. /\ NamedBy(t)' = NamedBy(t) \cup {s}
      /\ \A u \in Tickers \ {t} : NamedBy(u)' = NamedBy(u)
  BY <1>2, <1>3 DEF NamedBy, Listed, Rows
<1>5. CASE secs[s].off = 0
  <2>1. xref' = xref /\ s \in NamedBy(t)
    BY <1>2, <1>5 DEF VenueTransfer, NamedBy, Listed
  <2>2. \A u \in Tickers : NamedBy(u)' = NamedBy(u) /\ OpenOn(u)' = OpenOn(u)
    <3>1. \A u \in Tickers : OpenOn(u)' = OpenOn(u)
      BY <2>1 DEF OpenOn
    <3>2. NamedBy(t)' = NamedBy(t)
      BY <1>4, <2>1
    <3> QED BY <1>4, <3>1, <3>2
  <2> QED BY <2>2 DEF OneHolder
<1>6. CASE secs[s].off # 0
  <2> DEFINE ps == ClosedByDelisting(s)
  <2>1. /\ xref' = Reopened(xref, ps) /\ HeldByOthers(s, t) = {}
        /\ \A p \in ps : p.sym = t
    BY <1>2, <1>6 DEF VenueTransfer
  <2>2. s \notin Listed
    BY <1>6 DEF Listed
  <2>3. Active(t) = None
    BY <2>1, <2>2, ActiveListed DEF HeldByOthers
  <2>4. NamedBy(t) = {} /\ OpenOn(t) = {}
    BY <1>2, <2>3, ActiveNamed DEF OneHolder
  <2>5. /\ ps \subseteq xref /\ xref \subseteq Period
        /\ \A p \in ps : /\ p.sec = s /\ p.to = Later(p.from, secs[s].off)
                         /\ \A q \in xref : q.sym = p.sym => q.from <= p.from
    BY <1>1 DEF ClosedByDelisting, MasterType
  <2> HIDE DEF ps
  <2>6. \A p, q \in ps : p.from = q.from
    <3>1. \A p, q \in ps : p.from <= q.from /\ q.from <= p.from /\ p.from \in Nat /\ q.from \in Nat
      BY <2>1, <2>5 DEF Period
    <3> QED BY <3>1
  <2>7. \A p \in xref' :
          \/ p \in xref \ ps
          \/ \E q \in ps : p.sym = t /\ p.sec = s /\ p.from = q.from /\ p.to = Open
    BY <2>1, <2>5, ReopenedPeriods
  <2>8. xref' \subseteq Period
    BY <2>1, <2>5, ReopenedPeriods
  <2>9. \A u \in Tickers \ {t} : OpenOn(u)' \subseteq OpenOn(u)
    BY <2>7 DEF OpenOn
  <2>10. \A p \in OpenOn(t)' : \E q \in ps : /\ p.sym = t /\ p.sec = s /\ p.from = q.from
                                             /\ p.to = Open /\ p \in Period
    BY <2>4, <2>7, <2>8 DEF OpenOn
  <2>11. \A p, q \in OpenOn(t)' : p = q
    <3>1. \A p, q \in OpenOn(t)' : /\ p.sym = q.sym /\ p.sec = q.sec /\ p.from = q.from
                                   /\ p.to = q.to /\ p \in Period /\ q \in Period
      BY <2>6, <2>10
    <3> QED BY <3>1 DEF Period
  <2>12. ASSUME NEW u \in Tickers
         PROVE  /\ \A a, b \in NamedBy(u)' : a = b
                /\ \A p, q \in OpenOn(u)' : p = q
                /\ \A p \in OpenOn(u)' : p.sec \in NamedBy(u)'
    <3>1. CASE u = t
      BY <1>4, <2>4, <2>10, <2>11, <3>1
    <3>2. CASE u # t
      BY <1>4, <2>9, <3>2 DEF OneHolder
    <3> QED BY <3>1, <3>2
  <2> QED BY <2>12 DEF OneHolder
<1> QED BY <1>5, <1>6

\* The steps that leave the rows' tickers, and the periods, as they are.
LEMMA SameHolders ==
  ASSUME OneHolder, UNCHANGED xref, \A t \in Tickers : NamedBy(t)' = NamedBy(t)
  PROVE  OneHolder'
<1>1. \A t \in Tickers : OpenOn(t)' = OpenOn(t)
  BY DEF OpenOn
<1> QED BY <1>1 DEF OneHolder

LEMMA MintHolder ==
  ASSUME TypeInv, OneHolder, NEW e, NEW c \in Companies, Mint(e, c)
  PROVE  OneHolder'
<1> DEFINE t == e.sym
<1>0. t \in Tickers
  BY EntryTyped DEF Mint
<1>1. MasterType
  BY TypeParts
<1>2. PICK s \in Ids : s = minted + 1 /\ secs[s] = None
  BY <1>1, IdentityAssumption DEF Mint, MasterType, Ids, Fresh
<1>3. /\ \A v \in Ids \ {s} : secs'[v] = secs[v]
      /\ secs'[s] # None /\ secs'[s].off = 0 /\ secs'[s].sym = t
  <2> DEFINE row == [sym |-> t, name |-> c, off |-> 0, of |-> {}, first |-> 0, last |-> 0,
                     stamp |-> None]
  <2>1. row \in Security /\ row.off = 0 /\ row.sym = t
    BY <1>0, IdentityAssumption DEF Security
  <2>2. secs' = [secs EXCEPT ![s] = row]
    BY <1>2 DEF Mint
  <2> HIDE DEF row
  <2> QED BY <1>1, <1>2, <2>1, <2>2, IdentityAssumption DEF MasterType
<1>4. NamedBy(t) = {} /\ s \notin Rows
  BY <1>2 DEF Mint, Rows
<1>5. NamedBy(t)' = {s} /\ \A u \in Tickers \ {t} : NamedBy(u)' = NamedBy(u)
  BY <1>2, <1>3, <1>4 DEF NamedBy, Listed, Rows
<1>6. xref' = Claimed(xref, s, t, StartOf(t, xref))
  BY <1>2 DEF Mint
<1> QED BY <1>0, <1>4, <1>5, <1>6, ClaimedHolder

LEMMA RefreshHolder ==
  ASSUME TypeInv, OneHolder, NEW e, NEW c \in Companies, Refresh(e, c)
  PROVE  OneHolder'
<1> DEFINE t == e.sym
<1>0. t \in Tickers
  BY EntryTyped DEF Refresh
<1>1. MasterType
  BY TypeParts
<1>2. PICK s \in NamedBy(t) : /\ secs' = [secs EXCEPT ![s].name = c]
                              /\ xref' = Claimed(xref, s, t, StartOf(t, xref))
  BY DEF Refresh
<1>3. s \in Ids /\ secs[s] \in Security /\ secs[s].off = 0 /\ secs[s].sym = t
  BY <1>1 DEF NamedBy, Listed, Rows, MasterType
<1>4. /\ \A v \in Ids \ {s} : secs'[v] = secs[v]
      /\ secs'[s] # None /\ secs'[s].off = 0 /\ secs'[s].sym = t
  <2>1. secs' = [secs EXCEPT ![s] = [secs[s] EXCEPT !.name = c]]
    BY <1>1, <1>2, <1>3 DEF MasterType
  <2>2. [secs[s] EXCEPT !.name = c] \in Security
    BY <1>3, Zenon DEF Security
  <2>3. /\ [secs[s] EXCEPT !.name = c].off = secs[s].off
        /\ [secs[s] EXCEPT !.name = c].sym = secs[s].sym
    BY <1>3 DEF Security
  <2> QED BY <1>1, <1>3, <2>1, <2>2, <2>3, IdentityAssumption DEF MasterType
<1>5. NamedBy(t) = {s}
  BY <1>0 DEF OneHolder
<1>6. \A u \in Tickers : NamedBy(u)' = NamedBy(u)
  BY <1>3, <1>4 DEF NamedBy, Listed, Rows
<1> QED BY <1>0, <1>2, <1>3, <1>5, <1>6, ClaimedHolder

LEMMA LoadPricesHolder ==
  ASSUME TypeInv, OneHolder, LoadPrices PROVE OneHolder'
<1>1. WorldType /\ MasterType
  BY TypeParts
<1>2. \A s \in Ids : /\ secs'[s] = Loaded(s)
                     /\ secs'[s] = None <=> secs[s] = None
                     /\ s \in Rows => secs'[s].sym = secs[s].sym /\ secs'[s].off = secs[s].off
  BY <1>1, LoadedTyped DEF LoadPrices
<1>3. \A t \in Tickers : NamedBy(t)' = NamedBy(t)
  BY <1>2 DEF NamedBy, Listed, Rows
<1> QED BY <1>3, SameHolders DEF LoadPrices

LEMMA JudgeHolder ==
  ASSUME TypeInv, OneHolder, NEW r \in delistings, Judge(r) PROVE OneHolder'
<1>1. MasterType /\ r.day \in Days
  BY TypeParts DEF WorldType, Delisting
<1>2. CASE UNCHANGED <<secs, xref>>
  <2>1. \A t \in Tickers : NamedBy(t)' = NamedBy(t)
    BY <1>2 DEF NamedBy, Listed, Rows
  <2> QED BY <1>2, <2>1, SameHolders
<1>3. ASSUME NEW s, s = Active(r.sym), s # None, Stamped(s, r.day, r.co) PROVE OneHolder'
  BY <1>1, <1>3, ActiveListed, StampedHolder
<1> QED BY <1>2, <1>3 DEF Judge, Unasked

LEMMA ApplyHolder ==
  ASSUME TypeInv, OneHolder, NEW r, ApplyRename(r) PROVE OneHolder'
<1>1. WorldType /\ MasterType /\ NightType
  BY TypeParts
<1>2. r.old \in Tickers /\ r.new \in Tickers /\ r.day \in Days /\ r.co \in Companies
  BY <1>1, TodoTyped DEF ApplyRename, NextRename, Rename
<1>3. PICK s : s = Active(r.old)
  OBVIOUS
<1>4. PICK B : B = Blocker(r)
  OBVIOUS
<1>5. s \in Ids /\ secs[s] \in Security /\ s \in Listed /\ s # None
  BY <1>1, <1>3, ActiveListed DEF ApplyRename, Listed, Rows, MasterType
<1>6. /\ secs' = [v \in Ids |-> IF v \in B THEN None
                               ELSE IF v = s THEN [secs[s] EXCEPT !.sym = r.new, !.name = r.co]
                               ELSE secs[v]]
      /\ xref' = Retargeted(Without(xref, B), s, r.old, r.new, r.day)
  BY <1>3, <1>4 DEF ApplyRename
<1>7. B = IF Active(r.new) \in {None, s} THEN {} ELSE {Active(r.new)}
  BY <1>3, <1>4 DEF Blocker
<1>8. /\ [secs[s] EXCEPT !.sym = r.new, !.name = r.co] \in Security
      /\ [secs[s] EXCEPT !.sym = r.new, !.name = r.co].off = secs[s].off
      /\ [secs[s] EXCEPT !.sym = r.new, !.name = r.co].sym = r.new
  <2>1. [secs[s] EXCEPT !.sym = r.new, !.name = r.co] \in Security
    BY <1>2, <1>5, Zenon DEF Security
  <2> QED BY <1>5, <2>1 DEF Security
<1>9. /\ secs'[s] # None /\ secs'[s].sym = r.new /\ secs'[s].off = 0
      /\ \A v \in B : secs'[v] = None
      /\ \A v \in Ids \ (B \cup {s}) : secs'[v] = secs[v]
  <2>1. s \notin B /\ B \subseteq Ids
    BY <1>7, ActiveListed DEF Listed, Rows
  <2>2. secs[s].off = 0
    BY <1>5 DEF Listed
  <2> QED BY <1>5, <1>6, <1>8, <2>1, <2>2, IdentityAssumption
<1> QED BY <1>2, <1>3, <1>5, <1>6, <1>7, <1>9, RetargetedHolder

LEMMA MergeHolder ==
  ASSUME TypeInv, OneHolder, NEW x, MergeRename(x) PROVE OneHolder'
<1>1. MasterType /\ QueueType
  BY TypeParts
<1>2. x.old \in Tickers /\ x.new \in Tickers /\ x.day \in Days
  BY <1>1 DEF MergeRename, QueueType, Recorded
<1>3. PICK s : s = Active(x.old)
  OBVIOUS
<1>4. PICK v : v = Active(x.new)
  OBVIOUS
<1>5. /\ s \in Ids /\ secs[s] \in Security /\ s \in Listed /\ s # None
      /\ v \in Ids /\ secs[v] \in Security /\ v # None /\ v # s
  BY <1>1, <1>3, <1>4, ActiveListed DEF MergeRename, Listed, Rows, MasterType
<1>6. /\ secs' = [u \in Ids |-> IF u = v THEN None
                               ELSE IF u = s THEN Merged(s, v, x.new) ELSE secs[u]]
      /\ xref' = Retargeted(Without(xref, {v}), s, x.old, x.new, x.day)
  BY <1>3, <1>4 DEF MergeRename
<1>7. {v} = IF Active(x.new) \in {None, s} THEN {} ELSE {Active(x.new)}
  BY <1>4, <1>5
<1>8. Merged(s, v, x.new) # None /\ Merged(s, v, x.new).off = 0 /\ Merged(s, v, x.new).sym = x.new
  <2> DEFINE of == secs[s].of \cup secs[v].of
             first == Earlier(secs[s].first, secs[v].first)
             last == Later(secs[s].last, secs[v].last)
             row == [secs[s] EXCEPT !.sym = x.new, !.of = of, !.first = first, !.last = last]
  <2>1. of \in SUBSET Companies /\ first \in 0..MaxDay /\ last \in 0..MaxDay
    BY <1>5 DEF Security, Earlier, Later
  <2>2. Merged(s, v, x.new) = row
    BY DEF Merged
  <2> HIDE DEF of, first, last
  <2>3. row \in Security
    BY <1>2, <1>5, <2>1, Zenon DEF Security
  <2>4. row.off = secs[s].off /\ row.sym = x.new
    BY <1>5 DEF Security
  <2>5. secs[s].off = 0
    BY <1>5 DEF Listed
  <2> HIDE DEF row
  <2> QED BY <2>2, <2>3, <2>4, <2>5, IdentityAssumption
<1>9. /\ secs'[s] # None /\ secs'[s].sym = x.new /\ secs'[s].off = 0
      /\ \A u \in {v} : secs'[u] = None
      /\ \A u \in Ids \ ({v} \cup {s}) : secs'[u] = secs[u]
  BY <1>5, <1>6, <1>8
<1> QED BY <1>2, <1>3, <1>5, <1>6, <1>7, <1>9, RetargetedHolder

LEMMA NextHolder ==
  ASSUME Heeds, TypeInv, OneHolder, [Next]_vars PROVE OneHolder'
<1>1. ASSUME UNCHANGED <<secs, xref>> PROVE OneHolder'
  <2>1. \A t \in Tickers : NamedBy(t)' = NamedBy(t)
    BY <1>1 DEF NamedBy, Listed, Rows
  <2> QED BY <1>1, <2>1, SameHolders
<1>2. CASE UNCHANGED master
  BY <1>1, <1>2 DEF master
<1>3. ASSUME Market \/ StartNight PROVE UNCHANGED master
  BY <1>3 DEF Market, Lists, ChangesTicker, ReportsShuffle, StopsTrading, MovesVenue, Tomorrow,
              Happens, StartNight
<1>4. CASE RenameStep
  <2>1. ASSUME NEW r \in todo, ApplyRename(r) PROVE OneHolder'
    BY <2>1, ApplyHolder
  <2>2. ASSUME NEW r \in todo, SkipRename(r) \/ UnheldRename(r) \/ ConflictRename(r)
        PROVE  UNCHANGED master
    BY <2>2 DEF SkipRename, UnheldRename, ConflictRename
  <2>3. ASSUME EndRenames \/ SweepFails PROVE UNCHANGED master
    BY <2>3 DEF EndRenames, SweepFails
  <2> QED BY <1>2, <1>4, <2>1, <2>2, <2>3 DEF RenameStep
<1>5. CASE ListStep
  <2>1. ASSUME NEW e \in todo, NEW c \in Companies \cup {None}, SkipEntry(e, c)
        PROVE  UNCHANGED master
    BY <2>1 DEF SkipEntry
  <2>2. ASSUME EndList \/ ListFails PROVE UNCHANGED master
    BY <2>2 DEF EndList, ListFails
  <2> QED BY <1>2, <1>5, <2>1, <2>2, MintHolder, RefreshHolder DEF ListStep
<1>6. CASE DelistStep
  <2>1. ASSUME NEW r \in delistings, SweepDelisting(r) PROVE OneHolder'
    BY <2>1, JudgeHolder DEF SweepDelisting
  <2>2. ASSUME EndDelist \/ DelistFails \/ \E r \in delistings : DelistingUnread(r)
        PROVE  UNCHANGED master
    BY <2>2 DEF EndDelist, DelistFails, DelistingUnread
  <2> QED BY <1>2, <1>6, <2>1, <2>2 DEF DelistStep
<1>7. CASE ByHand
  <2>1. ASSUME NEW r \in delistings, FullSweep(r) PROVE OneHolder'
    BY <2>1, JudgeHolder DEF FullSweep
  <2>2. ASSUME NEW x \in recorded, DismissRename(x) PROVE OneHolder'
    BY <1>1, <2>2 DEF DismissRename
  <2>3. ASSUME NEW s \in Ids, NEW d \in {today - 1, today}, DelistByHand(s, d) PROVE OneHolder'
    <3>1. WorldType /\ MasterType
      BY TypeParts
    <3>2. s \in Listed /\ d \in Days /\ Stamped(s, d, None)
      BY <2>3, <3>1, IdentityAssumption DEF DelistByHand, WorldType, Days
    <3> QED BY <3>1, <3>2, StampedHolder
  <2> QED BY <1>7, <2>1, <2>2, <2>3, MergeHolder, TransferredHolder
     DEF ByHand, SecurityMergeRename, SecurityDismissRename, SecurityVenueTransfer
<1>8. CASE UNCHANGED vars
  BY <1>2, <1>8 DEF vars
<1> QED BY <1>2, <1>3, <1>4, <1>5, <1>6, <1>7, <1>8, LoadPricesHolder DEF Next

(* A ticker leads to one listed security at most, and nobody else is listed on it: *)
(* for every market, every failure of a sweep and every repair of an operator who  *)
(* re-opens one ticker at a time (migration 0015).                                 *)
THEOREM OneHolderAlways == ASSUME Heeds PROVE Spec => []OneHolder
<1>1. Init => OneHolder
  BY DEF Init, OneHolder, NamedBy, Listed, Rows, OpenOn
<1>2. TypeInv /\ OneHolder /\ [Next]_vars => OneHolder'
  BY NextHolder
<1> QED BY <1>1, <1>2, TypeInvariant, PTL DEF Spec

-----------------------------------------------------------------------------
(* Bars are kept *)

\* The bars of every row, and the row they are in.
Kept ==
  \A s \in Rows : secs[s].of # {} =>
    \E v \in Ids : /\ secs'[v] # None /\ secs[s].of \subseteq secs'[v].of
                   /\ secs'[s] # None => v = s

\* Most steps leave every row where it is, with its bars.
LEMMA RowsKept ==
  ASSUME \A s \in Rows : secs'[s] # None /\ secs[s].of \subseteq secs'[s].of
  PROVE  Kept
BY DEF Kept, Rows

LEMMA StampKeeps ==
  ASSUME MasterType, NEW s \in Listed, NEW d \in Days, NEW c \in Companies \cup {None},
         Stamped(s, d, c)
  PROVE  Kept
<1>1. s \in Ids /\ secs[s] \in Security
  BY DEF Listed, Rows, MasterType
<1>2. secs' = [secs EXCEPT ![s] = [secs[s] EXCEPT !.off = d, !.stamp = c]]
  BY <1>1 DEF Stamped, MasterType
<1>3. [secs[s] EXCEPT !.off = d, !.stamp = c] \in Security
  <2>1. d \in 0..MaxDay
    BY IdentityAssumption DEF Days
  <2> QED BY <1>1, <2>1, Zenon DEF Security
<1>4. [secs[s] EXCEPT !.off = d, !.stamp = c].of = secs[s].of
  BY <1>1 DEF Security
<1> QED BY <1>1, <1>2, <1>3, <1>4, RowsKept, IdentityAssumption DEF MasterType, Rows

LEMMA JudgeKeeps ==
  ASSUME TypeInv, NEW r \in delistings, Judge(r) PROVE Kept
<1>1. MasterType /\ r.day \in Days /\ r.co \in Companies
  BY TypeParts DEF WorldType, Delisting
<1>2. CASE UNCHANGED secs
  BY <1>2, RowsKept DEF Rows
<1>3. ASSUME NEW s, s = Active(r.sym), s # None, Stamped(s, r.day, r.co) PROVE Kept
  BY <1>1, <1>3, ActiveListed, StampKeeps
<1> QED BY <1>2, <1>3 DEF Judge, Unasked

LEMMA MintKeeps ==
  ASSUME TypeInv, NEW e, NEW c, Mint(e, c) PROVE Kept
<1>1. MasterType
  BY TypeParts
<1>2. minted' \in Ids /\ secs[minted'] = None
  BY <1>1, IdentityAssumption DEF Mint, MasterType, Ids, Fresh
<1>3. \A s \in Rows : secs'[s] = secs[s]
  BY <1>1, <1>2 DEF Mint, MasterType, Rows
<1> QED BY <1>3, RowsKept DEF Rows

LEMMA RefreshKeeps ==
  ASSUME TypeInv, NEW e, NEW c \in Companies, Refresh(e, c) PROVE Kept
<1>1. MasterType
  BY TypeParts
<1>2. PICK s \in NamedBy(e.sym) : secs' = [secs EXCEPT ![s].name = c]
  BY DEF Refresh
<1>3. s \in Ids /\ secs[s] \in Security
  BY <1>1 DEF NamedBy, Listed, Rows, MasterType
<1>4. [secs[s] EXCEPT !.name = c] \in Security
  BY <1>3, Zenon DEF Security
<1>5. [secs[s] EXCEPT !.name = c].of = secs[s].of
  BY <1>3 DEF Security
<1>6. secs' = [secs EXCEPT ![s] = [secs[s] EXCEPT !.name = c]]
  BY <1>1, <1>2, <1>3 DEF MasterType
<1> QED BY <1>1, <1>3, <1>4, <1>5, <1>6, RowsKept, IdentityAssumption DEF MasterType, Rows

LEMMA TransferKeeps ==
  ASSUME TypeInv, NEW s \in Ids, NEW d, VenueTransfer(s, d) PROVE Kept
<1>1. MasterType
  BY TypeParts
<1>2. s \in Rows /\ secs[s] \in Security
  BY <1>1 DEF VenueTransfer, Rows, MasterType
<1>3. secs' = [secs EXCEPT ![s] = [secs[s] EXCEPT !.off = 0, !.stamp = None]]
  BY <1>1, <1>2 DEF VenueTransfer, MasterType
<1>4. [secs[s] EXCEPT !.off = 0, !.stamp = None] \in Security
  <2>1. 0 \in 0..MaxDay
    BY IdentityAssumption
  <2> QED BY <1>2, <2>1, Zenon DEF Security
<1>5. [secs[s] EXCEPT !.off = 0, !.stamp = None].of = secs[s].of
  BY <1>2 DEF Security
<1> QED BY <1>1, <1>2, <1>3, <1>4, <1>5, RowsKept, IdentityAssumption DEF MasterType, Rows

\* A row that is folded has no bars.
LEMMA ApplyKeeps ==
  ASSUME TypeInv, NEW r, ApplyRename(r) PROVE Kept
<1>1. MasterType /\ NightType
  BY TypeParts
<1>2. r \in Rename
  BY <1>1, TodoTyped DEF ApplyRename, NextRename
<1>3. PICK s : s = Active(r.old)
  OBVIOUS
<1>4. PICK B : B = Blocker(r)
  OBVIOUS
<1>5. s \in Ids /\ secs[s] \in Security /\ s \notin B
  BY <1>1, <1>3, <1>4, ActiveListed DEF ApplyRename, Listed, Rows, MasterType, Blocker
<1>6. secs' = [v \in Ids |-> IF v \in B THEN None
                             ELSE IF v = s THEN [secs[s] EXCEPT !.sym = r.new, !.name = r.co]
                             ELSE secs[v]]
  BY <1>3, <1>4 DEF ApplyRename
<1>7. /\ [secs[s] EXCEPT !.sym = r.new, !.name = r.co] \in Security
      /\ [secs[s] EXCEPT !.sym = r.new, !.name = r.co].of = secs[s].of
  <2>1. r.new \in Tickers /\ r.co \in Companies
    BY <1>2 DEF Rename
  <2>2. [secs[s] EXCEPT !.sym = r.new, !.name = r.co] \in Security
    BY <1>5, <2>1, Zenon DEF Security
  <2> QED BY <1>5, <2>2 DEF Security
<1>8. \A v \in B \cap Rows : secs[v].of = {}
  BY <1>1, <1>4 DEF ApplyRename, Foldable, Empty, MasterType
<1>9. \A v \in Rows \ B : secs'[v] # None /\ secs[v].of \subseteq secs'[v].of
  BY <1>5, <1>6, <1>7, IdentityAssumption DEF Rows
<1> QED BY <1>8, <1>9 DEF Kept, Rows

\* A merge moves them.
LEMMA MergeKeeps ==
  ASSUME TypeInv, NEW x, MergeRename(x) PROVE Kept
<1>1. MasterType /\ QueueType
  BY TypeParts
<1>2. x.new \in Tickers
  BY <1>1 DEF MergeRename, QueueType, Recorded
<1>3. PICK s : s = Active(x.old)
  OBVIOUS
<1>4. PICK v : v = Active(x.new)
  OBVIOUS
<1>5. s \in Ids /\ secs[s] \in Security /\ v \in Ids /\ secs[v] \in Security /\ v # s
  BY <1>1, <1>3, <1>4, ActiveListed DEF MergeRename, Listed, Rows, MasterType
<1>6. secs' = [u \in Ids |-> IF u = v THEN None
                             ELSE IF u = s THEN Merged(s, v, x.new) ELSE secs[u]]
  BY <1>3, <1>4 DEF MergeRename
<1>7. Merged(s, v, x.new) \in Security /\ Merged(s, v, x.new).of = secs[s].of \cup secs[v].of
  <2> DEFINE of == secs[s].of \cup secs[v].of
             first == Earlier(secs[s].first, secs[v].first)
             last == Later(secs[s].last, secs[v].last)
             row == [secs[s] EXCEPT !.sym = x.new, !.of = of, !.first = first, !.last = last]
  <2>1. of \in SUBSET Companies /\ first \in 0..MaxDay /\ last \in 0..MaxDay
    BY <1>5 DEF Security, Earlier, Later
  <2>2. Merged(s, v, x.new) = row
    BY DEF Merged
  <2>3. of = secs[s].of \cup secs[v].of
    OBVIOUS
  <2> HIDE DEF of, first, last
  <2>4. row \in Security
    BY <1>2, <1>5, <2>1, Zenon DEF Security
  <2>5. row.of = of
    BY <1>5 DEF Security
  <2> HIDE DEF row
  <2> QED BY <2>2, <2>3, <2>4, <2>5
<1>8. secs'[s] # None /\ secs'[v] = None /\ secs'[s].of = secs[s].of \cup secs[v].of
  BY <1>5, <1>6, <1>7, IdentityAssumption
<1>9. \A u \in Rows \ {s, v} : secs'[u] = secs[u]
  BY <1>6 DEF Rows
<1>10. ASSUME NEW u \in Rows
       PROVE  \E w \in Ids : /\ secs'[w] # None /\ secs[u].of \subseteq secs'[w].of
                             /\ secs'[u] # None => w = u
  <2>1. CASE u \in {s, v}
    BY <1>5, <1>8, <2>1
  <2>2. CASE u \notin {s, v}
    BY <1>9, <2>2 DEF Rows
  <2> QED BY <2>1, <2>2
<1> QED BY <1>10 DEF Kept

LEMMA NextKeeps ==
  ASSUME TypeInv, Next PROVE Kept
<1>1. ASSUME UNCHANGED secs PROVE Kept
  BY <1>1, RowsKept DEF Rows
<1>2. ASSUME Market \/ StartNight PROVE UNCHANGED secs
  BY <1>2 DEF Market, Lists, ChangesTicker, ReportsShuffle, StopsTrading, MovesVenue, Tomorrow,
              Happens, StartNight, master
<1>3. CASE RenameStep
  <2>1. ASSUME NEW r \in todo, SkipRename(r) \/ UnheldRename(r) \/ ConflictRename(r)
        PROVE  UNCHANGED secs
    BY <2>1 DEF SkipRename, UnheldRename, ConflictRename, master
  <2>2. ASSUME EndRenames \/ SweepFails PROVE UNCHANGED secs
    BY <2>2 DEF EndRenames, SweepFails, master
  <2> QED BY <1>1, <1>3, <2>1, <2>2, ApplyKeeps DEF RenameStep
<1>4. CASE ListStep
  <2>1. ASSUME NEW e \in todo, NEW c \in Companies \cup {None}, SkipEntry(e, c)
        PROVE  UNCHANGED secs
    BY <2>1 DEF SkipEntry, master
  <2>2. ASSUME EndList \/ ListFails PROVE UNCHANGED secs
    BY <2>2 DEF EndList, ListFails, master
  <2> QED BY <1>1, <1>4, <2>1, <2>2, MintKeeps, RefreshKeeps DEF ListStep
<1>5. CASE DelistStep
  <2>1. ASSUME NEW r \in delistings, SweepDelisting(r) PROVE Kept
    BY <2>1, JudgeKeeps DEF SweepDelisting
  <2>2. ASSUME EndDelist \/ DelistFails \/ \E r \in delistings : DelistingUnread(r)
        PROVE  UNCHANGED secs
    BY <2>2 DEF EndDelist, DelistFails, DelistingUnread, master
  <2> QED BY <1>1, <1>5, <2>1, <2>2 DEF DelistStep
<1>6. CASE LoadPrices
  <2>1. WorldType /\ MasterType
    BY TypeParts
  <2>2. \A s \in Rows : secs'[s] # None /\ secs[s].of \subseteq secs'[s].of
    BY <1>6, <2>1, LoadedTyped DEF LoadPrices, Rows
  <2> QED BY <2>2, RowsKept
<1>7. CASE ByHand
  <2>1. ASSUME NEW r \in delistings, FullSweep(r) PROVE Kept
    BY <2>1, JudgeKeeps DEF FullSweep
  <2>2. ASSUME NEW x \in recorded, DismissRename(x) PROVE UNCHANGED secs
    BY <2>2 DEF DismissRename
  <2>3. ASSUME NEW s \in Ids, NEW d \in {today - 1, today}, DelistByHand(s, d) PROVE Kept
    <3>1. WorldType /\ MasterType
      BY TypeParts
    <3>2. s \in Listed /\ d \in Days /\ Stamped(s, d, None)
      BY <2>3, <3>1, IdentityAssumption DEF DelistByHand, WorldType, Days
    <3> QED BY <3>1, <3>2, StampKeeps
  <2> QED BY <1>1, <1>7, <2>1, <2>2, <2>3, MergeKeeps, TransferKeeps
     DEF ByHand, SecurityMergeRename, SecurityDismissRename, SecurityVenueTransfer
<1> QED BY <1>1, <1>2, <1>3, <1>4, <1>5, <1>6, <1>7 DEF Next

(* No step loses bars with a row: a row that goes was empty, or gave them to the one *)
(* it was merged into (fold_empty_security; merge_security).                         *)
THEOREM HistoryAlwaysKept == Spec => HistoryKept
<1>1. TypeInv /\ [Next]_vars => [Kept]_vars
  BY NextKeeps
<1>2. [Kept]_vars => [\A s \in Rows : secs[s].of # {} =>
                        \E v \in Ids : /\ secs'[v] # None /\ secs[s].of \subseteq secs'[v].of
                                       /\ secs'[s] # None => v = s]_vars
  BY DEF Kept
<1> QED BY <1>1, <1>2, TypeInvariant, PTL DEF Spec, HistoryKept

-----------------------------------------------------------------------------
(* A ticker leads to its company after the night *)

Distinct == \A c, d \in Companies : on[c] # None /\ on[c] = on[d] => c = d

\* The company's row is the one listed on its ticker.
Held(c) == \E s \in NamedBy(on[c]) : secs[s].name = c

Hidden(c)  == Misreported(c) \/ Echoes(c)
Covered(c) == on[c] # None => Hidden(c) \/ Held(c)

\* A night's steps see one market; an entry's echoes are of hidden companies, and once
\* its entry is read a company has its row.
EchoesHidden == \A e \in todo, c \in Companies : (c \in e.echoes /\ on[c] = e.sym) => Hidden(c)
ReadCovered  == \A c \in Companies : (\A e \in todo : e.sym # on[c]) => Covered(c)
Listing ==
  /\ Distinct
  /\ phase # "idle" => ran # "no"
  /\ phase \in {"renames", "list"} => ran = "started"
  /\ phase = "list" => EchoesHidden /\ ReadCovered
  /\ (phase \in {"delist", "prices"} /\ ran = "listed") => \A c \in Companies : Covered(c)

\* A ticker is taken only when it is vacant.
LEMMA MarketListing ==
  ASSUME TypeInv, Listing, Market \/ StartNight PROVE Listing'
<1>1. Distinct /\ WorldType
  BY TypeParts DEF Listing
<1>2. ASSUME NEW c \in Companies, NEW t \in Tickers, Vacant(t), on' = [on EXCEPT ![c] = t]
      PROVE  Distinct'
  BY <1>1, <1>2 DEF Distinct, Vacant, WorldType
<1>3. ASSUME NEW c \in Companies, on' = [on EXCEPT ![c] = None] PROVE Distinct'
  BY <1>1, <1>3 DEF Distinct, WorldType
<1>4. ASSUME UNCHANGED on PROVE Distinct'
  BY <1>1, <1>4 DEF Distinct
<1>5. CASE Market
  <2>1. Distinct'
    BY <1>2, <1>3, <1>4, <1>5
       DEF Market, Lists, ChangesTicker, ReportsShuffle, StopsTrading, MovesVenue, Tomorrow, world
  <2>2. phase' = "idle"
    BY <1>5 DEF Market, Lists, ChangesTicker, ReportsShuffle, StopsTrading, MovesVenue, Tomorrow,
                Happens, Listing
  <2> QED BY <2>1, <2>2 DEF Listing
<1>6. CASE StartNight
  <2>1. UNCHANGED on /\ ran' = "started" /\ phase' = "renames"
    BY <1>6 DEF StartNight, world
  <2> QED BY <1>4, <2>1 DEF Listing
<1> QED BY <1>5, <1>6

\* What the step reads as retired from a ticker hides the company that trades on it.
LEMMA RetiredHidden ==
  ASSUME TypeInv, NEW c \in Companies, c \in Retired(on[c]) PROVE Hidden(c)
<1>1. CASE c \in RenamedAway(on[c])
  BY <1>1 DEF RenamedAway, Hidden, Echoes
<1>2. CASE \E s \in Rows \ Listed : c = secs[s].name
  BY <1>2 DEF Listed, Hidden, Misreported
<1> QED BY <1>1, <1>2 DEF Retired

LEMMA RenamesListing ==
  ASSUME TypeInv, Listing, RenameStep PROVE Listing'
<1>1. UNCHANGED on /\ UNCHANGED ran /\ phase = "renames"
  BY DEF RenameStep, SkipRename, UnheldRename, ApplyRename, ConflictRename, EndRenames, SweepFails,
         world
<1>2. Distinct' /\ ran = "started"
  BY <1>1 DEF Listing, Distinct
<1>3. ASSUME NEW r \in todo,
             SkipRename(r) \/ UnheldRename(r) \/ ApplyRename(r) \/ ConflictRename(r)
      PROVE  phase' = "renames"
  BY <1>1, <1>3 DEF SkipRename, UnheldRename, ApplyRename, ConflictRename
<1>4. CASE EndRenames \/ SweepFails
  <2>1. phase' = "list" /\ todo' = Entries /\ UNCHANGED <<on, secs, recorded, drift>>
    BY <1>4 DEF EndRenames, SweepFails, world, master, queues
  <2>2. \A c \in Companies : Hidden(c)' = Hidden(c)
    BY <2>1 DEF Hidden, Misreported, Echoes, Rows
  <2>3. EchoesHidden'
    <3>1. ASSUME NEW e \in todo', NEW c \in Companies, c \in e.echoes, on'[c] = e.sym
          PROVE  Hidden(c)'
      <4>1. PICK t \in Tickers : e = [sym |-> t, echoes |-> Retired(t)]
        BY <2>1 DEF Entries
      <4>2. on[c] = t /\ c \in Retired(t)
        BY <2>1, <3>1, <4>1
      <4>3. Hidden(c)
        BY <4>2, RetiredHidden
      <4> QED BY <2>2, <4>3
    <3> QED BY <3>1 DEF EchoesHidden
  <2>4. \A c \in Companies : on[c] # None => \E e \in todo' : e.sym = on[c]
    <3>1. ASSUME NEW t \in Tickers PROVE \E e \in Entries : e.sym = t
      <4>1. [sym |-> t, echoes |-> Retired(t)] \in Entries
        BY DEF Entries
      <4> QED BY <4>1
    <3>2. \A c \in Companies : on[c] # None => on[c] \in Tickers
      BY TypeParts DEF WorldType
    <3> QED BY <2>1, <3>1, <3>2
  <2>5. ReadCovered'
    BY <2>1, <2>4 DEF ReadCovered, Covered
  <2> QED BY <1>1, <1>2, <2>1, <2>3, <2>5 DEF Listing
<1> QED BY <1>1, <1>2, <1>3, <1>4 DEF Listing, RenameStep

\* A company that trades on the entry's ticker is the one the screener serves.
LEMMA ServedIsOn ==
  ASSUME Distinct, NEW t \in Tickers, NEW d \in Companies, on[d] = t, NEW c \in Served(t)
  PROVE  c = d
<1>1. ~Vacant(t)
  BY DEF Vacant
<1>2. c \in Companies /\ on[c] = t
  BY <1>1 DEF Served
<1> QED BY <1>2, IdentityAssumption DEF Distinct

\* A step that reads an entry, and hides nothing it did not leave hidden.
LEMMA EntryListing ==
  ASSUME TypeInv, Listing, phase = "list", NEW e \in todo, NEW c,
         UNCHANGED <<on, ran, phase>>, todo' = todo \ {e},
         c \in Served(e.sym),
         \A d \in Companies : Hidden(d) => Hidden(d)',
         \A d \in Companies : Held(d) /\ on[d] # e.sym => Held(d)',
         c \in Companies /\ on[c] = e.sym => Covered(c)'
  PROVE  Listing'
<1>1. Distinct' /\ ran' = "started" /\ phase' = "list"
  BY DEF Listing, Distinct
<1>2. EchoesHidden'
  BY DEF Listing, EchoesHidden
<1>3. e.sym \in Tickers
  BY TypeParts, TodoTyped DEF Entry
<1>4. ASSUME NEW d \in Companies, \A f \in todo' : f.sym # on'[d] PROVE Covered(d)'
  <2>1. CASE on[d] = e.sym
    <3>1. c = d
      BY <1>3, <2>1, ServedIsOn DEF Listing
    <3> QED BY <2>1, <3>1
  <2>2. CASE on[d] # e.sym
    <3>1. Covered(d)
      BY <1>4, <2>2 DEF Listing, ReadCovered
    <3> QED BY <2>2, <3>1 DEF Covered
  <2> QED BY <2>1, <2>2
<1>5. ReadCovered'
  BY <1>4 DEF ReadCovered
<1> QED BY <1>1, <1>2, <1>5 DEF Listing

LEMMA SkipListing ==
  ASSUME TypeInv, Listing, NEW e \in todo, NEW c \in Companies \cup {None}, SkipEntry(e, c)
  PROVE  Listing'
<1>1. /\ phase = "list" /\ c \in Served(e.sym) /\ todo' = todo \ {e}
      /\ c = None \/ c \in e.echoes
      /\ UNCHANGED <<on, ran, phase, secs, recorded, drift>>
  BY DEF SkipEntry, world, master, queues
<1>2. \A d \in Companies : Hidden(d)' = Hidden(d) /\ Held(d)' = Held(d)
  BY <1>1 DEF Hidden, Misreported, Echoes, Held, NamedBy, Listed, Rows
<1>3. c \in Companies /\ on[c] = e.sym => Hidden(c)
  BY <1>1, IdentityAssumption DEF Listing, EchoesHidden
<1>4. c \in Companies /\ on[c] = e.sym => Covered(c)'
  BY <1>2, <1>3 DEF Covered
<1> QED BY <1>1, <1>2, <1>4, EntryListing

\* The minted row is the company's, and no other row changed.
LEMMA MintListing ==
  ASSUME TypeInv, Listing, NEW e \in todo, NEW c \in Companies, Mint(e, c) PROVE Listing'
<1>1. /\ phase = "list" /\ c \in Served(e.sym) /\ todo' = todo \ {e}
      /\ UNCHANGED <<on, ran, phase, recorded, drift>>
  BY DEF Mint, world, queues
<1>2. MasterType /\ QueueType /\ e.sym \in Tickers
  BY <1>1, TypeParts, EntryTyped DEF Mint
<1>3. PICK s \in Ids : s = minted' /\ s \notin Rows
  BY <1>2, IdentityAssumption DEF Mint, MasterType, Ids, Fresh, Rows
<1>4. /\ \A v \in Rows : v \in Rows' /\ secs'[v] = secs[v]
      /\ s \in Rows' /\ secs'[s].off = 0 /\ secs'[s].sym = e.sym /\ secs'[s].name = c
  <2> DEFINE row == [sym |-> e.sym, name |-> c, off |-> 0, of |-> {}, first |-> 0, last |-> 0,
                     stamp |-> None]
  <2>1. row \in Security /\ row.off = 0 /\ row.sym = e.sym /\ row.name = c
    BY <1>2, IdentityAssumption DEF Security
  <2>2. secs' = [secs EXCEPT ![s] = row]
    BY <1>3 DEF Mint
  <2> HIDE DEF row
  <2> QED BY <1>2, <1>3, <2>1, <2>2, IdentityAssumption DEF MasterType, Rows
<1>5. \A d \in Companies : Hidden(d) => Hidden(d)'
  <2>1. \A d \in Companies : Misreported(d) => Misreported(d)'
    BY <1>4 DEF Misreported
  <2>2. \A d \in Companies : Echoes(d) => Echoes(d)'
    BY <1>1, <1>2, <1>4 DEF Echoes, QueueType
  <2> QED BY <2>1, <2>2 DEF Hidden
<1>6. \A d \in Companies : Held(d) => Held(d)'
  BY <1>1, <1>4 DEF Held, NamedBy, Listed
<1>7. on[c] = e.sym => Covered(c)'
  BY <1>1, <1>4 DEF Covered, Held, NamedBy, Listed
<1> QED BY <1>1, <1>5, <1>6, <1>7, EntryListing

\* The refreshed row takes the company's name; a name it loses is flagged with it.
LEMMA RefreshListing ==
  ASSUME TypeInv, Listing, NEW e \in todo, NEW c \in Companies, Refresh(e, c) PROVE Listing'
<1>1. /\ phase = "list" /\ c \in Served(e.sym) /\ todo' = todo \ {e}
      /\ UNCHANGED <<on, ran, phase, recorded>>
  BY DEF Refresh, world
<1>2. MasterType /\ QueueType
  BY TypeParts
<1>3. PICK s \in NamedBy(e.sym) : /\ secs' = [secs EXCEPT ![s].name = c]
                                  /\ drift' = IF secs[s].name # c THEN drift \cup {s} ELSE drift
  BY DEF Refresh
<1>4. s \in Ids /\ secs[s] \in Security /\ s \in Rows /\ secs[s].off = 0 /\ secs[s].sym = e.sym
  BY <1>2 DEF NamedBy, Listed, Rows, MasterType
<1>5. /\ \A v \in Ids \ {s} : secs'[v] = secs[v]
      /\ secs'[s] # None /\ secs'[s].off = 0 /\ secs'[s].sym = e.sym /\ secs'[s].name = c
  <2>1. secs' = [secs EXCEPT ![s] = [secs[s] EXCEPT !.name = c]]
    BY <1>2, <1>3, <1>4 DEF MasterType
  <2>2. [secs[s] EXCEPT !.name = c] \in Security
    BY <1>4, Zenon DEF Security
  <2>3. /\ [secs[s] EXCEPT !.name = c].off = secs[s].off
        /\ [secs[s] EXCEPT !.name = c].sym = secs[s].sym
        /\ [secs[s] EXCEPT !.name = c].name = c
    BY <1>4 DEF Security
  <2> QED BY <1>2, <1>4, <2>1, <2>2, <2>3, IdentityAssumption DEF MasterType
<1>6. Rows' = Rows
  BY <1>4, <1>5 DEF Rows
<1>7. \A d \in Companies : Misreported(d) => Misreported(d)'
  BY <1>4, <1>5, <1>6 DEF Misreported, Rows
<1>8. \A d \in Companies : Echoes(d) => Echoes(d)'
  <2>1. ASSUME NEW d \in Companies, NEW x \in recorded,
               x.status = "applied", x.old = on[d], x.sec # None, secs[x.sec].sym # on[d],
               d \in {x.was, x.co, secs[x.sec].name} \/ x.sec \in drift
        PROVE  Echoes(d)'
    <3>1. x.sec \in Ids /\ secs'[x.sec].sym = secs[x.sec].sym
      BY <1>2, <1>4, <1>5, <2>1 DEF QueueType, Rows
    <3>2. secs'[x.sec].name = secs[x.sec].name \/ x.sec \in drift'
      BY <1>3, <1>4, <1>5, <3>1
    <3>3. x.sec \in drift => x.sec \in drift'
      BY <1>3
    <3> QED BY <1>1, <2>1, <3>1, <3>2, <3>3 DEF Echoes
  <2> QED BY <2>1 DEF Echoes
<1>9. \A d \in Companies : Hidden(d) => Hidden(d)'
  BY <1>7, <1>8 DEF Hidden
<1>10. \A d \in Companies : Held(d) /\ on[d] # e.sym => Held(d)'
  BY <1>1, <1>4, <1>5, <1>6 DEF Held, NamedBy, Listed, Rows
<1>11. on[c] = e.sym => Covered(c)'
  BY <1>1, <1>4, <1>5, <1>6 DEF Covered, Held, NamedBy, Listed
<1> QED BY <1>1, <1>9, <1>10, <1>11, EntryListing

LEMMA ListListing ==
  ASSUME TypeInv, Listing, ListStep PROVE Listing'
<1>1. CASE EndList
  <2>1. /\ phase = "list" /\ todo = {} /\ phase' = "delist" /\ ran' = "listed"
        /\ UNCHANGED <<on, secs, recorded, drift>>
    BY <1>1 DEF EndList, world, master, queues
  <2>2. \A c \in Companies : Covered(c)
    BY <2>1 DEF Listing, ReadCovered
  <2>3. \A c \in Companies : Covered(c)' = Covered(c)
    BY <2>1 DEF Covered, Hidden, Misreported, Echoes, Held, NamedBy, Listed, Rows
  <2> QED BY <2>1, <2>2, <2>3 DEF Listing, Distinct
<1>2. CASE ListFails
  <2>1. phase = "list" /\ phase' = "delist" /\ UNCHANGED <<on, ran>>
    BY <1>2 DEF ListFails, world
  <2> QED BY <2>1 DEF Listing, Distinct
<1> QED BY <1>1, <1>2, SkipListing, MintListing, RefreshListing DEF ListStep

\* A delisting hides the company whose row it stamps, and no other is touched.
LEMMA StampCovers ==
  ASSUME TypeInv, NEW s \in Listed, NEW d \in Days, NEW co \in Companies \cup {None},
         Stamped(s, d, co), UNCHANGED <<on, minted, recorded, drift>>,
         NEW c \in Companies, Covered(c)
  PROVE  Covered(c)'
<1>1. MasterType /\ QueueType
  BY TypeParts
<1>2. s \in Ids /\ s \in Rows /\ secs[s] \in Security
  BY <1>1 DEF Listed, Rows, MasterType
<1>3. /\ \A v \in Ids \ {s} : secs'[v] = secs[v]
      /\ secs'[s].off = d /\ secs'[s].sym = secs[s].sym /\ secs'[s].name = secs[s].name
  BY <1>1, <1>2 DEF Stamped, MasterType, Security
<1>4. Rows' = Rows /\ d # 0
  BY <1>1, StampedTyped DEF Days
<1>5. Misreported(c) => Misreported(c)'
  BY <1>2, <1>3, <1>4 DEF Misreported, Rows
<1>6. Echoes(c) => Echoes(c)'
  <2>1. \A x \in recorded : x.sec # None =>
          secs'[x.sec].sym = secs[x.sec].sym /\ secs'[x.sec].name = secs[x.sec].name
    BY <1>1, <1>3 DEF QueueType, Rows
  <2> QED BY <2>1 DEF Echoes
<1>7. ASSUME NEW v \in NamedBy(on[c]), secs[v].name = c PROVE Held(c)' \/ Misreported(c)'
  <2>1. CASE v = s
    BY <1>2, <1>3, <1>4, <1>7, <2>1 DEF Misreported
  <2>2. CASE v # s
    BY <1>3, <1>4, <1>7, <2>2 DEF Held, NamedBy, Listed, Rows
  <2> QED BY <2>1, <2>2
<1> QED BY <1>5, <1>6, <1>7 DEF Covered, Hidden, Held

LEMMA DelistListing ==
  ASSUME TypeInv, Listing, DelistStep PROVE Listing'
<1>1. UNCHANGED <<on, ran>> /\ phase = "delist"
  BY DEF DelistStep, SweepDelisting, DelistingUnread, EndDelist, DelistFails, world
<1>2. Distinct'
  BY <1>1 DEF Listing, Distinct
<1>3. ASSUME NEW r \in delistings, SweepDelisting(r), NEW c \in Companies, Covered(c)
      PROVE  Covered(c)'
  <2>1. Judge(r) /\ UNCHANGED <<on, minted, recorded, drift>>
    BY <1>3 DEF SweepDelisting, world
  <2>2. r.day \in Days /\ r.co \in Companies
    BY TypeParts DEF WorldType, Delisting
  <2>3. CASE UNCHANGED secs
    BY <1>3, <2>1, <2>3 DEF Covered, Hidden, Misreported, Echoes, Held, NamedBy, Listed, Rows
  <2>4. CASE \E s \in Listed : Stamped(s, r.day, r.co)
    BY <1>3, <2>1, <2>2, <2>4, StampCovers
  <2> QED BY <2>1, <2>3, <2>4, ActiveListed DEF Judge, Unasked
<1>4. CASE \E r \in delistings : SweepDelisting(r)
  <2>1. phase' = "delist"
    BY <1>4 DEF SweepDelisting
  <2> QED BY <1>1, <1>2, <1>3, <1>4, <2>1 DEF Listing
<1>5. CASE EndDelist
  <2>1. phase' = "prices" /\ UNCHANGED <<on, secs, recorded, drift>>
    BY <1>5 DEF EndDelist, world, master, queues
  <2>2. \A c \in Companies : Covered(c)' = Covered(c)
    BY <2>1 DEF Covered, Hidden, Misreported, Echoes, Held, NamedBy, Listed, Rows
  <2> QED BY <1>1, <1>2, <2>1, <2>2 DEF Listing
<1>6. CASE DelistFails
  BY <1>2, <1>6 DEF Listing, DelistFails
<1>7. CASE \E r \in delistings : DelistingUnread(r)
  <2>1. UNCHANGED <<on, phase, ran, secs, recorded, drift>>
    BY <1>7 DEF DelistingUnread, world, master, queues
  <2>2. \A c \in Companies : Covered(c)' = Covered(c)
    BY <2>1 DEF Covered, Hidden, Misreported, Echoes, Held, NamedBy, Listed, Rows
  <2> QED BY <1>1, <1>2, <2>1, <2>2 DEF Listing
<1> QED BY <1>4, <1>5, <1>6, <1>7 DEF DelistStep

LEMMA ListingKept ==
  ASSUME TypeInv, Listing, [Next]_vars PROVE Listing'
<1>1. ASSUME UNCHANGED on, phase' = "idle" PROVE Listing'
  BY <1>1 DEF Listing, Distinct
<1>2. CASE LoadPrices
  BY <1>1, <1>2 DEF LoadPrices, world
<1>3. CASE ByHand
  <2>1. UNCHANGED on /\ phase' = "idle"
    BY <1>3 DEF ByHand, SecurityMergeRename, SecurityDismissRename, SecurityVenueTransfer, FullSweep,
                MergeRename, DismissRename, VenueTransfer, DelistByHand, Operates, world
  <2> QED BY <1>1, <2>1
<1>4. CASE UNCHANGED vars
  <2>1. UNCHANGED <<on, ran, phase, todo, secs, recorded, drift>>
    BY <1>4 DEF vars, world, master, queues
  <2>2. \A c \in Companies : Covered(c)' = Covered(c) /\ Hidden(c)' = Hidden(c)
    BY <2>1 DEF Covered, Hidden, Misreported, Echoes, Held, NamedBy, Listed, Rows
  <2> QED BY <2>1, <2>2 DEF Listing, Distinct, EchoesHidden, ReadCovered
<1> QED BY <1>2, <1>3, <1>4, MarketListing, RenamesListing, ListListing, DelistListing DEF Next

LEMMA InitListing == Init => Listing
BY DEF Init, Listing, Distinct

\* The company's row gets the bars of the night.
LEMMA PricesFind ==
  ASSUME TypeInv, OneHolder, Listing, LoadPrices, ran = "listed",
         NEW c \in Companies, on[c] # None, ~Misreported(c), ~Echoes(c)
  PROVE  Active(on[c]) # None /\ c \in secs'[Active(on[c])].of
<1>1. Held(c) /\ on[c] \in Tickers
  BY TypeParts DEF Listing, LoadPrices, Covered, Hidden, WorldType
<1>2. PICK s \in NamedBy(on[c]) : secs[s].name = c
  BY <1>1 DEF Held
<1>3. s = Active(on[c]) /\ s # None
  BY <1>1, <1>2, ActiveNamed
<1>4. s \in Listed /\ secs[s].sym = on[c] /\ s \in Ids /\ secs[s] \in Security
  BY TypeParts DEF NamedBy, Listed, Rows, MasterType
<1>5. secs'[s] = Loaded(s)
  BY <1>4 DEF LoadPrices
<1>6. c \in Loaded(s).of
  <2> DEFINE cs == {d \in Companies : on[d] = secs[s].sym}
             from == IF secs[s].first = 0 THEN Min({since[d] : d \in cs}) ELSE secs[s].first
  <2>1. c \in cs
    BY <1>4
  <2>2. Loaded(s) = [secs[s] EXCEPT !.of = secs[s].of \cup cs, !.first = from, !.last = today]
    BY <1>4, <2>1 DEF Loaded
  <2> HIDE DEF from, cs
  <2>3. Loaded(s).of = secs[s].of \cup cs
    BY <1>4, <2>2 DEF Security
  <2> QED BY <2>1, <2>3
<1> QED BY <1>3, <1>5, <1>6

(* After a night whose universe step went through, the ticker of a company leads to the *)
(* security with its bars, unless a delisting or an echo hides it: for every market,    *)
(* every failure of an earlier step and every repair of a heedful operator.             *)
THEOREM TickersFindTheirCompanies == ASSUME Heeds PROVE Spec => TickerFindsCompany
<1> DEFINE Finds == (LoadPrices /\ ran = "listed") =>
                      \A c \in Companies :
                        (on[c] # None /\ ~Misreported(c) /\ ~Echoes(c)) =>
                          LET s == Active(on[c])
                          IN s # None /\ c \in secs'[s].of
<1>1. TypeInv /\ Listing /\ [Next]_vars => Listing'
  BY ListingKept
<1>2. TypeInv /\ OneHolder /\ Listing /\ [Next]_vars => [Finds]_vars
  BY PricesFind
<1>3. [Finds]_vars => [LoadPrices /\ ran = "listed" =>
                        \A c \in Companies :
                          (on[c] # None /\ ~Misreported(c) /\ ~Echoes(c)) =>
                            LET s == Active(on[c])
                            IN s # None /\ c \in secs'[s].of]_vars
  BY DEF Finds
<1> HIDE DEF Finds
<1> QED BY <1>1, <1>2, <1>3, InitListing, TypeInvariant, OneHolderAlways, PTL
        DEF Spec, TickerFindsCompany
=============================================================================
