------------------------- MODULE VendorLinksProofs -------------------------
(***************************************************************************)
(* Proofs about VendorLinks, for any securities, keys, prices and bounds.    *)
(* The table's own checks do much of the work: a closed link cannot feed,    *)
(* so no review closes the link that feeds a security.                      *)
(***************************************************************************)
EXTENDS VendorLinks, TLAPS

-----------------------------------------------------------------------------
(* Types *)

RunType ==
  \/ run = Idle
  \/ /\ run.kind = "link"
     /\ DOMAIN run.plan \subseteq Own
     /\ \A s \in DOMAIN run.plan :
          /\ run.plan[s].key \in Keys \cup {None}
          /\ run.plan[s].key = None => run.plan[s].why \in Reasons
  \/ /\ run.kind = "scan" /\ run.pairs \subseteq Secs \X Keys /\ run.seen = run.pairs

ReviewType ==
  \/ review = Idle
  \/ /\ review.kind = "accept" /\ review.sec \in Secs /\ review.key \in Keys
     /\ review.from \in Days /\ review.noop \in BOOLEAN
     /\ review.close \subseteq Link /\ review.unrejects \in BOOLEAN
  \/ /\ review.kind = "reject" /\ review.sec \in Secs /\ review.key \in Keys
     /\ review.close \subseteq Link

TypeInv == TypeOK /\ RunType /\ ReviewType

LEMMA GradeSet == {Grades[i] : i \in 1..4} = {"apart", "off", "latest", "agrees"}
BY DEF Grades

LEMMA DaysFacts == Days \subseteq Nat /\ Open \in Nat /\ Open \notin Days /\ \A d \in Days : d < Open
BY LinksAssumption DEF Days, Open

(* Where two histories meet is a day. *)
LEMMA StartDay ==
  ASSUME TypeOK, NEW s, NEW k \in Keys PROVE Start(s, k) \in Days
<1>1. Born[k] \in Days
  BY LinksAssumption
<1>2. s \in Own => first[s] \in Days
  BY DEF TypeOK
<1> QED BY <1>1, <1>2 DEF Start, Overlaps, Later

(* Whoever wins is a candidate. *)
LEMMA WinnerIsCandidate ==
  ASSUME NEW s, NEW k \in Winner(s)
  PROVE  k \in known /\ <<s, k>> \notin rejected
<1>1. k \in Passing(s)
  BY DEF Winner, Same
<1>2. k \in Candidates(s)
  BY <1>1 DEF Passing, Graded, Same
<1> QED BY <1>2 DEF Candidates

(* What the engine decides: a key nobody rejected for the security, or a reason. *)
LEMMA Evaluated ==
  ASSUME TypeOK, NEW S
  PROVE  /\ DOMAIN Evaluate(S) \subseteq Own
         /\ \A s \in DOMAIN Evaluate(S) :
              \/ Evaluate(S)[s].key = None /\ Evaluate(S)[s].why \in Reasons
              \/ Evaluate(S)[s].key \in Keys /\ <<s, Evaluate(S)[s].key>> \notin rejected
<1> DEFINE o == [s \in Scope(S) |-> Decided(s)]
           Fits(s, d) == \/ d.key = None /\ d.why \in Reasons
                         \/ d.key \in Keys /\ <<s, d.key>> \notin rejected
<1>1. DOMAIN Evaluate(S) = Scope(S) /\ Scope(S) \subseteq Own
  BY DEF Evaluate, SettleDoubleClaims, Scope, Live
<1>2. \A s : \A why \in Reasons : Fits(s, Not(why))
  BY DEF Not
<1>3. {"no_candidate", "price_disagrees", "several_agree", "duplicate_of_linked",
       "key_claimed_twice"} \subseteq Reasons
  BY DEF Reasons, Unmatched, Ambiguous
<1>4. ASSUME NEW s, NEW k \in Winner(s) PROVE Fits(s, Wins(k))
  BY <1>4, WinnerIsCandidate DEF TypeOK, Wins
<1> HIDE DEF Fits
<1>5. ASSUME NEW s PROVE Fits(s, Decided(s))
  <2>1. CASE Winner(s) = {}
    BY <2>1, <1>2, <1>3 DEF Decided
  <2>2. CASE Winner(s) # {}
    <3> DEFINE w == CHOOSE x \in Winner(s) : TRUE
    <3>1. w \in Winner(s)
      BY <2>2
    <3>2. Decided(s) = IF Taken(w) THEN Not("duplicate_of_linked") ELSE Wins(w)
      BY <2>2 DEF Decided
    <3> HIDE DEF w
    <3> QED BY <3>1, <3>2, <1>2, <1>3, <1>4
  <2> QED BY <2>1, <2>2
<1>6. ASSUME NEW s \in Scope(S) PROVE Fits(s, Evaluate(S)[s])
  <2>1. Evaluate(S)[s] \in {o[s], Not("duplicate_of_linked"), Not("key_claimed_twice")}
    BY DEF Evaluate, SettleDoubleClaims
  <2>2. o[s] = Decided(s)
    OBVIOUS
  <2> HIDE DEF o
  <2> QED BY <2>1, <2>2, <1>2, <1>3, <1>5
<1> QED BY <1>1, <1>6 DEF Fits

LEMMA WonAreLinks ==
  ASSUME TypeOK, RunType, run.kind = "link" PROVE WonLinks \subseteq Link
<1>1. ASSUME NEW s \in DOMAIN run.plan, run.plan[s].key # None
      PROVE  NewLink(s, run.plan[s].key, Start(s, run.plan[s].key), FALSE) \in Link
  <2>1. s \in Secs /\ run.plan[s].key \in Keys
    BY <1>1 DEF RunType, Idle, Secs
  <2>2. Start(s, run.plan[s].key) \in Days
    BY <2>1, StartDay
  <2> QED BY <2>1, <2>2 DEF NewLink, Link
<1> QED BY <1>1 DEF WonLinks

\* A closed link of a legal table ends on a day, for no link begins after it ends.
LEMMA ClosedAreLinks ==
  ASSUME NEW L, L \subseteq Link, NEW l, NEW d \in Int, d < Open, Legal(Closed(L, l, d))
  PROVE  Closed(L, l, d) \subseteq Link
<1> DEFINE shut(m) == IF m.key = l.key /\ m.from = l.from THEN [m EXCEPT !.to = d] ELSE m
<1>1. Closed(L, l, d) = {shut(m) : m \in L}
  BY DEF Closed
<1>2. ASSUME NEW m \in L, shut(m).from <= shut(m).to PROVE shut(m) \in Link
  <2>1. m \in Link
    OBVIOUS
  <2>2. CASE m.key = l.key /\ m.from = l.from
    <3>1. shut(m) = [m EXCEPT !.to = d] /\ m.from \in Days
      BY <2>1, <2>2 DEF Link
    <3>2. shut(m).from = m.from /\ shut(m).to = d
      BY <2>1, <3>1 DEF Link
    <3>3. d \in Days
      BY <1>2, <3>1, <3>2, LinksAssumption DEF Days, Open
    <3> HIDE DEF shut
    <3> QED BY <2>1, <3>1, <3>3 DEF Link
  <2>3. CASE ~(m.key = l.key /\ m.from = l.from)
    BY <2>1, <2>3
  <2> QED BY <2>2, <2>3
<1>3. \A m \in Closed(L, l, d) : m.from <= m.to
  BY DEF Legal
<1> HIDE DEF shut
<1> QED BY <1>1, <1>2, <1>3

\* What is left of the open links, and of the feeding ones, when one is closed.
LEMMA ClosedLinks ==
  ASSUME NEW L, L \subseteq Link, NEW l, NEW d \in Int, d < Open
  PROVE  /\ \A m \in Closed(L, l, d) : m.to = Open => m \in L
         /\ Legal(Closed(L, l, d)) => \A m \in L : m.feed => m \in Closed(L, l, d)
<1> DEFINE shut(m) == IF m.key = l.key /\ m.from = l.from THEN [m EXCEPT !.to = d] ELSE m
<1>1. Closed(L, l, d) = {shut(m) : m \in L}
  BY DEF Closed
<1>2. ASSUME NEW m \in L
      PROVE  shut(m) = m \/ (shut(m).to = d /\ shut(m).feed = m.feed)
  <2>1. m \in Link
    OBVIOUS
  <2>2. CASE m.key = l.key /\ m.from = l.from
    <3>1. shut(m) = [m EXCEPT !.to = d]
      BY <2>2
    <3> HIDE DEF shut
    <3> QED BY <2>1, <3>1 DEF Link
  <2>3. CASE ~(m.key = l.key /\ m.from = l.from)
    BY <2>3
  <2> QED BY <2>2, <2>3
<1> HIDE DEF shut
<1>3. d # Open
  BY DaysFacts
<1>4. ASSUME NEW m \in Closed(L, l, d), m.to = Open PROVE m \in L
  BY <1>1, <1>2, <1>3, <1>4
<1>5. ASSUME Legal(Closed(L, l, d)), NEW m \in L, m.feed PROVE m \in Closed(L, l, d)
  <2>1. shut(m) \in Closed(L, l, d)
    BY <1>1
  <2>2. shut(m).feed => shut(m).to = Open
    BY <1>5, <2>1 DEF Legal
  <2> QED BY <1>2, <1>3, <1>5, <2>1, <2>2
<1> QED BY <1>4, <1>5

LEMMA ReplacedLinks ==
  ASSUME TypeOK, ReviewType, review.kind = "accept"
  PROVE  /\ \A m \in Replaced : m.to = Open => m \in links
         /\ Legal(Replaced) => Replaced \subseteq Link /\ \A m \in links : m.feed => m \in Replaced
<1> DEFINE l == CHOOSE c \in review.close : TRUE
<1>1. review.from - 1 \in Int /\ review.from - 1 < Open
  BY LinksAssumption DEF ReviewType, Idle, Days, Open
<1>2. CASE review.close = {}
  BY <1>2 DEF Replaced, TypeOK
<1>3. CASE review.close # {}
  <2>1. Replaced = Closed(links, l, review.from - 1)
    BY <1>3 DEF Replaced
  <2> HIDE DEF l
  <2> QED BY <1>1, <2>1, ClosedAreLinks, ClosedLinks DEF TypeOK
<1> QED BY <1>2, <1>3

LEMMA EndedLinks ==
  ASSUME TypeOK, NEW l \in Link
  PROVE  /\ \A m \in Ended(links, l) : m.to = Open => m \in links
         /\ Legal(Ended(links, l)) =>
              Ended(links, l) \subseteq Link /\ \A m \in links : m.feed => m \in Ended(links, l)
<1>1. Later(today, l.from) \in Int /\ Later(today, l.from) < Open
  BY LinksAssumption DEF TypeOK, Link, Days, Open, Later
<1> QED BY <1>1, ClosedAreLinks, ClosedLinks DEF Ended, TypeOK

\* A table whose links are among those of a legal one, or were legal with others.
LEMMA PartOfLegal ==
  ASSUME NEW L, NEW M, M \subseteq L, Legal(L) PROVE Legal(M)
BY DEF Legal

\* Nothing but the engine, the scan and their end changes a run; nothing but a review a review.
LEMMA SameRun == RunType /\ run' = run => RunType'
BY DEF RunType, Idle, Reasons, Unmatched, Ambiguous, Secs

LEMMA SameReview == ReviewType /\ review' = review => ReviewType'
BY DEF ReviewType, Idle, Secs, Link, Days, Open

LEMMA IdleRun == run' = Idle => RunType'
BY DEF RunType, Idle

LEMMA IdleReview == review' = Idle => ReviewType'
BY DEF ReviewType, Idle

LEMMA InitTyped == Init => TypeInv
<1> SUFFICES ASSUME Init PROVE TypeInv
  OBVIOUS
<1>1. RunType /\ ReviewType
  BY DEF Init, RunType, ReviewType
<1>2. PICK w \in Starts : found = w.found /\ trades = w.trades
  BY DEF Init
<1>3. /\ w.found \in [Own \X Keys -> {Grades[i] : i \in 1..4}]
      /\ w.trades \in [Keys -> Own \cup {None}]
  BY LinksAssumption
<1>4. found \in [Own \X Keys -> {Grades[i] : i \in 1..4}] /\ trades \in [Keys -> Secs \cup {None}]
  BY <1>2, <1>3 DEF Secs
<1>5. today \in Days /\ first \in [Own -> Days] /\ rows \subseteq Secs /\ ops \in 0..MaxOps
  BY LinksAssumption DEF Init, Days, Secs
<1>6. /\ known \subseteq Keys /\ links \subseteq Link /\ rejected \subseteq Secs \X Keys
      /\ flags \subseteq Secs \X Reasons
      /\ overlaps \subseteq Secs \X Keys /\ waived \subseteq Secs \X Keys
      /\ scanned \in BOOLEAN
      /\ run.kind \in {"none", "link", "scan"} /\ review.kind \in {"none", "accept", "reject"}
      /\ calm \in {"changed", "reading", "settled"}
      /\ crossed \subseteq Secs \X Keys /\ late \subseteq Secs \X Keys
  BY DEF Init, Idle
<1> QED BY <1>1, <1>4, <1>5, <1>6 DEF TypeInv, TypeOK

\* An overlap found while nobody scans is of a security and a key.
LEMMA LateTyped ==
  ASSUME late \subseteq Secs \X Keys, known' \subseteq Keys, Arises
  PROVE  late' \subseteq Secs \X Keys
BY DEF Arises, Overlapping, Live, Secs

LEMMA EngineTyped ==
  ASSUME TypeInv, Engine PROVE TypeInv'
<1>1. ASSUME NEW S, ReadLinks(S) PROVE TypeInv'
  <2>1. DOMAIN Evaluate(S) \subseteq Own
    BY Evaluated DEF TypeInv
  <2>2. \A s \in DOMAIN Evaluate(S) :
          \/ Evaluate(S)[s].key = None /\ Evaluate(S)[s].why \in Reasons
          \/ Evaluate(S)[s].key \in Keys /\ <<s, Evaluate(S)[s].key>> \notin rejected
    BY Evaluated DEF TypeInv
  <2>3. run'.kind = "link" /\ run'.plan = Evaluate(S)
    BY <1>1 DEF ReadLinks
  <2>4. None \notin Keys
    BY LinksAssumption
  <2>5. RunType'
    BY <2>1, <2>2, <2>3, <2>4 DEF RunType
  <2>6. TypeOK'
    BY <1>1, <2>3 DEF ReadLinks, TypeInv, TypeOK, world, queues
  <2> QED BY <1>1, <2>5, <2>6, SameReview DEF ReadLinks, TypeInv
<1>2. ASSUME WriteLinks PROVE TypeInv'
  <2>1. WonLinks \subseteq Link
    BY <1>2, WonAreLinks DEF WriteLinks, TypeInv
  <2>2. Flagged \subseteq Secs \X Reasons
    BY <1>2 DEF WriteLinks, Flagged, TypeInv, TypeOK, RunType, Idle, Secs
  <2>3. run'.kind = "none"
    BY <1>2 DEF WriteLinks, Idle
  <2>4. TypeOK'
    BY <1>2, <2>1, <2>2, <2>3 DEF WriteLinks, TypeInv, TypeOK, world
  <2> QED BY <1>2, <2>4, IdleRun, SameReview DEF WriteLinks, TypeInv
<1>3. ASSUME ReadScan PROVE TypeInv'
  <2>1. run'.kind = "scan" /\ run'.pairs = Scanned /\ run'.seen = Overlapping
    BY <1>3 DEF ReadScan
  <2>2. Overlapping \subseteq Secs \X Keys
    BY DEF Overlapping, TypeInv, TypeOK, Live, Secs
  <2>3. RunType'
    BY <2>1, <2>2 DEF RunType, Scanned
  <2>4. TypeOK'
    BY <1>3, <2>1 DEF ReadScan, TypeInv, TypeOK, world, queues, hist
  <2> QED BY <1>3, <2>3, <2>4, SameReview DEF ReadScan, TypeInv
<1>4. ASSUME WriteScan PROVE TypeInv'
  <2>1. run.pairs \subseteq Secs \X Keys
    BY <1>4 DEF WriteScan, TypeInv, RunType, Idle
  <2>2. Overlapping \subseteq Secs \X Keys
    BY DEF Overlapping, TypeInv, TypeOK, Live, Secs
  <2>3. run'.kind = "none"
    BY <1>4 DEF WriteScan, Idle
  <2>4. TypeOK'
    BY <1>4, <2>1, <2>2, <2>3 DEF WriteScan, TypeInv, TypeOK, world
  <2> QED BY <1>4, <2>4, IdleRun, SameReview DEF WriteScan, TypeInv
<1>5. ASSUME Stop PROVE TypeInv'
  <2>1. run'.kind = "none"
    BY <1>5 DEF Stop, Idle
  <2>2. TypeOK'
    BY <1>5, <2>1 DEF Stop, TypeInv, TypeOK, world, queues
  <2> QED BY <1>5, <2>2, IdleRun, SameReview DEF Stop, TypeInv
<1> QED BY <1>1, <1>2, <1>3, <1>4, <1>5 DEF Engine, VendorLink, VendorOverlap

LEMMA WorldTyped ==
  ASSUME TypeInv,
         \/ Tomorrow
         \/ \E s \in Own, k \in Keys, i \in 1..4 : Compare(s, k, Grades[i])
         \/ \E K \in SUBSET Keys : LoadMaster(K)
  PROVE  TypeInv'
<1>1. ASSUME Tomorrow PROVE TypeInv'
  <2>1. TypeOK'
    BY <1>1, LinksAssumption DEF Tomorrow, TypeInv, TypeOK, queues, hist, Days
  <2> QED BY <1>1, <2>1, SameRun, SameReview DEF Tomorrow, TypeInv
<1>2. ASSUME NEW s \in Own, NEW k \in Keys, NEW i \in 1..4, Compare(s, k, Grades[i])
      PROVE  TypeInv'
  <2>1. found' \in [Own \X Keys -> {Grades[j] : j \in 1..4}]
    BY <1>2 DEF Compare, TypeInv, TypeOK
  <2>2. late' \subseteq Secs \X Keys
    BY <1>2, LateTyped DEF Compare, TypeInv, TypeOK
  <2>3. ops' \in 0..MaxOps
    BY <1>2, LinksAssumption DEF Compare, Operates, TypeInv, TypeOK
  <2>4. TypeOK'
    BY <1>2, <2>1, <2>2, <2>3 DEF Compare, TypeInv, TypeOK, queues
  <2> QED BY <1>2, <2>4, SameRun, SameReview DEF Compare, TypeInv
<1>3. ASSUME NEW K \in SUBSET Keys, LoadMaster(K) PROVE TypeInv'
  <2>1. TypeOK'
    BY <1>3 DEF LoadMaster, TypeInv, TypeOK, queues
  <2> QED BY <1>3, <2>1, SameRun, SameReview DEF LoadMaster, TypeInv
<1> QED BY <1>1, <1>2, <1>3

LEMMA MintTyped ==
  ASSUME TypeInv, NEW k \in Keys, NEW t \in BOOLEAN, Minted(k, t)
  PROVE  TypeInv'
<1>1. PICK i \in Ids \ rows :
        /\ links' = links \cup {NewLink(i, k, Born[k], TRUE)}
        /\ rows' = rows \cup {i}
        /\ trades' = IF t THEN [trades EXCEPT ![k] = i] ELSE trades
  BY DEF Minted
<1>2. NewLink(i, k, Born[k], TRUE) \in Link /\ i \in Secs
  BY LinksAssumption DEF NewLink, Link, Secs
<1>3. trades' \in [Keys -> Secs \cup {None}]
  BY <1>1, <1>2 DEF TypeInv, TypeOK
<1>4. ops' \in 0..MaxOps
  BY LinksAssumption DEF Minted, Operates, TypeInv, TypeOK
<1>5. TypeOK'
  BY <1>1, <1>2, <1>3, <1>4 DEF Minted, TypeInv, TypeOK, queues
<1> QED BY <1>5, SameRun, SameReview DEF Minted, TypeInv

LEMMA ReviewTyped ==
  ASSUME TypeInv,
         \/ \E s \in Secs, k \in Keys, d \in Days : PlanAccept(s, k, d)
         \/ ApplyAccept
         \/ \E s \in Secs, k \in Keys : PlanReject(s, k)
         \/ ApplyReject
         \/ DropReview
  PROVE  TypeInv'
<1>1. ASSUME NEW s \in Secs, NEW k \in Keys, NEW d \in Days, PlanAccept(s, k, d) PROVE TypeInv'
  <2>1. /\ review'.kind = "accept" /\ review'.sec = s /\ review'.key = k /\ review'.from = d
        /\ review'.noop \in BOOLEAN /\ review'.unrejects \in BOOLEAN
        /\ review'.close \subseteq OpenLinks
    BY <1>1 DEF PlanAccept
  <2>2. OpenLinks \subseteq Link
    BY DEF OpenLinks, TypeInv, TypeOK
  <2>3. ops' \in 0..MaxOps
    BY <1>1, LinksAssumption DEF PlanAccept, Operates, TypeInv, TypeOK
  <2>4. TypeOK'
    BY <1>1, <2>1, <2>3 DEF PlanAccept, TypeInv, TypeOK, world, queues, hist
  <2>5. ReviewType'
    BY <2>1, <2>2 DEF ReviewType
  <2> QED BY <1>1, <2>4, <2>5, SameRun DEF PlanAccept, TypeInv
<1>2. ASSUME ApplyAccept PROVE TypeInv'
  <2>1. review.sec \in Secs /\ review.key \in Keys /\ review.from \in Days
    BY <1>2 DEF ApplyAccept, TypeInv, ReviewType, Idle
  <2>2. NewLink(review.sec, review.key, review.from, FALSE) \in Link
    BY <2>1 DEF NewLink, Link
  <2>5. links' \subseteq Link
    <3>1. CASE review.noop
      BY <1>2, <3>1 DEF ApplyAccept, TypeInv, TypeOK
    <3>2. CASE ~review.noop
      <4> DEFINE new == {NewLink(review.sec, review.key, review.from, FALSE)}
      <4>1. Addable(Replaced, new) /\ links' = Replaced \cup new
        BY <1>2, <3>2 DEF ApplyAccept
      <4>2. Legal(Replaced)
        BY <4>1, PartOfLegal DEF Addable
      <4>3. Replaced \subseteq Link
        BY <1>2, <4>2, ReplacedLinks DEF ApplyAccept, TypeInv
      <4> QED BY <2>2, <4>1, <4>3
    <3> QED BY <3>1, <3>2
  <2>6. late' \subseteq Secs \X Keys
    BY <1>2, LateTyped DEF ApplyAccept, TypeInv, TypeOK, world
  <2>7. review'.kind = "none"
    BY <1>2 DEF ApplyAccept, Idle
  <2>8. rejected' \subseteq rejected /\ flags' \subseteq flags
    BY <1>2 DEF ApplyAccept
  <2>9. TypeOK'
    BY <1>2, <2>5, <2>6, <2>7, <2>8 DEF ApplyAccept, TypeInv, TypeOK, world
  <2> QED BY <1>2, <2>9, SameRun, IdleReview DEF ApplyAccept, TypeInv
<1>3. ASSUME NEW s \in Secs, NEW k \in Keys, PlanReject(s, k) PROVE TypeInv'
  <2>1. /\ review'.kind = "reject" /\ review'.sec = s /\ review'.key = k
        /\ review'.close = Of(s, k)
    BY <1>3 DEF PlanReject
  <2>2. Of(s, k) \subseteq Link
    BY DEF Of, OpenLinks, TypeInv, TypeOK
  <2>3. ops' \in 0..MaxOps
    BY <1>3, LinksAssumption DEF PlanReject, Operates, TypeInv, TypeOK
  <2>4. TypeOK'
    BY <1>3, <2>1, <2>3 DEF PlanReject, TypeInv, TypeOK, world, queues, hist
  <2>5. ReviewType'
    BY <2>1, <2>2 DEF ReviewType
  <2> QED BY <1>3, <2>4, <2>5, SameRun DEF PlanReject, TypeInv
<1>4. ASSUME ApplyReject PROVE TypeInv'
  <2>1. review.sec \in Secs /\ review.key \in Keys /\ review.close \subseteq Link
    BY <1>4 DEF ApplyReject, TypeInv, ReviewType, Idle
  <2>2. links' \subseteq Link
    <3>1. CASE review.close = {}
      BY <1>4, <3>1 DEF ApplyReject, TypeInv, TypeOK
    <3>2. CASE review.close # {}
      <4> DEFINE l == CHOOSE c \in review.close : TRUE
      <4>1. l \in Link
        BY <2>1, <3>2
      <4>2. links' = Ended(links, l) /\ Legal(links')
        BY <1>4, <3>2 DEF ApplyReject
      <4> HIDE DEF l
      <4> QED BY <4>1, <4>2, EndedLinks DEF TypeInv
    <3> QED BY <3>1, <3>2
  <2>3. late' \subseteq Secs \X Keys
    BY <1>4, LateTyped DEF ApplyReject, TypeInv, TypeOK, world
  <2>4. rejected' \subseteq Secs \X Keys /\ crossed' \subseteq Secs \X Keys
    BY <1>4, <2>1 DEF ApplyReject, TypeInv, TypeOK
  <2>5. review'.kind = "none"
    BY <1>4 DEF ApplyReject, Idle
  <2>6. TypeOK'
    BY <1>4, <2>2, <2>3, <2>4, <2>5 DEF ApplyReject, TypeInv, TypeOK, world, queues
  <2> QED BY <1>4, <2>6, SameRun, IdleReview DEF ApplyReject, TypeInv
<1>5. ASSUME DropReview PROVE TypeInv'
  <2>1. review'.kind = "none"
    BY <1>5 DEF DropReview, Idle
  <2>2. TypeOK'
    BY <1>5, <2>1 DEF DropReview, TypeInv, TypeOK, world, queues, hist
  <2> QED BY <1>5, <2>2, SameRun, IdleReview DEF DropReview, TypeInv
<1> QED BY <1>1, <1>2, <1>3, <1>4, <1>5

\* What a merge makes of a set of flags keeps their reasons, on the survivor's row.
LEMMA RepointedFlags ==
  ASSUME NEW R, NEW F, F \subseteq Secs \X R, NEW v \in Secs, NEW s \in Secs
  PROVE  /\ Repointed(F, v, s) \subseteq Secs \X R
         /\ \A f \in F : f[1] # v => f \in Repointed(F, v, s)
BY DEF Repointed

LEMMA MergeTyped ==
  ASSUME TypeInv, NEW v \in Secs, NEW s \in Secs, Merge(v, s) PROVE TypeInv'
<1>1. links' \subseteq Link
  <2>1. ASSUME NEW l \in Link PROVE [l EXCEPT !.sec = s] \in Link
    BY DEF Link
  <2> QED BY <2>1 DEF Merge, TypeInv, TypeOK
<1>2. flags' \subseteq Secs \X Reasons
  <2>1. flags \ Redundant(v, s) \subseteq Secs \X Reasons
    BY DEF TypeInv, TypeOK
  <2> QED BY <2>1, RepointedFlags DEF Merge
<1>3. overlaps' \subseteq Secs \X Keys /\ waived' \subseteq Secs \X Keys
  BY RepointedFlags DEF Merge, TypeInv, TypeOK
<1>4. found' \in [Own \X Keys -> {Grades[i] : i \in 1..4}]
  <2>1. ASSUME NEW p \in Own \X Keys
        PROVE  /\ found[p] \in {Grades[i] : i \in 1..4}
               /\ v \in Own => Better(found[p], found[<<v, p[2]>>]) \in {Grades[i] : i \in 1..4}
    BY DEF TypeInv, TypeOK, Better
  <2> QED BY <2>1 DEF Merge
<1>5. first' \in [Own -> Days]
  <2>1. v \in Own => first[v] \in Days
    BY DEF TypeInv, TypeOK
  <2> QED BY <2>1 DEF Merge, TypeInv, TypeOK
<1>6. trades' \in [Keys -> Secs \cup {None}]
  BY DEF Merge, TypeInv, TypeOK
<1>7. crossed' \subseteq Secs \X Keys
  BY DEF Merge, TypeInv, TypeOK, OpenLinks, Link
<1>8. late' \subseteq Secs \X Keys
  BY LateTyped DEF Merge, TypeInv, TypeOK
<1>9. ops' \in 0..MaxOps
  BY LinksAssumption DEF Merge, Operates, TypeInv, TypeOK
<1>10. TypeOK'
  <2>1. rows' \subseteq Secs /\ rejected' \subseteq Secs \X Keys /\ calm' = "changed"
    BY DEF Merge, TypeInv, TypeOK
  <2>2. UNCHANGED <<today, known, scanned, run, review>>
    BY DEF Merge
  <2> QED BY <1>1, <1>2, <1>3, <1>4, <1>5, <1>6, <1>7, <1>8, <1>9, <2>1, <2>2
          DEF TypeInv, TypeOK
<1> QED BY <1>10, SameRun, SameReview DEF Merge, TypeInv

LEMMA FeedTyped ==
  ASSUME TypeInv,
         \/ \E p \in Secs \X Keys, accepted \in BOOLEAN : CloseOverlap(p, accepted)
         \/ \E s \in Secs : FeedFrom(s)
         \/ \E s \in Secs : FeedBack(s)
  PROVE  TypeInv'
<1>1. ASSUME NEW p \in Secs \X Keys, NEW accepted \in BOOLEAN, CloseOverlap(p, accepted)
      PROVE  TypeInv'
  <2>1. ops' \in 0..MaxOps
    BY <1>1, LinksAssumption DEF CloseOverlap, Operates, TypeInv, TypeOK
  <2>2. TypeOK'
    BY <1>1, <2>1 DEF CloseOverlap, TypeInv, TypeOK, world
  <2> QED BY <1>1, <2>2, SameRun, SameReview DEF CloseOverlap, TypeInv
<1>2. ASSUME NEW s \in Secs, FeedFrom(s) \/ FeedBack(s) PROVE TypeInv'
  <2>1. ops' \in 0..MaxOps
    <3>1. Operates
      BY <1>2 DEF FeedFrom, FeedBack
    <3> QED BY <3>1, LinksAssumption DEF Operates, TypeInv, TypeOK
  <2>2. ASSUME NEW l \in Link, NEW on \in BOOLEAN PROVE [l EXCEPT !.feed = on] \in Link
    BY DEF Link
  <2>3. PICK l \in OpenLinks, on \in BOOLEAN : links' = WithFeed(l, on)
    BY <1>2 DEF FeedFrom, FeedBack
  <2>4. links' \subseteq Link
    BY <2>2, <2>3 DEF WithFeed, OpenLinks, TypeInv, TypeOK
  <2>5. UNCHANGED <<world, rows, rejected, queues, scanned, run, review, hist>>
    BY <1>2 DEF FeedFrom, FeedBack
  <2>6. TypeOK'
    BY <2>1, <2>4, <2>5 DEF TypeInv, TypeOK, world, queues, hist
  <2> QED BY <2>5, <2>6, SameRun, SameReview DEF TypeInv
<1> QED BY <1>1, <1>2

LEMMA MintsAreMinted ==
  ASSUME Mints
  PROVE  \E k \in Keys, t \in BOOLEAN :
           Minted(k, t) /\ k \in known /\ ~Taken(k)
BY DEF Mints, MintDelisted, MintAllowed, MintListing, Mintable, VendorMintDelisted

LEMMA StepTyped == TypeInv /\ [Next]_vars => TypeInv'
<1> SUFFICES ASSUME TypeInv, [Next]_vars PROVE TypeInv'
  OBVIOUS
<1>1. CASE Engine
  BY <1>1, EngineTyped
<1>2. CASE Mints
  BY <1>2, MintsAreMinted, MintTyped
<1>3. CASE Person
  BY <1>3, ReviewTyped, FeedTyped, MergeTyped DEF Person, VendorLinkAccept, VendorLinkReject, VendorFeed
<1>4. CASE UNCHANGED vars
  <2>1. TypeOK'
    BY <1>4 DEF TypeInv, TypeOK, vars, world, queues, hist
  <2> QED BY <1>4, <2>1, SameRun, SameReview DEF TypeInv, vars
<1> QED BY <1>1, <1>2, <1>3, <1>4, WorldTyped DEF Next

THEOREM TypeCorrect == Spec => []TypeOK
<1>1. Init => TypeInv
  BY InitTyped
<1>2. TypeInv /\ [Next]_vars => TypeInv'
  BY StepTyped
<1>3. TypeInv => TypeOK
  BY DEF TypeInv
<1> QED BY <1>1, <1>2, <1>3, PTL DEF Spec

-----------------------------------------------------------------------------
(* The table *)

\* What a step may do to the links and the rows.
Won == run.kind = "link" /\ Addable(links, WonLinks) /\ links' = links \cup WonLinks

Accepted ==
  LET new == {NewLink(review.sec, review.key, review.from, FALSE)}
  IN review.kind = "accept" /\ Addable(Replaced, new) /\ links' = Replaced \cup new

Rejected == \E l \in Link : links' = Ended(links, l) /\ Legal(links')

Fed ==
  \E l \in OpenLinks, on \in BOOLEAN :
    (on \/ l.sec \in Own) /\ l.feed = ~on /\ links' = WithFeed(l, on)

New ==
  \E k \in Keys, i \in Ids \ rows :
    /\ {l \in links : l.sec = i} = {} /\ ~Taken(k)
    /\ rows' = rows \cup {i}
    /\ links' = links \cup {NewLink(i, k, Born[k], TRUE)} /\ Legal(links')

LinksStep ==
  \/ rows' = rows /\ links' = links
  \/ rows' = rows /\ (Won \/ Accepted \/ Rejected \/ Fed)
  \/ New
  \/ \E v, s \in Secs : Merge(v, s)

LEMMA HowLinksChange ==
  ASSUME TypeInv, [Next]_vars
  PROVE  LinksStep
<1>1. CASE Engine
  BY <1>1 DEF Engine, ReadLinks, WriteLinks, ReadScan, WriteScan, Stop, LinksStep, Won, VendorLink, VendorOverlap
<1>2. CASE Mints
  <2>1. PICK k \in Keys, t \in BOOLEAN : Minted(k, t) /\ ~Taken(k)
    BY <1>2, MintsAreMinted
  <2>2. New
    BY <2>1 DEF Minted, New
  <2> QED BY <2>2 DEF LinksStep
<1>3. CASE Person
  <2>1. ASSUME ApplyAccept PROVE LinksStep
    BY <2>1 DEF ApplyAccept, LinksStep, Accepted
  <2>2. ASSUME ApplyReject PROVE LinksStep
    <3>1. CASE review.close = {}
      BY <2>2, <3>1 DEF ApplyReject, LinksStep
    <3>2. CASE review.close # {}
      <4> DEFINE l == CHOOSE c \in review.close : TRUE
      <4>1. l \in Link
        BY <2>2, <3>2 DEF ApplyReject, TypeInv, ReviewType, Idle
      <4>2. links' = Ended(links, l) /\ Legal(links') /\ rows' = rows
        BY <2>2, <3>2 DEF ApplyReject
      <4> HIDE DEF l
      <4> QED BY <4>1, <4>2 DEF LinksStep, Rejected
    <3> QED BY <3>1, <3>2
  <2>3. ASSUME NEW s \in Secs, FeedFrom(s) PROVE LinksStep
    <3>1. PICK l \in OpenLinks : ~l.feed /\ links' = WithFeed(l, TRUE)
      BY <2>3 DEF FeedFrom
    <3>2. l.feed \in BOOLEAN
      BY DEF OpenLinks, TypeInv, TypeOK, Link
    <3>3. Fed
      BY <3>1, <3>2 DEF Fed
    <3> QED BY <2>3, <3>3 DEF FeedFrom, LinksStep
  <2>4. ASSUME NEW s \in Secs, FeedBack(s) PROVE LinksStep
    <3>1. PICK l \in OpenLinks : l.feed /\ l.sec \in Own /\ links' = WithFeed(l, FALSE)
      BY <2>4 DEF FeedBack, FedByOther
    <3>2. l.feed \in BOOLEAN
      BY DEF OpenLinks, TypeInv, TypeOK, Link
    <3>3. Fed
      BY <3>1, <3>2 DEF Fed
    <3> QED BY <2>4, <3>3 DEF FeedBack, LinksStep
  <2>5. ASSUME NEW v \in Secs, NEW s \in Secs, Merge(v, s) PROVE LinksStep
    BY <2>5 DEF LinksStep
  <2>6. ASSUME \/ \E s \in Secs, k \in Keys, d \in Days : PlanAccept(s, k, d)
               \/ \E s \in Secs, k \in Keys : PlanReject(s, k)
               \/ DropReview
               \/ \E p \in Secs \X Keys, accepted \in BOOLEAN : CloseOverlap(p, accepted)
        PROVE  LinksStep
    BY <2>6 DEF PlanAccept, PlanReject, DropReview, CloseOverlap, LinksStep
  <2> QED BY <1>3, <2>1, <2>2, <2>3, <2>4, <2>5, <2>6 DEF Person, VendorLinkAccept, VendorLinkReject, VendorFeed
<1>4. CASE UNCHANGED vars
  BY <1>4 DEF vars, LinksStep
<1>5. CASE \/ Tomorrow
           \/ \E s \in Own, k \in Keys, i \in 1..4 : Compare(s, k, Grades[i])
           \/ \E K \in SUBSET Keys : LoadMaster(K)
  BY <1>5 DEF Tomorrow, Compare, LoadMaster, LinksStep
<1> QED BY <1>1, <1>2, <1>3, <1>4, <1>5 DEF Next

\* The feed of a link is all that changes of it.
LEMMA FedLinks ==
  ASSUME TypeOK, NEW l \in OpenLinks, NEW on \in BOOLEAN
  PROVE  \A m \in WithFeed(l, on) :
           m \in links \ {l} \/ /\ m.sec = l.sec /\ m.key = l.key /\ m.from = l.from
                                /\ m.to = Open /\ m.feed = on
<1>1. l \in Link /\ l.to = Open /\ l \in links
  BY DEF OpenLinks, TypeOK
<1>2. [l EXCEPT !.feed = on] = [sec |-> l.sec, key |-> l.key, from |-> l.from, to |-> l.to, feed |-> on]
  BY <1>1 DEF Link
<1> QED BY <1>1, <1>2 DEF WithFeed

\* A merged row's links are the survivor's.
LEMMA MergedLinks ==
  ASSUME TypeOK, NEW v, NEW s, Merge(v, s)
  PROVE  /\ \A m \in links' :
              \E l \in links : /\ m.key = l.key /\ m.from = l.from /\ m.to = l.to
                               /\ m.feed = l.feed /\ m.sec = IF l.sec = v THEN s ELSE l.sec
         /\ \A l \in links : l.sec # v => l \in links'
         /\ ~(\E l, m \in OpenLinks : l.sec = v /\ m.sec = s)
<1>1. ASSUME NEW l \in links
      PROVE  LET m == [l EXCEPT !.sec = s]
             IN /\ m.key = l.key /\ m.from = l.from /\ m.to = l.to
                /\ m.feed = l.feed /\ m.sec = s
  BY DEF TypeOK, Link
<1>2. links' = {IF l.sec = v THEN [l EXCEPT !.sec = s] ELSE l : l \in links}
  BY DEF Merge
<1>3. ~Conflict(v, s)
  BY DEF Merge
<1> QED BY <1>1, <1>2, <1>3 DEF Conflict, Linked

\* The table's indexes and its check hold: what is written asks them, and what does not
\* ask cannot break them.
LEMMA StepLegal == TypeInv /\ Legal(links) /\ [Next]_vars => Legal(links')
<1> SUFFICES ASSUME TypeInv, Legal(links), [Next]_vars PROVE Legal(links')
  OBVIOUS
<1>1. LinksStep
  BY HowLinksChange
<1>2. CASE Fed
  <2>1. PICK l \in OpenLinks, on \in BOOLEAN : links' = WithFeed(l, on)
    BY <1>2 DEF Fed
  <2>2. l \in links /\ l.to = Open /\ l.from <= l.to
    BY DEF OpenLinks, Legal
  <2>3. \A m \in links' :
           m \in links \ {l} \/ /\ m.sec = l.sec /\ m.key = l.key /\ m.from = l.from
                                /\ m.to = Open /\ m.feed = on
    BY <2>1, FedLinks DEF TypeInv
  <2>4. \A m \in links' : m \notin links \ {l} => m = [l EXCEPT !.feed = on]
    BY <2>1 DEF WithFeed
  <2>5. \A m \in links' : m.from <= m.to /\ (m.feed => m.to = Open)
    BY <2>2, <2>3 DEF Legal
  <2>6. ASSUME NEW m \in links', NEW n \in links', m # n
        PROVE  /\ ~(m.key = n.key /\ m.from = n.from)
               /\ (m.to = Open /\ n.to = Open) => m.key # n.key /\ m.sec # n.sec
    <3>1. m \in links \ {l} \/ n \in links \ {l}
      BY <2>4, <2>6
    <3> QED BY <2>2, <2>3, <2>6, <3>1 DEF Legal
  <2> QED BY <2>5, <2>6 DEF Legal
<1>3. ASSUME NEW v \in Secs, NEW s \in Secs, Merge(v, s) PROVE Legal(links')
  <2>1. \A m \in links' :
          \E l \in links : /\ m = IF l.sec = v THEN [l EXCEPT !.sec = s] ELSE l
                           /\ m.key = l.key /\ m.from = l.from /\ m.to = l.to
                           /\ m.feed = l.feed /\ m.sec = IF l.sec = v THEN s ELSE l.sec
    <3>1. ASSUME NEW l \in links
          PROVE  LET m == IF l.sec = v THEN [l EXCEPT !.sec = s] ELSE l
                 IN /\ m.key = l.key /\ m.from = l.from /\ m.to = l.to
                    /\ m.feed = l.feed /\ m.sec = IF l.sec = v THEN s ELSE l.sec
      BY DEF TypeInv, TypeOK, Link
    <3>2. links' = {IF l.sec = v THEN [l EXCEPT !.sec = s] ELSE l : l \in links}
      BY <1>3 DEF Merge
    <3> QED BY <3>1, <3>2
  <2>2. ~(\E l, m \in OpenLinks : l.sec = v /\ m.sec = s)
    BY <1>3, MergedLinks DEF TypeInv
  <2>3. \A m \in links' : m.from <= m.to /\ (m.feed => m.to = Open)
    BY <2>1 DEF Legal
  <2>4. ASSUME NEW m \in links', NEW n \in links', m # n
        PROVE  /\ ~(m.key = n.key /\ m.from = n.from)
               /\ (m.to = Open /\ n.to = Open) => m.key # n.key /\ m.sec # n.sec
    <3>1. PICK l \in links :
            /\ m = IF l.sec = v THEN [l EXCEPT !.sec = s] ELSE l
            /\ m.key = l.key /\ m.from = l.from /\ m.to = l.to
            /\ m.sec = IF l.sec = v THEN s ELSE l.sec
      BY <2>1
    <3>2. PICK k \in links :
            /\ n = IF k.sec = v THEN [k EXCEPT !.sec = s] ELSE k
            /\ n.key = k.key /\ n.from = k.from /\ n.to = k.to
            /\ n.sec = IF k.sec = v THEN s ELSE k.sec
      BY <2>1
    <3>3. l # k
      BY <2>4, <3>1, <3>2
    <3>4. /\ ~(l.key = k.key /\ l.from = k.from)
          /\ (l.to = Open /\ k.to = Open) => l.key # k.key /\ l.sec # k.sec
      BY <3>3 DEF Legal
    <3>5. l.to = Open /\ k.to = Open => ~(l.sec = v /\ k.sec = s) /\ ~(l.sec = s /\ k.sec = v)
      BY <2>2 DEF OpenLinks
    <3>6. ~(m.key = n.key /\ m.from = n.from)
      BY <3>1, <3>2, <3>4
    <3>7. (m.to = Open /\ n.to = Open) => m.key # n.key /\ m.sec # n.sec
      BY <3>1, <3>2, <3>4, <3>5
    <3> QED BY <3>6, <3>7
  <2> QED BY <2>3, <2>4 DEF Legal
<1> QED BY <1>1, <1>2, <1>3 DEF LinksStep, Won, Accepted, Rejected, New, Addable

\* No two securities hold a key at once and none holds two, no key is given twice from
\* one day, and only an open link feeds: the indexes and the check of
\* core.security_vendor_xref, under the engine, the reviews, the mints and the merges.
THEOREM TableStaysLegal == Spec => []Legal(links)
<1>1. Init => TypeInv /\ Legal(links)
  BY InitTyped DEF Init, Legal
<1>2. (TypeInv /\ Legal(links)) /\ [Next]_vars => (TypeInv /\ Legal(links))'
  BY StepTyped, StepLegal
<1> QED BY <1>1, <1>2, PTL DEF Spec

-----------------------------------------------------------------------------
(* The feed *)

\* Closing a link that feeds would break the table's check, the rollback is for FMP's
\* own securities, and a merge takes the links and the row together.
LEMMA StepFed == TypeInv /\ MintedAreFed /\ [Next]_vars => MintedAreFed'
<1> SUFFICES ASSUME TypeInv, MintedAreFed, [Next]_vars,
                    NEW i \in rows' \cap Ids
             PROVE  \E m \in links' : m.to = Open /\ m.sec = i /\ m.feed
  BY DEF MintedAreFed, OpenLinks
<1>1. i \in rows => \E m \in links : m.to = Open /\ m.sec = i /\ m.feed /\ m \in Link
  BY DEF MintedAreFed, OpenLinks, TypeInv, TypeOK
<1>2. CASE rows' = rows /\ links' = links
  BY <1>1, <1>2
<1>3. CASE rows' = rows /\ Won
  BY <1>1, <1>3 DEF Won
<1>4. CASE rows' = rows /\ Accepted
  <2>1. Legal(Replaced) /\ Replaced \subseteq links'
    BY <1>4, PartOfLegal DEF Accepted, Addable
  <2>2. \A m \in links : m.feed => m \in Replaced
    BY <1>4, <2>1, ReplacedLinks DEF Accepted, TypeInv
  <2> QED BY <1>1, <1>4, <2>1, <2>2
<1>5. CASE rows' = rows /\ Rejected
  BY <1>1, <1>5, EndedLinks DEF Rejected, TypeInv
<1>6. CASE rows' = rows /\ Fed
  <2>1. PICK l \in OpenLinks, on \in BOOLEAN :
          (on \/ l.sec \in Own) /\ l.feed = ~on /\ links' = WithFeed(l, on)
    BY <1>6 DEF Fed
  <2>2. PICK m \in links : m.to = Open /\ m.sec = i /\ m.feed
    BY <1>1, <1>6
  <2>3. m # l
    BY <2>1, <2>2, LinksAssumption
  <2> QED BY <2>1, <2>2, <2>3 DEF WithFeed
<1>7. CASE New
  <2>1. PICK k \in Keys, n \in Ids \ rows :
          /\ rows' = rows \cup {n} /\ links' = links \cup {NewLink(n, k, Born[k], TRUE)}
    BY <1>7 DEF New
  <2>2. NewLink(n, k, Born[k], TRUE).sec = n /\ NewLink(n, k, Born[k], TRUE).to = Open
        /\ NewLink(n, k, Born[k], TRUE).feed
    BY DEF NewLink
  <2> QED BY <1>1, <2>1, <2>2
<1>8. ASSUME NEW v \in Secs, NEW s \in Secs, Merge(v, s)
      PROVE  \E m \in links' : m.to = Open /\ m.sec = i /\ m.feed
  <2>1. i \in rows /\ i # v
    BY <1>8 DEF Merge
  <2> QED BY <1>1, <1>8, <2>1, MergedLinks DEF TypeInv
<1> QED BY <1>2, <1>3, <1>4, <1>5, <1>6, <1>7, <1>8, HowLinksChange DEF LinksStep

\* A security minted from the vendor keeps its open feeding link for good.
THEOREM MintedStayFed == Spec => []MintedAreFed
<1>1. Init => TypeInv /\ MintedAreFed
  <2>1. ASSUME Init PROVE MintedAreFed
    BY <2>1, LinksAssumption DEF Init, MintedAreFed
  <2> QED BY <2>1, InitTyped
<1>2. (TypeInv /\ MintedAreFed) /\ [Next]_vars => (TypeInv /\ MintedAreFed)'
  BY StepTyped, StepFed
<1> QED BY <1>1, <1>2, PTL DEF Spec

-----------------------------------------------------------------------------
(* Rejections *)

\* What was planned before a rejection, or would undo one, is known to.
RejectedInRows == \A p \in rejected : p[1] \in rows

PlanCrossed ==
  run.kind = "link" =>
    \A s \in DOMAIN run.plan :
      <<s, run.plan[s].key>> \in rejected => <<s, run.plan[s].key>> \in crossed

AcceptUnrejects ==
  review.kind = "accept" /\ <<review.sec, review.key>> \in rejected => review.unrejects

RejectInv == RejectedInRows /\ PlanCrossed /\ AcceptUnrejects /\ RejectedStaysOut

\* Most steps: nothing is rejected anew, no plan is made and no link opened.
LEMMA QuietStep ==
  ASSUME RejectInv, rows \subseteq rows', rejected' = rejected, crossed' = crossed,
         run' = run \/ run'.kind # "link", review' = review \/ review'.kind # "accept",
         \A m \in links' : m.to = Open =>
           \E l \in links : l.to = Open /\ l.sec = m.sec /\ l.key = m.key
  PROVE  RejectInv'
<1>1. RejectedInRows'
  BY DEF RejectInv, RejectedInRows
<1>2. PlanCrossed'
  BY DEF RejectInv, PlanCrossed
<1>3. AcceptUnrejects'
  BY DEF RejectInv, AcceptUnrejects
<1>4. RejectedStaysOut'
  BY DEF RejectInv, RejectedStaysOut, OpenLinks
<1> QED BY <1>1, <1>2, <1>3, <1>4 DEF RejectInv

LEMMA StepRejects == TypeInv /\ RejectInv /\ [Next]_vars => RejectInv'
<1> SUFFICES ASSUME TypeInv, RejectInv, [Next]_vars PROVE RejectInv'
  OBVIOUS
<1>1. ASSUME NEW S, ReadLinks(S) PROVE RejectInv'
  <2>1. \A s \in DOMAIN Evaluate(S) :
          <<s, Evaluate(S)[s].key>> \notin rejected
    <3>1. \A s \in DOMAIN Evaluate(S) :
            \/ Evaluate(S)[s].key = None /\ Evaluate(S)[s].why \in Reasons
            \/ Evaluate(S)[s].key \in Keys /\ <<s, Evaluate(S)[s].key>> \notin rejected
      BY Evaluated DEF TypeInv
    <3>2. None \notin Keys /\ rejected \subseteq Secs \X Keys
      BY LinksAssumption DEF TypeInv, TypeOK
    <3> QED BY <3>1, <3>2
  <2>2. run'.kind = "link" /\ run'.plan = Evaluate(S)
    BY <1>1 DEF ReadLinks
  <2>3. PlanCrossed'
    BY <1>1, <2>1, <2>2 DEF PlanCrossed, ReadLinks
  <2>4. RejectedInRows' /\ AcceptUnrejects' /\ RejectedStaysOut'
    BY <1>1 DEF ReadLinks, RejectInv, RejectedInRows, AcceptUnrejects, RejectedStaysOut, OpenLinks
  <2> QED BY <2>3, <2>4 DEF RejectInv
<1>2. ASSUME WriteLinks PROVE RejectInv'
  <2>1. ASSUME NEW m \in WonLinks, <<m.sec, m.key>> \in rejected
        PROVE  <<m.sec, m.key>> \in crossed
    <3>1. PICK s \in DOMAIN run.plan : m = NewLink(s, run.plan[s].key, Start(s, run.plan[s].key), FALSE)
      BY DEF WonLinks
    <3>2. m.sec = s /\ m.key = run.plan[s].key
      BY <3>1 DEF NewLink
    <3> QED BY <1>2, <2>1, <3>2 DEF WriteLinks, RejectInv, PlanCrossed
  <2>2. RejectedStaysOut'
    BY <1>2, <2>1 DEF WriteLinks, RejectInv, RejectedStaysOut, OpenLinks
  <2>3. run'.kind # "link"
    BY <1>2 DEF WriteLinks, Idle
  <2>4. RejectedInRows' /\ PlanCrossed' /\ AcceptUnrejects'
    BY <1>2, <2>3 DEF WriteLinks, RejectInv, RejectedInRows, PlanCrossed, AcceptUnrejects
  <2> QED BY <2>2, <2>4 DEF RejectInv
<1>3. ASSUME Mints PROVE RejectInv'
  <2>1. PICK k \in Keys, t \in BOOLEAN : Minted(k, t)
    BY <1>3, MintsAreMinted
  <2>2. PICK i \in Ids \ rows :
          rows' = rows \cup {i} /\ links' = links \cup {NewLink(i, k, Born[k], TRUE)}
    BY <2>1 DEF Minted
  <2>3. NewLink(i, k, Born[k], TRUE).sec = i
    BY DEF NewLink
  <2>4. RejectedStaysOut'
    <3>1. ASSUME NEW m \in links', m.to = Open, <<m.sec, m.key>> \in rejected
          PROVE  <<m.sec, m.key>> \in crossed
      <4>1. m.sec \in rows
        BY <3>1 DEF RejectInv, RejectedInRows
      <4>2. m \in links
        BY <2>2, <2>3, <4>1
      <4> QED BY <3>1, <4>2 DEF RejectInv, RejectedStaysOut, OpenLinks
    <3>2. rejected' = rejected /\ crossed' = crossed
      BY <2>1 DEF Minted
    <3> QED BY <3>1, <3>2 DEF RejectedStaysOut, OpenLinks
  <2>5. UNCHANGED <<rejected, crossed, run, review>>
    BY <2>1 DEF Minted
  <2>6. RejectedInRows' /\ PlanCrossed' /\ AcceptUnrejects'
    BY <2>2, <2>5 DEF RejectInv, RejectedInRows, PlanCrossed, AcceptUnrejects
  <2> QED BY <2>4, <2>6 DEF RejectInv
<1>4. ASSUME NEW s \in Secs, NEW k \in Keys, NEW d \in Days, PlanAccept(s, k, d) PROVE RejectInv'
  <2>1. /\ review'.sec = s /\ review'.key = k /\ review'.unrejects = (<<s, k>> \in rejected)
    BY <1>4 DEF PlanAccept
  <2>2. AcceptUnrejects'
    BY <1>4, <2>1 DEF PlanAccept, AcceptUnrejects
  <2>3. RejectedInRows' /\ PlanCrossed' /\ RejectedStaysOut'
    BY <1>4 DEF PlanAccept, hist, RejectInv, RejectedInRows, PlanCrossed, RejectedStaysOut, OpenLinks
  <2> QED BY <2>2, <2>3 DEF RejectInv
<1>5. ASSUME ApplyAccept PROVE RejectInv'
  <2> DEFINE pair == <<review.sec, review.key>>
  <2>1. rejected' \subseteq rejected /\ (pair \in rejected => pair \notin rejected')
    BY <1>5 DEF ApplyAccept, RejectInv, AcceptUnrejects
  <2>2. \A m \in links' : m.to = Open => m \in links \/ <<m.sec, m.key>> = pair
    <3>1. CASE review.noop
      BY <1>5, <3>1 DEF ApplyAccept
    <3>2. CASE ~review.noop
      <4>1. links' = Replaced \cup {NewLink(review.sec, review.key, review.from, FALSE)}
        BY <1>5, <3>2 DEF ApplyAccept
      <4>2. \A m \in Replaced : m.to = Open => m \in links
        BY <1>5, ReplacedLinks DEF ApplyAccept, TypeInv
      <4> QED BY <4>1, <4>2 DEF NewLink
    <3> QED BY <3>1, <3>2
  <2>3. UNCHANGED <<rows, run, crossed>> /\ review' = Idle
    BY <1>5 DEF ApplyAccept
  <2>4. review'.kind # "accept"
    BY <2>3 DEF Idle
  <2> HIDE DEF pair
  <2>5. RejectedStaysOut'
    BY <2>1, <2>2, <2>3 DEF RejectInv, RejectedStaysOut, OpenLinks
  <2>6. RejectedInRows' /\ PlanCrossed' /\ AcceptUnrejects'
    BY <2>1, <2>3, <2>4 DEF RejectInv, RejectedInRows, PlanCrossed, AcceptUnrejects
  <2> QED BY <2>5, <2>6 DEF RejectInv
<1>6. ASSUME ApplyReject PROVE RejectInv'
  <2> DEFINE pair == <<review.sec, review.key>>
  <2>1. rejected' = rejected \cup {pair} /\ review.sec \in rows
    BY <1>6 DEF ApplyReject
  <2>2. /\ run.kind = "link" \/ (\E l \in links' : l.to = Open /\ <<l.sec, l.key>> = pair)
             => pair \in crossed'
        /\ crossed \subseteq crossed'
    BY <1>6 DEF ApplyReject
  <2>3. \A m \in links' : m.to = Open => m \in links
    <3>1. CASE review.close = {}
      BY <1>6, <3>1 DEF ApplyReject
    <3>2. CASE review.close # {}
      <4> DEFINE l == CHOOSE c \in review.close : TRUE
      <4>1. l \in Link /\ links' = Ended(links, l)
        BY <1>6, <3>2 DEF ApplyReject, TypeInv, ReviewType, Idle
      <4> HIDE DEF l
      <4> QED BY <4>1, EndedLinks DEF TypeInv
    <3> QED BY <3>1, <3>2
  <2>4. UNCHANGED <<rows, run>> /\ review' = Idle
    BY <1>6 DEF ApplyReject
  <2>5. review'.kind # "accept"
    BY <2>4 DEF Idle
  <2>6. RejectedInRows' /\ AcceptUnrejects'
    BY <2>1, <2>4, <2>5 DEF RejectInv, RejectedInRows, AcceptUnrejects
  <2> HIDE DEF pair
  <2>7. PlanCrossed'
    BY <2>1, <2>2, <2>4 DEF RejectInv, PlanCrossed
  <2>8. RejectedStaysOut'
    BY <2>1, <2>2, <2>3 DEF RejectInv, RejectedStaysOut, OpenLinks
  <2> QED BY <2>6, <2>7, <2>8 DEF RejectInv
<1>7. ASSUME NEW s \in Secs, FeedFrom(s) \/ FeedBack(s) PROVE RejectInv'
  <2>1. PICK l \in OpenLinks, on \in BOOLEAN : links' = WithFeed(l, on)
    BY <1>7 DEF FeedFrom, FeedBack
  <2>2. \A m \in links' : m.to = Open =>
          \E n \in links : n.to = Open /\ n.sec = m.sec /\ n.key = m.key
    BY <2>1, FedLinks DEF TypeInv, OpenLinks
  <2>3. UNCHANGED <<rows, rejected, crossed, run, review>>
    BY <1>7 DEF FeedFrom, FeedBack, hist
  <2> QED BY <2>2, <2>3, QuietStep
<1>8. ASSUME NEW v \in Secs, NEW s \in Secs, Merge(v, s) PROVE RejectInv'
  <2>1. /\ rows' = rows \ {v} /\ rejected' = {p \in rejected : p[1] # v}
        /\ crossed' = crossed \cup {<<s, l.key>> : l \in {m \in OpenLinks : m.sec = v}}
        /\ UNCHANGED <<run, review>>
    BY <1>8 DEF Merge
  <2>2. RejectedInRows' /\ PlanCrossed' /\ AcceptUnrejects'
    BY <2>1 DEF RejectInv, RejectedInRows, PlanCrossed, AcceptUnrejects
  <2>3. RejectedStaysOut'
    <3>1. ASSUME NEW m \in links', m.to = Open, <<m.sec, m.key>> \in rejected'
          PROVE  <<m.sec, m.key>> \in crossed'
      <4>1. PICK l \in links : /\ m.key = l.key /\ m.to = l.to
                               /\ m.sec = IF l.sec = v THEN s ELSE l.sec
        BY <1>8, MergedLinks DEF TypeInv
      <4>2. CASE l.sec = v
        BY <2>1, <3>1, <4>1, <4>2 DEF OpenLinks
      <4>3. CASE l.sec # v
        BY <2>1, <3>1, <4>1, <4>3 DEF RejectInv, RejectedStaysOut, OpenLinks
      <4> QED BY <4>2, <4>3
    <3> QED BY <3>1 DEF RejectedStaysOut, OpenLinks
  <2> QED BY <2>2, <2>3 DEF RejectInv
<1>9. ASSUME \/ Tomorrow
             \/ \E s \in Own, k \in Keys, i \in 1..4 : Compare(s, k, Grades[i])
             \/ \E K \in SUBSET Keys : LoadMaster(K)
             \/ ReadScan \/ WriteScan \/ Stop
             \/ \E s \in Secs, k \in Keys : PlanReject(s, k)
             \/ DropReview
             \/ \E p \in Secs \X Keys, accepted \in BOOLEAN : CloseOverlap(p, accepted)
             \/ UNCHANGED vars
      PROVE  RejectInv'
  <2>1. UNCHANGED <<rows, rejected, links, crossed>>
    BY <1>9 DEF Tomorrow, Compare, LoadMaster, ReadScan, WriteScan, Stop, PlanReject, DropReview,
                CloseOverlap, vars, hist
  <2>2. run' = run \/ run'.kind # "link"
    <3>1. ReadScan \/ WriteScan \/ Stop => run'.kind # "link"
      BY DEF ReadScan, WriteScan, Stop, Idle
    <3>2. ReadScan \/ WriteScan \/ Stop \/ run' = run
      BY <1>9 DEF Tomorrow, Compare, LoadMaster, PlanReject, DropReview, CloseOverlap, vars
    <3> QED BY <3>1, <3>2
  <2>3. review' = review \/ review'.kind # "accept"
    <3>1. ASSUME NEW s, NEW k, PlanReject(s, k) PROVE review'.kind # "accept"
      BY <3>1 DEF PlanReject
    <3>2. DropReview => review'.kind # "accept"
      BY DEF DropReview, Idle
    <3>3. DropReview \/ (\E s, k : PlanReject(s, k)) \/ review' = review
      BY <1>9 DEF Tomorrow, Compare, LoadMaster, ReadScan, WriteScan, Stop, CloseOverlap, vars
    <3> QED BY <3>1, <3>2, <3>3
  <2> QED BY <2>1, <2>2, <2>3, QuietStep
<1> QED BY <1>1, <1>2, <1>3, <1>4, <1>5, <1>6, <1>7, <1>8, <1>9 DEF Next, Engine, Person, VendorLink, VendorOverlap, VendorLinkAccept, VendorLinkReject, VendorFeed

\* A rejected pair holds no open link but for one brought across the rejection.
THEOREM RejectedStayOut == Spec => []RejectedStaysOut
<1>1. Init => TypeInv /\ RejectInv
  <2>1. Init => RejectInv
    BY DEF Init, RejectInv, RejectedInRows, PlanCrossed, AcceptUnrejects, RejectedStaysOut, Idle
  <2> QED BY <2>1, InitTyped
<1>2. (TypeInv /\ RejectInv) /\ [Next]_vars => (TypeInv /\ RejectInv)'
  BY StepTyped, StepRejects
<1>3. RejectInv => RejectedStaysOut
  BY DEF RejectInv
<1> QED BY <1>1, <1>2, <1>3, PTL DEF Spec

-----------------------------------------------------------------------------
(* Overlaps *)

\* What overlaps is flagged, let through by a person, or came up after the scan.
ScanInv == scanned => Overlapping \subseteq overlaps \cup late \cup waived

\* Steps that open no overlap, or say which they opened, and lose no flag.
LEMMA ScanKept ==
  ASSUME ScanInv, scanned' => scanned,
         overlaps \cup waived \subseteq overlaps' \cup late' \cup waived',
         late \subseteq late',
         Overlapping' \subseteq Overlapping \cup late'
  PROVE  ScanInv'
BY DEF ScanInv

LEMMA OverlappingShrinks ==
  ASSUME UNCHANGED <<known, found>>, Live' = Live,
         \A l \in OpenLinks : \E m \in OpenLinks' : m.key = l.key
  PROVE  Overlapping' \subseteq Overlapping
BY DEF Overlapping, Overlaps, Taken

LEMMA StepScanned == TypeInv /\ ScanInv /\ [Next]_vars => ScanInv'
<1> SUFFICES ASSUME TypeInv, ScanInv, [Next]_vars PROVE ScanInv'
  OBVIOUS
<1>1. ASSUME Arises, scanned' = scanned, UNCHANGED <<overlaps, waived>> PROVE ScanInv'
  BY <1>1, ScanKept DEF Arises
<1>2. ASSUME links \subseteq links', Live' = Live,
             UNCHANGED <<known, found, scanned, overlaps, waived, late>>
      PROVE  ScanInv'
  <2>1. \A l \in OpenLinks : l \in OpenLinks'
    BY <1>2 DEF OpenLinks
  <2>2. Overlapping' \subseteq Overlapping
    BY <1>2, <2>1, OverlappingShrinks
  <2> QED BY <1>2, <2>2, ScanKept
<1>3. ASSUME \/ Tomorrow
             \/ \E S \in {Own} \cup {{s} : s \in Own} : ReadLinks(S)
             \/ WriteLinks \/ ReadScan \/ Stop
             \/ \E s \in Secs, k \in Keys, d \in Days : PlanAccept(s, k, d)
             \/ \E s \in Secs, k \in Keys : PlanReject(s, k)
             \/ DropReview
             \/ UNCHANGED vars
      PROVE  ScanInv'
  <2>1. links \subseteq links' /\ rows' = rows
    BY <1>3 DEF Tomorrow, ReadLinks, WriteLinks, ReadScan, Stop, PlanAccept, PlanReject,
                DropReview, vars
  <2>2. UNCHANGED <<known, found, scanned, overlaps, waived, late>>
    BY <1>3 DEF Tomorrow, ReadLinks, WriteLinks, ReadScan, Stop, PlanAccept, PlanReject,
                DropReview, vars, world, queues, hist
  <2> QED BY <1>2, <2>1, <2>2 DEF Live
<1>4. ASSUME NEW s \in Own, NEW k \in Keys, NEW i \in 1..4, Compare(s, k, Grades[i])
      PROVE  ScanInv'
  BY <1>1, <1>4 DEF Compare, queues
<1>5. ASSUME NEW K \in SUBSET Keys, LoadMaster(K) PROVE ScanInv'
  BY <1>5 DEF LoadMaster, ScanInv
<1>6. ASSUME WriteScan PROVE ScanInv'
  <2>1. run.seen = run.pairs
    BY <1>6 DEF WriteScan, TypeInv, RunType, Idle
  <2>2. overlaps' = run.pairs \ waived /\ late' = Overlapping \ run.seen /\ waived' = waived
    BY <1>6 DEF WriteScan
  <2>3. UNCHANGED <<known, found, rows, links>>
    BY <1>6 DEF WriteScan, world
  <2>4. Overlapping' = Overlapping
    BY <2>3 DEF Overlapping, Live, Overlaps, Taken, OpenLinks
  <2> QED BY <2>1, <2>2, <2>4 DEF ScanInv
<1>7. ASSUME Mints PROVE ScanInv'
  <2>1. PICK k \in Keys, t \in BOOLEAN : Minted(k, t)
    BY <1>7, MintsAreMinted
  <2>2. links \subseteq links' /\ \E i \in Ids : rows' = rows \cup {i}
    BY <2>1 DEF Minted
  <2>3. Live' = Live
    BY <2>2, LinksAssumption DEF Live
  <2>4. UNCHANGED <<known, found, scanned, overlaps, waived, late>>
    BY <2>1 DEF Minted, queues
  <2> QED BY <1>2, <2>2, <2>3, <2>4
<1>8. ASSUME ApplyAccept \/ ApplyReject PROVE ScanInv'
  BY <1>1, <1>8 DEF ApplyAccept, ApplyReject, queues
<1>9. ASSUME NEW s \in Secs, FeedFrom(s) \/ FeedBack(s) PROVE ScanInv'
  <2>1. PICK l \in OpenLinks, on \in BOOLEAN : links' = WithFeed(l, on)
    BY <1>9 DEF FeedFrom, FeedBack
  <2>2. UNCHANGED <<rows, known, found, scanned, overlaps, waived, late>>
    BY <1>9 DEF FeedFrom, FeedBack, world, queues, hist
  <2>3. [l EXCEPT !.feed = on].key = l.key /\ [l EXCEPT !.feed = on].to = Open
    BY DEF OpenLinks, TypeInv, TypeOK, Link
  <2>4. \A n \in OpenLinks : \E m \in OpenLinks' : m.key = n.key
    BY <2>1, <2>3 DEF OpenLinks, WithFeed
  <2>5. Overlapping' \subseteq Overlapping
    BY <2>2, <2>4, OverlappingShrinks DEF Live
  <2> QED BY <2>2, <2>5, ScanKept
<1>10. ASSUME NEW p \in Secs \X Keys, NEW accepted \in BOOLEAN, CloseOverlap(p, accepted)
       PROVE  ScanInv'
  <2>1. overlaps' = overlaps \ {p} /\ late' = late \cup {p} /\ waived \subseteq waived'
    BY <1>10 DEF CloseOverlap
  <2>2. UNCHANGED <<known, found, rows, links, scanned>>
    BY <1>10 DEF CloseOverlap, world
  <2>3. Overlapping' = Overlapping
    BY <2>2 DEF Overlapping, Live, Overlaps, Taken, OpenLinks
  <2> QED BY <2>1, <2>2, <2>3, ScanKept
<1>11. ASSUME NEW v \in Secs, NEW s \in Secs, Merge(v, s) PROVE ScanInv'
  <2>1. \A p \in Overlapping' : p[1] # v
    BY <1>11 DEF Merge, Overlapping, Live
  <2>2. \A p \in overlaps : p[1] # v => p \in overlaps'
    BY <1>11, RepointedFlags DEF Merge, TypeInv, TypeOK
  <2>3. \A p \in waived : p[1] # v => p \in waived'
    BY <1>11, RepointedFlags DEF Merge, TypeInv, TypeOK
  <2>4. scanned' = scanned /\ late' = late \cup (Overlapping' \ Overlapping)
    BY <1>11 DEF Merge, Arises
  <2> QED BY <2>1, <2>2, <2>3, <2>4 DEF ScanInv
<1> QED BY <1>3, <1>4, <1>5, <1>6, <1>7, <1>8, <1>9, <1>10, <1>11 DEF Next, Engine, Person, VendorLink, VendorOverlap, VendorLinkAccept, VendorLinkReject, VendorFeed

\* No dead issuer is minted unasked onto history a security of FMP's holds, but for what
\* came up after the last scan had read, or a person let through.
THEOREM HistoryStaysOnOneRow == Spec => HistoryOnOneRow
<1> DEFINE Unasked ==
      \A k \in Keys : MintDelisted(k) => \A p \in Overlapping : p[2] = k => p \in late \cup waived
<1>1. Init => TypeInv /\ ScanInv
  <2>1. Init => ScanInv
    BY DEF Init, ScanInv
  <2> QED BY <2>1, InitTyped
<1>2. (TypeInv /\ ScanInv) /\ [Next]_vars => (TypeInv /\ ScanInv)'
  BY StepTyped, StepScanned
<1>3. TypeInv /\ ScanInv /\ [Next]_vars => [Unasked]_vars
  BY DEF ScanInv, MintDelisted, Mintable
<1> QED BY <1>1, <1>2, <1>3, PTL DEF Spec, HistoryOnOneRow
=============================================================================
