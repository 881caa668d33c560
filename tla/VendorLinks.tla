---------------------------- MODULE VendorLinks ----------------------------
(***************************************************************************)
(* Which vendor key a security is (core.security_vendor_xref): the linking  *)
(* engine (ingest/vendor_link.py), a person's accept and reject             *)
(* (vendor_review.py), the feed (vendor_feed.py), the overlap scan and the  *)
(* mints (vendor_overlap.py, vendor_mint.py, sharadar_universe.py) and the  *)
(* merges that carry links along.                                          *)
(*                                                                         *)
(* The engine and the scan read, compare prices for minutes and then write  *)
(* in one transaction; a review is planned and then applied. Everybody may  *)
(* commit in between: the table's indexes and checks refuse what no longer  *)
(* fits, and the transaction is lost.                                      *)
(***************************************************************************)
EXTENDS Integers, FiniteSets, FiniteSetsExt

CONSTANTS
    Own,         \* securities FMP minted
    Ids,         \* the ids a mint may give out
    Keys,        \* permatickers
    Dead,        \* those of issuers that no longer trade
    First, Born, \* the first bar of each security of FMP's; the first price of each key
    Shared,      \* pairs with a CIK or CUSIP in common
    Starts,      \* how they may compare, and who is live on each key's ticker, at first
    MaxDay, MaxOps,   \* bounds
    None

Secs == Own \cup Ids
Days == 0..MaxDay
Open == MaxDay + 1      \* valid_to IS NULL
Link == [sec : Secs, key : Keys, from : Days, to : Days \cup {Open}, feed : BOOLEAN]

\* How a key's prices compare: no ticker or no date in common; none that decides; the
\* latest sample agrees; four of five agree.
Grades == <<"apart", "off", "latest", "agrees">>

\* Why a security is not linked: the first two are vendor_xref_unmatched, the others
\* vendor_xref_ambiguous.
Unmatched == {"no_candidate", "price_disagrees"}
Ambiguous == {"several_agree", "duplicate_of_linked", "key_claimed_twice"}
Reasons == Unmatched \cup Ambiguous

ASSUME LinksAssumption ==
    /\ Own \cap Ids = {} /\ Dead \subseteq Keys /\ Shared \subseteq Own \X Keys
    /\ MaxDay \in Nat \ {0} /\ MaxOps \in Nat
    /\ First \in [Own -> Days] /\ Born \in [Keys -> Days]
    /\ Starts \subseteq [found : [Own \X Keys -> {Grades[i] : i \in 1..4}],
                        trades : [Keys -> Own \cup {None}]]
    /\ \A w \in Starts, k \in Dead : w.trades[k] = None
    /\ None \notin Secs \cup Keys \cup Link

VARIABLES
    today,
    known,       \* core.vendor_security: the keys loaded
    found,       \* what comparing a security's bars with a key's prices says
    first,       \* first bar of each security of FMP's
    trades,      \* the live security on each key's current ticker
    rows,        \* core.security
    links,       \* core.security_vendor_xref
    rejected,    \* core.security_vendor_rejection
    flags,       \* open vendor_xref_* flags, with their reason
    overlaps,    \* open vendor_history_overlap flags (dead_issuer)
    waived,      \* ... those a person accepted
    scanned,     \* the last scan's run is newer than the last master load's
    run,         \* the engine or the scan between read and write
    review,      \* an accept or reject between plan and write
    ops,         \* decisions taken and histories that moved
    calm,        \* history: "settled" since a full run saw and wrote the last change
    crossed,     \* history: pairs rejected while a run or a merge linked them
    late         \* history: overlaps the last scan could not see, or a person closed

world  == <<today, known, found, first, trades>>
queues == <<flags, overlaps, waived>>
hist   == <<calm, crossed, late>>
vars   == <<world, rows, links, rejected, queues, scanned, run, review, ops, hist>>

OpenLinks == {l \in links : l.to = Open}
Linked(s) == \E l \in OpenLinks : l.sec = s
Taken(k)  == \E l \in OpenLinks : l.key = k
Live      == rows \cap Own

Idle == [kind |-> "none"]

-----------------------------------------------------------------------------
(* What the table allows: its primary key, three unique indexes, one check *)

Legal(L) ==
    /\ \A l \in L : l.from <= l.to /\ (l.feed => l.to = Open)
    /\ \A l, m \in L : l # m =>
        /\ ~(l.key = m.key /\ l.from = m.from)
        /\ (l.to = Open /\ m.to = Open) => l.key # m.key /\ l.sec # m.sec

\* New open links go in beside those of L.
Addable(L, new) ==
    /\ Legal(L \cup new) /\ L \cap new = {}
    /\ {l.sec : l \in new} \subseteq rows

Closed(L, l, d) ==
    {IF m.key = l.key /\ m.from = l.from THEN [m EXCEPT !.to = d] ELSE m : m \in L}

NewLink(s, k, d, feed) == [sec |-> s, key |-> k, from |-> d, to |-> Open, feed |-> feed]

-----------------------------------------------------------------------------
(* Comparing *)

Later(a, b) == IF a > b THEN a ELSE b

Overlaps(s, k) == s \in Own /\ found[<<s, k>>] # "apart"

\* Where the two price histories meet.
Start(s, k) == IF Overlaps(s, k) THEN Later(first[s], Born[k]) ELSE Born[k]

\* Mutant: a person's no does not count.
CandidatesAll(s) == {k \in known : Overlaps(s, k)}

\* Held keys included.
Candidates(s) == {k \in known : Overlaps(s, k) /\ <<s, k>> \notin rejected}

Graded(s, g) == {k \in Candidates(s) : found[<<s, k>>] = g}
Same(s, S)   == {k \in S : <<s, k>> \in Shared}

\* The first basis with a winner decides.
Passing(s) ==
    IF Graded(s, "agrees") # {} THEN Graded(s, "agrees")
    ELSE IF Graded(s, "latest") # {} THEN Graded(s, "latest")
    ELSE Same(s, Candidates(s))

ByPrice(s) == Graded(s, "agrees") \cup Graded(s, "latest") # {}

Winner(s) ==
    IF Cardinality(Passing(s)) < 2 THEN Passing(s)
    ELSE IF ByPrice(s) /\ Cardinality(Same(s, Passing(s))) = 1 THEN Same(s, Passing(s))
    ELSE {}

Not(why)  == [key |-> None, why |-> why]
Wins(k)   == [key |-> k, why |-> "won"]

Decided(s) ==
    IF Winner(s) # {} THEN
        LET k == CHOOSE k \in Winner(s) : TRUE
        IN IF Taken(k) THEN Not("duplicate_of_linked") ELSE Wins(k)
    ELSE IF Candidates(s) = {} THEN Not("no_candidate")
    ELSE IF ByPrice(s) THEN Not("several_agree")
    ELSE Not("price_disagrees")

Claimants(o, k) == {s \in DOMAIN o : o[s].key = k}

\* A key several securities win goes to the one that is live on its ticker.
SettleDoubleClaims(o) ==
    [s \in DOMAIN o |->
        LET k == o[s].key
        IN IF k = None THEN o[s]
           ELSE IF Claimants(o, k) = {s} \/ trades[k] = s THEN o[s]
           ELSE IF trades[k] \in Claimants(o, k) THEN Not("duplicate_of_linked")
           ELSE Not("key_claimed_twice")]

\* The securities of FMP's with no open link.
Scope(S) == {s \in S \cap Live : ~Linked(s)}

Evaluate(S) == SettleDoubleClaims([s \in Scope(S) |-> Decided(s)])

Overlapping == {p \in Live \X (known \cap Dead) : Overlaps(p[1], p[2]) /\ ~Taken(p[2])}

-----------------------------------------------------------------------------
Init ==
    /\ today = 1
    /\ known = {}
    /\ \E w \in Starts : found = w.found /\ trades = w.trades
    /\ first = First
    /\ rows = Own /\ links = {} /\ rejected = {}
    /\ flags = {} /\ overlaps = {} /\ waived = {} /\ scanned = FALSE
    /\ run = Idle /\ review = Idle
    /\ ops = 0
    /\ calm = "changed" /\ crossed = {} /\ late = {}

Operates == ops < MaxOps /\ ops' = ops + 1

\* Overlaps that come up while nobody scans.
Arises == late' = late \cup (Overlapping' \ Overlapping)

Tomorrow ==
    /\ today < MaxDay
    /\ today' = today + 1
    /\ UNCHANGED <<known, found, first, trades, rows, links, rejected, queues,
                   scanned, run, review, ops, hist>>

\* Bars are loaded or corrected, a ticker period or the vendor's history changes.
Compare(s, k, g) ==
    /\ Operates
    /\ s \in rows /\ found[<<s, k>>] # g
    /\ found' = [found EXCEPT ![<<s, k>>] = g]
    /\ calm' = "changed"
    /\ UNCHANGED <<today, known, first, trades, rows, links, rejected, queues, scanned, run,
                   review, crossed>>
    /\ Arises

\* ingest sharadar-master.
LoadMaster(K) ==
    /\ K # {}
    /\ K \cap known = {}
    /\ known' = known \cup K
    /\ scanned' = FALSE
    /\ calm' = "changed"
    /\ UNCHANGED <<today, found, first, trades, rows, links, rejected, queues, run,
                   review, ops, crossed, late>>

-----------------------------------------------------------------------------
(* The engine: `fafnir vendor link`, whole, --new or --symbols *)

ReadLinks(S) ==
    /\ run = Idle /\ known # {}
    /\ run' = [kind |-> "link", plan |-> Evaluate(S)]
    /\ calm' = IF S = Own THEN "reading" ELSE calm
    /\ UNCHANGED <<world, rows, links, rejected, queues, scanned, review, ops, crossed, late>>

WonLinks == {NewLink(s, run.plan[s].key, Start(s, run.plan[s].key), FALSE)
             : s \in {t \in DOMAIN run.plan : run.plan[t].key # None}}

\* What no longer holds is resolved before what does is written.
Flagged ==
    {f \in flags : f[1] \notin DOMAIN run.plan}
    \cup {<<s, run.plan[s].why>> : s \in {t \in DOMAIN run.plan : run.plan[t].key = None}}

\* One transaction.
WriteLinks ==
    /\ run.kind = "link"
    /\ Addable(links, WonLinks)
    /\ links' = links \cup WonLinks
    /\ flags' = Flagged
    /\ run' = Idle
    /\ calm' = IF calm = "reading" THEN "settled"
               ELSE IF WonLinks # {} THEN "changed" ELSE calm
    /\ UNCHANGED <<world, rows, rejected, overlaps, waived, scanned, review, ops, crossed, late>>

\* A constraint refuses, a file is missing, a kill: nothing is written.
Stop ==
    /\ run # Idle
    /\ run' = Idle
    /\ calm' = IF calm = "reading" THEN "changed" ELSE calm
    /\ UNCHANGED <<world, rows, links, rejected, queues, scanned, review, ops, crossed, late>>

-----------------------------------------------------------------------------
(* The overlap scan and the mints *)

\* Mutant: only securities without a link are looked at.
ScannedUnlinked == {p \in Overlapping : ~Linked(p[1])}

\* Every pair of a security of FMP's, linked or not, with a dead issuer nobody holds.
Scanned == Overlapping

ReadScan ==
    /\ run = Idle
    /\ run' = [kind |-> "scan", pairs |-> Scanned, seen |-> Overlapping]
    /\ UNCHANGED <<world, rows, links, rejected, queues, scanned, review, ops, hist>>

\* The run begins here: it is newer than any master loaded while the scan read.
WriteScan ==
    /\ run.kind = "scan"
    /\ overlaps' = run.pairs \ waived
    /\ scanned' = TRUE
    /\ run' = Idle
    /\ late' = Overlapping \ run.seen
    /\ UNCHANGED <<world, rows, links, rejected, flags, waived, review, ops, calm, crossed>>

\* A person resolves or accepts an overlap's flag.
CloseOverlap(p, accepted) ==
    /\ Operates
    /\ p \in overlaps
    /\ overlaps' = overlaps \ {p}
    /\ waived' = IF accepted THEN waived \cup {p} ELSE waived
    /\ late' = late \cup {p}
    /\ UNCHANGED <<world, rows, links, rejected, flags, scanned, run, review, calm, crossed>>

\* One security; the engine or the scan may be between its read and its write.
Minted(k, t) ==
    /\ Operates
    /\ \E i \in Ids \ rows :
        /\ {l \in links : l.sec = i} = {}
        /\ links' = links \cup {NewLink(i, k, Born[k], TRUE)}
        /\ Legal(links')
        /\ rows' = rows \cup {i}
        /\ trades' = IF t THEN [trades EXCEPT ![k] = i] ELSE trades
    /\ calm' = "changed"
    /\ UNCHANGED <<today, known, found, first, rejected, queues, scanned, run, review,
                   crossed, late>>

\* Mutant: the scan's flags are not asked for.
MintableUnasked(k) ==
    /\ scanned
    /\ k \in known \cap Dead /\ ~Taken(k)

\* A dead issuer nobody holds, scanned since the master was loaded and not flagged.
Mintable(k) ==
    /\ scanned
    /\ k \in known \cap Dead /\ ~Taken(k)
    /\ \A p \in overlaps : p[2] # k

MintDelisted(k) == Mintable(k) /\ Minted(k, FALSE)

\* --permaticker --allow-overlap.
MintAllowed(k) ==
    /\ scanned /\ k \in known \cap Dead /\ ~Taken(k)
    /\ \E p \in overlaps : p[2] = k
    /\ Minted(k, FALSE)

\* A live listing whose ticker nobody is active on.
MintListing(k) ==
    /\ k \in known \ Dead /\ ~Taken(k) /\ trades[k] = None
    /\ Minted(k, TRUE)

-----------------------------------------------------------------------------
(* A person's review: planned, then applied *)

Of(s, k) == {l \in OpenLinks : l.sec = s /\ l.key = k}

PlanAccept(s, k, d) ==
    /\ review = Idle /\ Operates
    /\ s \in rows /\ k \in known /\ d \in {Start(s, k), today}
    /\ \A l \in OpenLinks : l.key = k => l.sec = s
    /\ Of(s, k) = {} =>
        /\ \A l \in links : ~(l.key = k /\ l.from = d)
        /\ \A l \in OpenLinks : l.sec = s => ~l.feed /\ l.from < d
    /\ review' = [kind |-> "accept", sec |-> s, key |-> k, from |-> d,
                  noop |-> Of(s, k) # {},
                  close |-> {l \in OpenLinks : l.sec = s /\ l.key # k},
                  unrejects |-> <<s, k>> \in rejected,
                  flags |-> {f \in flags : f[1] = s}]
    /\ UNCHANGED <<world, rows, links, rejected, queues, scanned, run, hist>>

Replaced == IF review.close = {} THEN links
            ELSE Closed(links, CHOOSE l \in review.close : TRUE, review.from - 1)

ApplyAccept ==
    /\ review.kind = "accept"
    /\ review.noop \/
        LET new == {NewLink(review.sec, review.key, review.from, FALSE)}
        IN Addable(Replaced, new) /\ links' = Replaced \cup new
    /\ review.noop => links' = links
    /\ rejected' = IF review.unrejects THEN rejected \ {<<review.sec, review.key>>} ELSE rejected
    /\ flags' = flags \ review.flags
    /\ review' = Idle
    /\ calm' = "changed"
    /\ UNCHANGED <<world, rows, overlaps, waived, scanned, run, ops, crossed>>
    /\ Arises

\* The security's feed is not a review's to move.
Rejectable(s, k) == \A l \in Of(s, k) : ~l.feed

PlanReject(s, k) ==
    /\ review = Idle /\ Operates
    /\ s \in rows /\ k \in known
    /\ Rejectable(s, k)
    /\ review' = [kind |-> "reject", sec |-> s, key |-> k, close |-> Of(s, k)]
    /\ UNCHANGED <<world, rows, links, rejected, queues, scanned, run, hist>>

\* Closed today.
Ended(L, l) == Closed(L, l, Later(today, l.from))

ApplyReject ==
    /\ review.kind = "reject" /\ review.sec \in rows
    /\ LET pair == <<review.sec, review.key>>
       IN /\ links' = IF review.close = {} THEN links
                      ELSE Ended(links, CHOOSE l \in review.close : TRUE)
          /\ Legal(links')
          /\ rejected' = rejected \cup {pair}
          /\ crossed' = IF run.kind = "link" \/ \E l \in links' : l.to = Open /\ <<l.sec, l.key>> = pair
                        THEN crossed \cup {pair} ELSE crossed
    /\ review' = Idle
    /\ calm' = "changed"
    /\ UNCHANGED <<world, rows, queues, scanned, run, ops>>
    /\ Arises

\* A constraint refuses, or the person gives up.
DropReview ==
    /\ review # Idle
    /\ review' = Idle
    /\ UNCHANGED <<world, rows, links, rejected, queues, scanned, run, ops, hist>>

-----------------------------------------------------------------------------
(* The feed and the merges *)

WithFeed(l, on) == (links \ {l}) \cup {[l EXCEPT !.feed = on]}

\* `vendor feed --vendor sharadar`, and --vendor fmp: FMP serves whoever trades under
\* the ticker today, so only what it minted goes back to it.
FeedFrom(s) ==
    /\ Operates
    /\ \E l \in OpenLinks : l.sec = s /\ ~l.feed /\ links' = WithFeed(l, TRUE)
    /\ UNCHANGED <<world, rows, rejected, queues, scanned, run, review, hist>>

\* Mutant: the rollback asks for the feed only.
FedByOtherAny(l) == l.feed
FedByOther(l) == l.feed /\ l.sec \in Own

FeedBack(s) ==
    /\ Operates
    /\ \E l \in OpenLinks : l.sec = s /\ FedByOther(l) /\ links' = WithFeed(l, FALSE)
    /\ UNCHANGED <<world, rows, rejected, queues, scanned, run, review, hist>>

\* vendor_link_conflicts: two identities, or two feeds, are not one security.
Conflict(v, s) == Linked(v) /\ Linked(s)

Repointed(flagged, v, s) ==
    {f \in flagged : f[1] # v} \cup {<<s, f[2]>> : f \in {g \in flagged : g[1] = v}}

Check(why) == why \in Unmatched

\* The victim's open flag goes where the survivor has one of the check.
Redundant(v, s) ==
    {f \in flags : f[1] = v /\ \E g \in flags : g[1] = s /\ Check(g[2]) = Check(f[2])}

Rank(g) == CHOOSE i \in 1..4 : Grades[i] = g
Better(g, h) == IF Rank(g) < Rank(h) THEN h ELSE g

\* merge_security and fold_empty_security: links, flags, bars and the ticker go to the
\* survivor; the victim's rejections go with its row.
Merge(v, s) ==
    /\ Operates
    /\ v # s /\ {v, s} \subseteq rows
    /\ ~Conflict(v, s)
    /\ rows' = rows \ {v}
    /\ links' = {IF l.sec = v THEN [l EXCEPT !.sec = s] ELSE l : l \in links}
    /\ flags' = Repointed(flags \ Redundant(v, s), v, s)
    /\ overlaps' = Repointed(overlaps, v, s) /\ waived' = Repointed(waived, v, s)
    /\ rejected' = {p \in rejected : p[1] # v}
    /\ found' = [p \in Own \X Keys |->
                  IF p[1] = s /\ v \in Own THEN Better(found[p], found[<<v, p[2]>>])
                  ELSE found[p]]
    /\ first' = IF {v, s} \subseteq Own /\ first[v] < first[s] THEN [first EXCEPT ![s] = first[v]] ELSE first
    /\ trades' = [k \in Keys |-> IF trades[k] = v THEN s ELSE trades[k]]
    /\ crossed' = crossed \cup {<<s, l.key>> : l \in {m \in OpenLinks : m.sec = v}}
    /\ calm' = "changed"
    /\ UNCHANGED <<today, known, scanned, run, review>>
    /\ Arises

-----------------------------------------------------------------------------
\* The commands, each of one transaction but for the two that read for minutes or ask.
VendorLink ==
    \/ \E S \in {Own} \cup {{s} : s \in Own} : ReadLinks(S)
    \/ WriteLinks

VendorOverlap == ReadScan \/ WriteScan

VendorMintDelisted == \E k \in Keys : MintDelisted(k) \/ MintAllowed(k)

VendorLinkAccept ==
    \/ \E s \in Secs, k \in Keys, d \in Days : PlanAccept(s, k, d)
    \/ ApplyAccept

VendorLinkReject ==
    \/ \E s \in Secs, k \in Keys : PlanReject(s, k)
    \/ ApplyReject

VendorFeed == \E s \in Secs : FeedFrom(s) \/ FeedBack(s)

Engine ==
    \/ VendorLink
    \/ VendorOverlap
    \/ Stop

Mints ==
    \/ VendorMintDelisted
    \/ \E k \in Keys : MintListing(k)

Person ==
    \/ VendorLinkAccept
    \/ VendorLinkReject
    \/ DropReview
    \/ \E p \in Secs \X Keys, accepted \in BOOLEAN : CloseOverlap(p, accepted)
    \/ VendorFeed
    \/ \E v, s \in Secs : Merge(v, s)

Next ==
    \/ Tomorrow
    \/ \E s \in Own, k \in Keys, i \in 1..4 : Compare(s, k, Grades[i])
    \/ \E K \in SUBSET Keys : LoadMaster(K)
    \/ Engine
    \/ Mints
    \/ Person

Spec == Init /\ [][Next]_vars

-----------------------------------------------------------------------------
(* Properties *)

TypeOK ==
    /\ today \in Days /\ known \subseteq Keys
    /\ found \in [Own \X Keys -> {Grades[i] : i \in 1..4}]
    /\ first \in [Own -> Days] /\ trades \in [Keys -> Secs \cup {None}]
    /\ rows \subseteq Secs /\ links \subseteq Link /\ rejected \subseteq Secs \X Keys
    /\ flags \subseteq Secs \X Reasons
    /\ overlaps \subseteq Secs \X Keys /\ waived \subseteq Secs \X Keys
    /\ scanned \in BOOLEAN
    /\ run.kind \in {"none", "link", "scan"} /\ review.kind \in {"none", "accept", "reject"}
    /\ ops \in 0..MaxOps
    /\ calm \in {"changed", "reading", "settled"}
    /\ crossed \subseteq Secs \X Keys /\ late \subseteq Secs \X Keys

\* A security minted from the vendor is fed by it for good: FMP would serve it whoever
\* trades under its ticker today, so no review, rollback or merge, however they
\* interleave, leaves it without its open feeding link (vendor_feed.py, vendor_mint.py).
MintedAreFed ==
    \A i \in rows \cap Ids : \E l \in OpenLinks : l.sec = i /\ l.feed

\* A pair a person rejected holds no open link, but for one that a run in flight or a
\* merge brought across the rejection (vendor_review.py: "the engine never proposes it
\* again").
RejectedStaysOut ==
    \A l \in OpenLinks : <<l.sec, l.key>> \in rejected => <<l.sec, l.key>> \in crossed

\* No dead issuer is minted unasked onto history that a security of FMP's holds, but
\* for what came up after the last scan had read, or a person let through
\* (vendor_mint.py, _guard).
HistoryOnOneRow ==
    [][\A k \in Keys : MintDelisted(k) => \A p \in Overlapping : p[2] = k => p \in late \cup waived]_vars

-----------------------------------------------------------------------------
(* Known limits of the code: no run lists these *)

\* The engine can write what it decided when nobody else is at work
\* (vendor link reject: "the next `fafnir vendor link` looks again without that key").
LooksAgain ==
    run.kind = "link" /\ calm = "reading" => Addable(links, WonLinks)

\* On any day a key was one security (migration 0032: a rejected pair kept as a link
\* "would answer 'who was this key on date D' wrongly").
KeyWasOne ==
    \A l, m \in links : l.key = m.key /\ l.sec # m.sec => l.to < m.from \/ m.to < l.from

\* A linked security is not also flagged as one that could not be linked.
LinkedIsSettled == \A f \in flags : ~Linked(f[1])

\* The guard of the mint is enough by itself (vendor_mint.py: "so no issuer is minted
\* onto history an FMP row already holds").
GuardIsEnough ==
    [][\A k \in Keys : MintDelisted(k) => \A p \in Overlapping : p[2] # k]_vars
=============================================================================
