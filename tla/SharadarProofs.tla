--------------------------- MODULE SharadarProofs ---------------------------
(***************************************************************************)
(* What holds of the Sharadar path for every table, day and bound: first    *)
(* the night over the files and deltas and what its prune keeps             *)
(* (SharadarNight), then the universe under every vendor, cutover and       *)
(* window (Universe).                                                       *)
(***************************************************************************)
EXTENDS SharadarNight, Universe, FiniteSetTheorems, WellFoundedInduction, TLAPS

-----------------------------------------------------------------------------
(* Extremal elements *)

(* Every non-empty set of naturals has a least element, by the well-foundedness of < *)
(* on Nat, the one inductive fact used here.                                         *)
LEMMA LeastElement ==
  ASSUME NEW T, T \subseteq Nat, T # {}
  PROVE  \E x \in T : \A y \in T : x <= y
<1> DEFINE R == OpToRel(<, Nat)
<1>1. IsWellFoundedOn(R, Nat)
  BY NatLessThanWellFounded
<1> HIDE DEF R
<1>2. \E x \in T : \A y \in T : <<y, x>> \notin R
  BY <1>1, WFMin
<1>3. \A x, y \in T : <<y, x>> \notin R => x <= y
  <2>1. SUFFICES ASSUME NEW x \in T, NEW y \in T, y < x PROVE <<y, x>> \in R
    BY SMT
  <2>2. <<y, x>> \in Nat \X Nat /\ <<y,x>>[1] < <<y,x>>[2]
    BY <2>1
  <2> QED BY <2>2 DEF R, OpToRel
<1> QED BY <1>2, <1>3

(* Every non-empty set of naturals with an upper bound has a greatest element. *)
LEMMA GreatestElement ==
  ASSUME NEW n \in Nat, NEW S, S \subseteq 0..n, S # {}
  PROVE  \E x \in S : \A y \in S : y <= x
<1> DEFINE T == {n - d : d \in S}
<1>1. T \subseteq Nat
  <2>1. \A d \in S : n - d \in Nat
    OBVIOUS
  <2> QED BY <2>1
<1>2. T # {}
  BY Zenon
<1>3. PICK x \in T : \A y \in T : x <= y
  <2> HIDE DEF T
  <2> QED BY <1>1, <1>2, LeastElement
<1>4. PICK m \in S : x = n - m
  BY <1>3
<1>5. \A d \in S : n - m <= n - d
  BY <1>3, <1>4
<1>6. \A d \in S : d <= m
  BY <1>5, SMT
<1> QED BY <1>6

-----------------------------------------------------------------------------
(* A non-empty set of numbers has a last one by any stamp, on one stamp the greatest:  *)
(* how the newest file of a kind and the version of a bar are chosen.                  *)
LEMMA LastByStamp ==
  ASSUME NEW n \in Nat, NEW k \in Nat, NEW S, S \subseteq 0..n, S # {},
         NEW stamp \in [S -> 0..k]
  PROVE  \E f \in S : \A g \in S : stamp[g] < stamp[f] \/ (stamp[g] = stamp[f] /\ g <= f)
<1> DEFINE T == {stamp[f] : f \in S}
<1>1. PICK t \in T : \A u \in T : u <= t
  <2>1. T \subseteq 0..k
    OBVIOUS
  <2>2. T # {}
    BY Zenon
  <2> HIDE DEF T
  <2> QED BY <2>1, <2>2, GreatestElement
<1> DEFINE L == {f \in S : stamp[f] = t}
<1>2. PICK f \in L : \A g \in L : g <= f
  <2>1. L \subseteq 0..n /\ L # {}
    BY <1>1
  <2> HIDE DEF L
  <2> QED BY <2>1, GreatestElement
<1>3. \A g \in S : stamp[g] < stamp[f] \/ (stamp[g] = stamp[f] /\ g <= f)
  <2>1. TAKE g \in S
  <2>2. stamp[g] <= t /\ stamp[f] = t
    BY <1>1
  <2>3. CASE stamp[g] = t
    BY <2>2, <2>3, <1>2
  <2>4. CASE stamp[g] # t
    <3>1. stamp[g] \in Int /\ t \in Int
      BY <2>2
    <3> QED BY <2>2, <2>4, <3>1
  <2> QED BY <2>3, <2>4
<1> QED BY <1>2, <1>3

(* The last file applied is one of those applied, or the one applied before. *)
LEMMA MaxIsGreatest ==
  ASSUME NEW n \in Nat, NEW S, S \subseteq 0..n, S # {}
  PROVE  Max(S) \in S /\ \A y \in S : y <= Max(S)
<1>1. PICK x \in S : \A y \in S : y <= x
  BY GreatestElement
<1>2. \A y \in S : x >= y
  BY <1>1
<1>3. Max(S) \in S /\ \A y \in S : Max(S) >= y
  BY <1>2, Zenon DEF Max
<1> QED BY <1>3

(* current_sharadar_full finds a file whenever the ledger holds one. *)
LEMMA CurrentIsDownloaded ==
  ASSUME TypeOK, Downloaded("full") # {}
  PROVE  CurrentFull \in Downloaded("full")
<1> DEFINE D == Downloaded("full")
           stamp == [f \in D |-> files[f].fetched]
<1>1. D \subseteq DOMAIN files /\ \A f \in DOMAIN files : files[f] \in File
  BY DEF TypeOK, Downloaded
<1>2. D \subseteq 0..Len(files) /\ Len(files) \in Nat
  BY <1>1 DEF TypeOK
<1>3. stamp \in [D -> 0..LastDay]
  BY <1>1 DEF File, Days
<1>4. \E f \in D : \A g \in D : stamp[g] < stamp[f] \/ (stamp[g] = stamp[f] /\ g <= f)
  <2> HIDE DEF D, stamp
  <2>1. D # {}
    BY DEF D
  <2> QED BY <1>2, <1>3, <2>1, NightAssumption, LastByStamp
<1>5. \E f \in D : \A g \in D : \/ files[g].fetched < files[f].fetched
                                \/ files[g].fetched = files[f].fetched /\ g <= f
  BY <1>4
<1>6. FetchedLast(D) \in D
  <2> HIDE DEF D
  <2> QED BY <1>5, Zenon DEF FetchedLast
<1> QED BY <1>6 DEF CurrentFull

(* merged_rows yields a version of the table, or none. *)
LEMMA MergedIsRow ==
  ASSUME TypeOK, NEW b \in Bars, NEW ids, ids \subseteq DOMAIN files
  PROVE  Merged(b, ids) \in Row \cup {NoRow}
<1> DEFINE H == {f \in ids : files[f].rows[b] # NoRow}
           stamp == [f \in H |-> files[f].rows[b].stamp]
<1>1. \A f \in H : files[f].rows[b] \in Row
  <2>1. TAKE f \in H
  <2>2. files[f] \in File
    BY DEF TypeOK
  <2>3. files[f].rows \in Table
    BY <2>2 DEF File
  <2>4. files[f].rows[b] \in Row \cup {NoRow}
    BY <2>3 DEF Table
  <2> QED BY <2>4
<1>2. H \subseteq 0..Len(files) /\ Len(files) \in Nat
  BY DEF TypeOK
<1>3. stamp \in [H -> 0..LastDay]
  BY <1>1 DEF Row, Days
<1>4. CASE H = {}
  BY <1>4 DEF Merged
<1>5. CASE H # {}
  <2>1. \E f \in H : \A g \in H : stamp[g] < stamp[f] \/ (stamp[g] = stamp[f] /\ g <= f)
    <3> HIDE DEF H, stamp
    <3> QED BY <1>2, <1>3, <1>5, NightAssumption, LastByStamp
  <2>2. \E f \in H : \A g \in H :
          \/ files[g].rows[b].stamp < files[f].rows[b].stamp
          \/ files[g].rows[b].stamp = files[f].rows[b].stamp /\ g <= f
    BY <2>1
  <2>3. PICK f \in H : Merged(b, ids) = files[f].rows[b]
    <3> DEFINE c == CHOOSE f \in H : \A g \in H :
                      \/ files[g].rows[b].stamp < files[f].rows[b].stamp
                      \/ (files[g].rows[b].stamp = files[f].rows[b].stamp /\ g <= f)
    <3>1. c \in H
      <4> HIDE DEF H
      <4> QED BY <2>2, Zenon
    <3>2. Merged(b, ids) = files[c].rows[b]
      BY <1>5, Zenon DEF Merged
    <3> QED BY <3>1, <3>2
  <2> QED BY <1>1, <2>3
<1> QED BY <1>4, <1>5

(* record_sharadar_file keeps every row of the ledger, current ones current, and makes *)
(* the file it was given current.                                                      *)
LEMMA RecordedKeeps ==
  ASSUME TypeOK, NEW kind \in {"full", "delta"}, NEW rows \in Table
  PROVE  /\ Recorded(kind, rows) \in Seq(File)
         /\ DOMAIN files \subseteq DOMAIN Recorded(kind, rows)
         /\ RecordedId(kind, rows) \in DOMAIN Recorded(kind, rows)
         /\ Recorded(kind, rows)[RecordedId(kind, rows)].kind = kind
         /\ Recorded(kind, rows)[RecordedId(kind, rows)].status = "downloaded"
         /\ \A f \in DOMAIN files :
              /\ Recorded(kind, rows)[f].kind = files[f].kind
              /\ files[f].status = "downloaded" => Recorded(kind, rows)[f].status = "downloaded"
         /\ \A f \in DOMAIN Recorded(kind, rows) \ DOMAIN files :
              Recorded(kind, rows)[f].status = "downloaded"
<1> DEFINE new == [kind |-> kind, rows |-> rows, fetched |-> day, status |-> "downloaded"]
           held == Held(kind, rows)
<1>1. files \in Seq(File) /\ Len(files) \in Nat /\ DOMAIN files = 1..Len(files)
  BY DEF TypeOK
<1>2. new \in File
  BY DEF File, TypeOK
<1>3. held \subseteq DOMAIN files
  BY DEF Held
<1>4. CASE held = {}
  <2>1. Recorded(kind, rows) = Append(files, new) /\ RecordedId(kind, rows) = Len(files) + 1
    BY <1>4 DEF Recorded, RecordedId
  <2>2. Append(files, new) \in Seq(File) /\ Len(Append(files, new)) = Len(files) + 1
    BY <1>1, <1>2
  <2>3. /\ \A f \in 1..Len(files) : Append(files, new)[f] = files[f]
        /\ Append(files, new)[Len(files) + 1] = new
        /\ DOMAIN Append(files, new) = 1..(Len(files) + 1)
    BY <1>1, <1>2
  <2> QED BY <1>1, <2>1, <2>2, <2>3
<1>5. CASE held # {}
  <2> DEFINE now == [f \in DOMAIN files |->
                       IF f \in held THEN [files[f] EXCEPT !.status = "downloaded"] ELSE files[f]]
  <2>1. Recorded(kind, rows) = now /\ RecordedId(kind, rows) = Max(held)
    BY <1>5 DEF Recorded, RecordedId
  <2>2. Max(held) \in held
    <3>1. held \subseteq 0..Len(files)
      BY <1>1, <1>3
    <3> QED BY <1>1, <1>5, <3>1, MaxIsGreatest
  <2>3. \A f \in DOMAIN files : files[f] \in File
    BY <1>1
  <2>4. \A f \in DOMAIN files : /\ now[f] \in File
                                /\ now[f].kind = files[f].kind
                                /\ f \in held => now[f].status = "downloaded"
                                /\ files[f].status = "downloaded" => now[f].status = "downloaded"
    BY <2>3 DEF File
  <2>5. now \in Seq(File)
    BY <1>1, <2>4
  <2>6. files[Max(held)].kind = kind
    BY <2>2 DEF Held
  <2> HIDE DEF now
  <2>7. DOMAIN now = DOMAIN files
    BY DEF now
  <2> QED BY <1>3, <2>1, <2>2, <2>4, <2>5, <2>6, <2>7
<1> QED BY <1>4, <1>5

-----------------------------------------------------------------------------

(* While the night applies its files, the mark it will leave is not behind the last    *)
(* one's: with it, what the prune keeps is inductive.                                  *)
NightInv == TypeOK /\ UnappliedKept /\ (step = "applying" => night.to >= through)

(* The mark a price step will leave is a file's, and not behind the last one's. *)
LEMMA MarkMovesOn ==
  ASSUME TypeOK
  PROVE  Max(Pending \cup {through}) \in Nat /\ Max(Pending \cup {through}) >= through
<1> DEFINE n == Len(files) + through
           S == Pending \cup {through}
<1>1. n \in Nat /\ through \in Nat /\ Len(files) \in Nat /\ DOMAIN files = 1..Len(files)
  BY DEF TypeOK
<1>2. S \subseteq 0..n
  <2>1. Pending \subseteq 1..Len(files)
    BY <1>1 DEF Pending, Downloaded
  <2> QED BY <1>1, <2>1
<1>3. through \in S
  OBVIOUS
<1>4. Max(S) \in S /\ through <= Max(S)
  <2> HIDE DEF n, S
  <2> QED BY <1>1, <1>2, <1>3, MaxIsGreatest
<1> QED BY <1>1, <1>2, <1>4

LEMMA InitNight == Init => NightInv
<1> SUFFICES ASSUME Init PROVE NightInv
  OBVIOUS
<1>1. 0 \in Days /\ 0 \in Nat /\ NoRow # Other
  BY NightAssumption DEF Days
<1>2. vendor \in Table
  <2>1. [stamp : {0}, rev : {0}, ok : Validity] \subseteq Row
    BY <1>1, NightAssumption DEF Row
  <2>2. vendor \in [Bars -> {NoRow} \cup [stamp : {0}, rev : {0}, ok : Validity]]
    BY DEF Init
  <2> QED BY <2>1, <2>2 DEF Table
<1> DEFINE full == [kind |-> "full", rows |-> vendor, fetched |-> 0, status |-> "downloaded"]
<1>3. full \in File /\ files = <<full>>
  BY <1>1, <1>2 DEF Init, File
<1>4. files \in Seq(File) /\ DOMAIN files = {1} /\ files[1] = full
  BY <1>3
<1>5. stored \in [Bars -> Nat \cup {NoRow, Other}]
  BY DEF Init
<1>6. TypeOK
  BY <1>1, <1>2, <1>4, <1>5, NightAssumption DEF Init, TypeOK, Steps, NoNight
<1>7. UnappliedKept
  <2>1. 1 \in Downloaded("full")
    BY <1>4 DEF Downloaded
  <2>2. \A f \in DOMAIN files : files[f].kind # "delta"
    BY <1>4
  <2> QED BY <2>1, <2>2 DEF UnappliedKept
<1> QED BY <1>6, <1>7 DEF NightInv, Init

(* The ledger's rows stay, and those the nightly needs stay current. *)
Keeps(old, new) ==
  /\ new \in Seq(File)
  /\ DOMAIN old \subseteq DOMAIN new
  /\ \A f \in DOMAIN old : /\ new[f].kind = old[f].kind
                           /\ (old[f].kind = "delta" /\ old[f].status = "downloaded")
                                => new[f].status = "downloaded"
  /\ \A f \in DOMAIN new \ DOMAIN old : new[f].kind = "delta" => new[f].status = "downloaded"
  /\ \E f \in DOMAIN new : new[f].kind = "full" /\ new[f].status = "downloaded"

LEMMA FetchKeeps ==
  ASSUME NightInv, FetchDelta
  PROVE  Keeps(files, files')
<1> DEFINE rows == [b \in Bars |-> IF vendor[b] # NoRow /\ vendor[b].stamp >= Since
                                   THEN vendor[b] ELSE NoRow]
<1>1. rows \in Table
  BY DEF NightInv, TypeOK, Table
<1>2. files' = files \/ files' = Recorded("delta", rows)
  BY DEF FetchDelta
<1> HIDE DEF rows
<1>3. PICK f \in DOMAIN files : files[f].kind = "full" /\ files[f].status = "downloaded"
  BY DEF NightInv, UnappliedKept, Downloaded
<1>4. CASE files' = files
  BY <1>3, <1>4 DEF Keeps, NightInv, TypeOK
<1>5. CASE files' = Recorded("delta", rows)
  BY <1>1, <1>3, <1>5, RecordedKeeps DEF Keeps, NightInv
<1> QED BY <1>2, <1>4, <1>5

LEMMA FullKeeps ==
  ASSUME NightInv, DownloadFull
  PROVE  Keeps(files, files')
<1> DEFINE rec == Recorded("full", vendor)
           id == RecordedId("full", vendor)
<1>1. vendor \in Table
  BY DEF NightInv, TypeOK
<1>2. files' = [f \in DOMAIN rec |->
                  IF f # id /\ f \in Downloaded("full")
                  THEN [files[f] EXCEPT !.status = "superseded"] ELSE rec[f]]
  BY DEF DownloadFull
<1>3. /\ rec \in Seq(File) /\ DOMAIN files \subseteq DOMAIN rec /\ id \in DOMAIN rec
      /\ rec[id].kind = "full" /\ rec[id].status = "downloaded"
      /\ \A f \in DOMAIN files :
           rec[f].kind = files[f].kind
           /\ (files[f].status = "downloaded" => rec[f].status = "downloaded")
      /\ \A f \in DOMAIN rec \ DOMAIN files : rec[f].status = "downloaded"
  BY <1>1, RecordedKeeps DEF NightInv
<1> HIDE DEF rec, id
<1>4. /\ Downloaded("full") \subseteq DOMAIN files
      /\ \A f \in Downloaded("full") : files[f] \in File /\ files[f].kind = "full"
  BY DEF Downloaded, NightInv, TypeOK
<1>5. \A f \in Downloaded("full") : [files[f] EXCEPT !.status = "superseded"] \in File
                                    /\ [files[f] EXCEPT !.status = "superseded"].kind = "full"
  BY <1>4 DEF File
<1>6. DOMAIN files' = DOMAIN rec
  BY <1>2
<1>7. files' \in Seq(File)
  <2>1. \A f \in DOMAIN rec : files'[f] \in File
    <3>1. TAKE f \in DOMAIN rec
    <3>2. rec[f] \in File
      BY <1>3
    <3>3. CASE f # id /\ f \in Downloaded("full")
      BY <1>2, <1>5, <3>3
    <3>4. CASE ~(f # id /\ f \in Downloaded("full"))
      BY <1>2, <3>2, <3>4
    <3> QED BY <3>3, <3>4
  <2>2. Len(rec) \in Nat /\ DOMAIN rec = 1..Len(rec)
    BY <1>3
  <2>3. files' \in [1..Len(rec) -> File]
    BY <1>2, <2>1, <2>2
  <2> QED BY <2>2, <2>3
<1>8. files'[id] = rec[id]
  BY <1>2, <1>3
<1>9. \A f \in DOMAIN files : files'[f].kind = files[f].kind
  BY <1>2, <1>3, <1>4, <1>5
<1>10. \A f \in DOMAIN files : files[f].kind = "delta" => files'[f] = rec[f]
  BY <1>2, <1>3, <1>4
<1>11. \A f \in DOMAIN rec \ DOMAIN files : files'[f] = rec[f]
  BY <1>2, <1>4
<1> QED BY <1>3, <1>6, <1>7, <1>8, <1>9, <1>10, <1>11 DEF Keeps

LEMMA PruneKeeps ==
  ASSUME NightInv, Prune
  PROVE  /\ files' \in Seq(File) /\ DOMAIN files' = DOMAIN files
         /\ \A f \in DOMAIN files : /\ files'[f].kind = files[f].kind
                                    /\ ~Prunable(f) => files'[f] = files[f]
<1>1. PICK last \in 0..Len(files) :
        files' = [f \in DOMAIN files |->
                    IF f \in {g \in 1..last : Prunable(g)}
                    THEN [files[f] EXCEPT !.status = "deleted"] ELSE files[f]]
  BY DEF Prune
<1>2. files \in Seq(File) /\ Len(files) \in Nat /\ DOMAIN files = 1..Len(files)
  BY DEF NightInv, TypeOK
<1>3. \A f \in DOMAIN files : files'[f] \in File /\ files'[f].kind = files[f].kind
  <2>1. TAKE f \in DOMAIN files
  <2>2. files[f] \in File
    BY <1>2
  <2>3. /\ [files[f] EXCEPT !.status = "deleted"] \in File
        /\ [files[f] EXCEPT !.status = "deleted"].kind = files[f].kind
    BY <2>2 DEF File
  <2> QED BY <1>1, <2>2, <2>3
<1>4. files' \in [1..Len(files) -> File]
  BY <1>1, <1>2, <1>3
<1>5. files' \in Seq(File) /\ DOMAIN files' = DOMAIN files
  BY <1>2, <1>4
<1>6. \A f \in DOMAIN files : ~Prunable(f) => files'[f] = files[f]
  BY <1>1
<1> QED BY <1>3, <1>5, <1>6

(* Every step keeps the types, what the nightly has not applied and a full file. *)
LEMMA NightStepTyped == NightInv /\ [Next]_vars => NightInv'
<1> SUFFICES ASSUME NightInv, [Next]_vars PROVE NightInv'
  OBVIOUS
<1>0. TypeOK /\ UnappliedKept
  BY DEF NightInv
<1> USE DEF history
<1>1. CASE NextDay
  <2>1. TypeOK'
    BY <1>0, <1>1, NightAssumption DEF NextDay, TypeOK, Days
  <2> QED BY <2>1, <1>0, <1>1 DEF NextDay, NightInv, UnappliedKept, Downloaded, Pending
<1>2. ASSUME NEW s \in Securities, NEW d \in Dates, NEW lag \in 0..MaxLag, NEW ok \in Validity,
             Publish(s, d, lag, ok)
      PROVE  NightInv'
  <2>1. day - lag \in Days /\ revs' \in 0..MaxRev /\ revs' \in Nat /\ ok \in BOOLEAN
    BY <1>0, <1>2, NightAssumption DEF Publish, TypeOK, Days
  <2>2. vendor' \in Table
    <3>1. [stamp |-> day - lag, rev |-> revs', ok |-> ok] \in Row
      BY <2>1 DEF Row
    <3>2. vendor' = [vendor EXCEPT ![<<s, d>>] = [stamp |-> day - lag, rev |-> revs', ok |-> ok]]
      BY <1>2 DEF Publish
    <3> QED BY <1>0, <3>1, <3>2 DEF TypeOK, Table
  <2>3. TypeOK'
    BY <1>0, <1>2, <2>1, <2>2 DEF Publish, TypeOK
  <2> QED BY <2>3, <1>0, <1>2 DEF Publish, NightInv, UnappliedKept, Downloaded, Pending
<1>3. ASSUME Keeps(files, files'), step' # "applying", step' \in Steps, seen' \in Table, seenOn' \in Days,
             UNCHANGED <<day, revs, vendor, stored, fed, universeRun, through, night>>
      PROVE  NightInv'
  <2>1. TypeOK'
    BY <1>0, <1>3 DEF TypeOK, Keeps
  <2>2. UnappliedKept'
    BY <1>0, <1>3 DEF UnappliedKept, Keeps, Downloaded, Pending
  <2> QED BY <2>1, <2>2, <1>3 DEF NightInv
<1>4. CASE FetchDelta
  <2>1. /\ step' = "universe" /\ seen' = vendor /\ seenOn' = day
        /\ UNCHANGED <<day, revs, vendor, stored, fed, universeRun, through, night>>
    BY <1>4 DEF FetchDelta
  <2>2. Keeps(files, files')
    BY <1>4, FetchKeeps
  <2>3. step' # "applying" /\ step' \in Steps /\ seen' \in Table /\ seenOn' \in Days
    BY <1>0, <2>1 DEF TypeOK, Steps
  <2> QED BY <1>3, <2>1, <2>2, <2>3
<1>5. CASE DownloadFull
  <2>1. UNCHANGED <<day, revs, vendor, stored, fed, universeRun, through, step, night, history>>
    BY <1>5 DEF DownloadFull
  <2>2. step = "idle"
    BY <1>5 DEF DownloadFull
  <2>3. Keeps(files, files')
    BY <1>5, FullKeeps
  <2>4. step' # "applying" /\ step' \in Steps /\ seen' \in Table /\ seenOn' \in Days
    BY <1>0, <2>1, <2>2 DEF TypeOK, Steps
  <2> QED BY <1>3, <2>1, <2>3, <2>4
<1>6. CASE Universe
  <2>1. fed' \subseteq Securities /\ universeRun' = day /\ step' = "prices"
    BY <1>0, <1>6 DEF Universe, TypeOK
  <2>2. TypeOK'
    BY <1>0, <1>6, <2>1 DEF Universe, TypeOK, Steps
  <2> QED BY <2>1, <2>2, <1>0, <1>6 DEF Universe, NightInv, UnappliedKept, Downloaded, Pending
<1>7. ASSUME NEW targets \in SUBSET Securities, NEW narrow \in BOOLEAN, StartNightly(targets, narrow)
      PROVE  NightInv'
  <2>1. night' = [todo |-> targets, fresh |-> {s \in targets : Fresh(s)}, pend |-> Pending,
                  to |-> IF narrow THEN through ELSE Max(Pending \cup {through}),
                  quar |-> FALSE, narrow |-> narrow]
    BY <1>7 DEF StartNightly
  <2>2. night'.to \in Nat /\ night'.to >= through
    <3>1. through \in Nat
      BY <1>0 DEF TypeOK
    <3>2. night'.to = IF narrow THEN through ELSE Max(Pending \cup {through})
      BY <2>1
    <3>3. CASE narrow
      BY <3>1, <3>2, <3>3
    <3>4. CASE ~narrow
      BY <1>0, <3>2, <3>4, MarkMovesOn
    <3> QED BY <3>3, <3>4
  <2>3. Pending \subseteq DOMAIN files
    BY DEF Pending, Downloaded
  <2>4. night' \in [todo : SUBSET Securities, fresh : SUBSET Securities,
                    pend : SUBSET (DOMAIN files), to : Nat, quar : BOOLEAN, narrow : BOOLEAN]
    BY <2>1, <2>2, <2>3
  <2>5. TypeOK'
    BY <1>0, <1>7, <2>4 DEF StartNightly, TypeOK, Steps
  <2> QED BY <2>2, <2>5, <1>0, <1>7 DEF StartNightly, NightInv, UnappliedKept, Downloaded, Pending
<1>8. ASSUME NEW s \in Securities, ApplySecurity(s)
      PROVE  NightInv'
  <2> DEFINE row(d) == Merged(<<s, d>>, ReadFor(s))
  <2>1. stored' \in [Bars -> Nat \cup {NoRow, Other}]
    <3>1. \A d \in Dates : row(d) \in Row \cup {NoRow}
      <4>1. ReadFor(s) \subseteq DOMAIN files
        BY <1>0 DEF ReadFor, Downloaded, TypeOK
      <4>2. \A d \in Dates : <<s, d>> \in Bars
        BY DEF Bars
      <4> QED BY <1>0, <4>1, <4>2, MergedIsRow
    <3>2. stored' = [b \in Bars |->
                       IF b[1] = s /\ row(b[2]) # NoRow /\ row(b[2]).ok /\ stored[<<s, b[2]>>] # Other
                       THEN row(b[2]).rev ELSE stored[b]]
      BY <1>8 DEF ApplySecurity
    <3>3. \A d \in Dates : row(d) # NoRow => row(d).rev \in Nat
      BY <3>1 DEF Row
    <3>4. \A b \in Bars : b[2] \in Dates
      BY DEF Bars
    <3> HIDE DEF row
    <3> QED BY <1>0, <3>2, <3>3, <3>4 DEF TypeOK
  <2>2. night' = [night EXCEPT !.todo = night.todo \ {s},
                    !.quar = night.quar \/ \E d \in Dates : row(d) # NoRow /\ ~row(d).ok]
    BY <1>8 DEF ApplySecurity
  <2>3. /\ night' \in [todo : SUBSET Securities, fresh : SUBSET Securities,
                       pend : SUBSET (DOMAIN files), to : Nat, quar : BOOLEAN, narrow : BOOLEAN]
        /\ night'.to = night.to
    <3> HIDE DEF row
    <3>1. night \in [todo : SUBSET Securities, fresh : SUBSET Securities,
                     pend : SUBSET (DOMAIN files), to : Nat, quar : BOOLEAN, narrow : BOOLEAN]
      BY <1>0 DEF TypeOK
    <3>2. (night.quar \/ \E d \in Dates : row(d) # NoRow /\ ~row(d).ok) \in BOOLEAN
      OBVIOUS
    <3> QED BY <2>2, <3>1, <3>2
  <2>4. UNCHANGED <<day, revs, vendor, files, fed, universeRun, through, step, history>>
    BY <1>8 DEF ApplySecurity
  <2>5. TypeOK'
    BY <1>0, <2>1, <2>3, <2>4 DEF TypeOK
  <2> QED BY <2>3, <2>4, <2>5 DEF NightInv, UnappliedKept, Downloaded, Pending
<1>9. CASE EndNightly
  <2>1. through' \in Nat /\ through' >= through /\ step' \in {"idle", "prune"}
    BY <1>9 DEF EndNightly, NightInv, TypeOK
  <2>2. night' = NoNight /\ UNCHANGED <<day, revs, vendor, files, stored, fed, universeRun, history>>
    BY <1>9 DEF EndNightly
  <2>3. TypeOK'
    BY <1>0, <2>1, <2>2 DEF TypeOK, Steps, NoNight
  <2>4. UnappliedKept'
    BY <1>0, <2>1, <2>2 DEF UnappliedKept, Downloaded, Pending, TypeOK
  <2> QED BY <2>1, <2>3, <2>4 DEF NightInv
<1>10. CASE Prune
  <2>1. /\ files' \in Seq(File) /\ DOMAIN files' = DOMAIN files
        /\ \A f \in DOMAIN files : /\ files'[f].kind = files[f].kind
                                   /\ ~Prunable(f) => files'[f] = files[f]
    BY <1>10, PruneKeeps
  <2>2. step' = "idle" /\ UNCHANGED <<day, revs, vendor, stored, fed, universeRun, through, night, history>>
    BY <1>10 DEF Prune
  <2>3. TypeOK'
    BY <1>0, <2>1, <2>2 DEF TypeOK, Steps
  <2>4. \A f \in DOMAIN files : (files[f].kind = "delta" /\ f > through) => ~Prunable(f)
    <3>1. TAKE f \in DOMAIN files
    <3>2. HAVE files[f].kind = "delta" /\ f > through
    <3>3. f \in Nat /\ through \in Nat
      BY <1>0 DEF TypeOK
    <3> QED BY <3>2, <3>3 DEF Prunable
  <2>5. ~Prunable(CurrentFull) /\ CurrentFull \in Downloaded("full")
    <3>1. CurrentFull \in Downloaded("full")
      BY <1>0, CurrentIsDownloaded DEF UnappliedKept
    <3>2. files[CurrentFull].kind = "full"
      BY <3>1 DEF Downloaded
    <3> QED BY <3>1, <3>2 DEF Prunable
  <2>6. UnappliedKept'
    BY <1>0, <2>1, <2>2, <2>4, <2>5 DEF UnappliedKept, Downloaded, Pending
  <2> QED BY <2>2, <2>3, <2>6 DEF NightInv
<1>11. CASE Stop
  <2>1. TypeOK'
    BY <1>0, <1>11 DEF Stop, TypeOK, Steps, NoNight
  <2> QED BY <2>1, <1>0, <1>11 DEF Stop, NightInv, UnappliedKept, Downloaded, Pending
<1>12. CASE UNCHANGED vars
  <2>1. TypeOK'
    BY <1>0, <1>12 DEF vars, TypeOK
  <2> QED BY <2>1, <1>0, <1>12 DEF vars, NightInv, UnappliedKept, Downloaded, Pending
<1>13. CASE StartNightly(fed, FALSE)
  BY <1>0, <1>7, <1>13 DEF TypeOK
<1>14. ASSUME NEW targets \in SUBSET fed \ {{}}, StartNightly(targets, TRUE)
       PROVE  NightInv'
  <2>1. targets \in SUBSET Securities
    BY <1>0 DEF TypeOK
  <2> QED BY <1>7, <1>14, <2>1
<1> QED BY <1>1, <1>2, <1>4, <1>5, <1>6, <1>8, <1>9, <1>10, <1>11, <1>12, <1>13, <1>14
       DEF Next, SharadarBulk, SharadarDelta, SharadarPrune, IngestSharadarPrices

(* Every variable keeps its type, for any number of securities, days and versions: the *)
(* merge of the deltas always yields a version of the bar, or none.                     *)
THEOREM TypeCorrect == Spec => []TypeOK
<1>1. NightInv => TypeOK
  BY DEF NightInv
<1> QED BY <1>1, InitNight, NightStepTyped, PTL DEF Spec

(* Whatever fails, is run again or is run for some securities only, the prune takes no  *)
(* delta the nightly has not applied, and a current full file stays: the mark of the    *)
(* last night never moves back, and the prune reads it and the ledger as they are.      *)
THEOREM UnappliedIsKept == Spec => []UnappliedKept
<1>1. NightInv => UnappliedKept
  BY DEF NightInv
<1> QED BY <1>1, InitNight, NightStepTyped, PTL DEF Spec

-----------------------------------------------------------------------------
(* Nothing published is lost: the invariant *)

\* The version x came before y, or is y.
Precedes(x, y) ==
  /\ y # NoRow /\ x.rev <= y.rev /\ x.stamp <= y.stamp
  /\ x.rev = y.rev => x = y

Delta(f) == f \in DOMAIN files /\ files[f].kind = "delta"

\* The vendor's versions only move on, and the deltas hold them in the order recorded.
Versions ==
  /\ \A b \in Bars : seen[b] # NoRow => Precedes(seen[b], vendor[b])
  /\ \A f \in DOMAIN files, b \in Bars :
       (Delta(f) /\ files[f].rows[b] # NoRow) => Precedes(files[f].rows[b], seen[b])
  /\ \A f, g \in DOMAIN files, b \in Bars :
       (Delta(f) /\ Delta(g) /\ f < g /\ files[f].rows[b] # NoRow /\ files[g].rows[b] # NoRow)
         => Precedes(files[f].rows[b], files[g].rows[b])
  /\ \A b \in Bars : vendor[b] # NoRow => vendor[b].rev <= revs

\* What was published since the last delta is stamped no more than MaxLag days before
\* it, and no file is fetched more than FullGap days after it.
AskedFor ==
  /\ seenOn <= day
  /\ \A b \in Bars : vendor[b] # seen[b] => vendor[b].stamp >= seenOn - MaxLag
  /\ \A f \in DOMAIN files : files[f].fetched <= seenOn + FullGap

\* The version last served is stored, unless it was refused or the date is another's.
Settled(b) == (seen[b] # NoRow /\ seen[b].ok /\ stored[b] # Other) => stored[b] = seen[b].rev

\* ... or a delta yet to be applied holds it.
Due(b) ==
  \/ seen[b] # NoRow /\ \E f \in Pending : files[f].rows[b] = seen[b]
  \/ Settled(b) /\ \A f \in Pending : files[f].rows[b] = NoRow

FedInv ==
  /\ \A s \in Securities : Backfilled(s) => s \in fed
  /\ \A s \in Securities, d \in Dates : Backfilled(s) => Due(<<s, d>>)

\* A price step in flight has read the pending deltas, and leaves a security settled.
Applying ==
  /\ night.pend = Pending /\ night.to <= Len(files)
  /\ night.narrow => night.to = through
  /\ ~night.narrow => \A f \in Pending : f <= night.to
  /\ \A s \in night.todo \cap night.fresh : Fresh(s)
  /\ ~night.narrow =>
       \A s \in fed : Backfilled(s) => s \in night.todo \/ \A d \in Dates : Settled(<<s, d>>)

Marks == through <= Len(files) /\ (step = "applying" => Applying)

CaughtInv == NightInv /\ Versions /\ AskedFor /\ FedInv /\ Marks

-----------------------------------------------------------------------------
(* Rows and files *)

LEMMA RowsOf ==
  ASSUME TypeOK
  PROVE  /\ \A f \in DOMAIN files : files[f] \in File /\ f \in Nat /\ f <= Len(files)
         /\ \A f \in DOMAIN files, b \in Bars : files[f].rows[b] \in Row \cup {NoRow}
         /\ \A b \in Bars : vendor[b] \in Row \cup {NoRow} /\ seen[b] \in Row \cup {NoRow}
         /\ \A r \in Row : r.rev \in Nat /\ r.stamp \in Nat /\ r.ok \in BOOLEAN /\ r # NoRow
         /\ Len(files) \in Nat
<1>1. \A f \in DOMAIN files : files[f] \in File /\ f \in Nat /\ f <= Len(files)
  BY DEF TypeOK
<1>2. \A f \in DOMAIN files : files[f].rows \in Table
  BY <1>1 DEF File
<1>3. \A r \in Row : r.rev \in Nat /\ r.stamp \in Nat /\ r.ok \in BOOLEAN /\ r # NoRow
  BY NightAssumption DEF Row, Days
<1> QED BY <1>1, <1>2, <1>3 DEF TypeOK, Table

LEMMA PrecedesTransitive ==
  ASSUME NEW x \in Row, NEW y \in Row \cup {NoRow}, NEW z \in Row \cup {NoRow},
         Precedes(x, y), Precedes(y, z)
  PROVE  Precedes(x, z)
<1>1. y \in Row /\ z \in Row
  BY DEF Precedes
<1>2. /\ x.rev \in Nat /\ y.rev \in Nat /\ z.rev \in Nat
      /\ x.stamp \in Nat /\ y.stamp \in Nat /\ z.stamp \in Nat
  BY <1>1 DEF Row, Days
<1> QED BY <1>2 DEF Precedes

LEMMA PrecedesItself ==
  ASSUME NEW x \in Row PROVE Precedes(x, x)
<1>1. x # NoRow /\ x.rev \in Nat /\ x.stamp \in Nat
  BY NightAssumption DEF Row, Days
<1> QED BY <1>1 DEF Precedes

LEMMA FilesNotEmpty == NightInv => 1 \in DOMAIN files
<1> SUFFICES ASSUME NightInv PROVE 1 \in DOMAIN files
  OBVIOUS
<1>1. PICK f \in DOMAIN files : TRUE
  BY DEF NightInv, UnappliedKept, Downloaded
<1> QED BY <1>1 DEF NightInv, TypeOK

\* The newest file is one of the ledger.
LEMMA NewestIsFile ==
  ASSUME NightInv
  PROVE  FetchedLast(DOMAIN files) \in DOMAIN files
<1> DEFINE D == DOMAIN files
           stamp == [f \in D |-> files[f].fetched]
<1>1. D \subseteq 0..Len(files) /\ Len(files) \in Nat /\ D # {}
  BY FilesNotEmpty DEF NightInv, TypeOK
<1>2. stamp \in [D -> 0..LastDay]
  BY RowsOf DEF NightInv, File, Days
<1>3. \E f \in D : \A g \in D : stamp[g] < stamp[f] \/ (stamp[g] = stamp[f] /\ g <= f)
  <2> HIDE DEF D, stamp
  <2> QED BY <1>1, <1>2, NightAssumption, LastByStamp
<1>4. \E f \in D : \A g \in D : \/ files[g].fetched < files[f].fetched
                                \/ files[g].fetched = files[f].fetched /\ g <= f
  BY <1>3
<1> HIDE DEF D
<1>5. FetchedLast(D) \in D
  BY <1>4, Zenon DEF FetchedLast
<1> QED BY <1>5 DEF D

\* merged_rows picks a version that no other is stamped after, on one stamp the last file's.
LEMMA MergedPicks ==
  ASSUME TypeOK, NEW b \in Bars, NEW ids, ids \subseteq DOMAIN files
  PROVE  LET H == {f \in ids : files[f].rows[b] # NoRow}
         IN /\ H = {} => Merged(b, ids) = NoRow
            /\ H # {} => \E c \in H :
                 /\ Merged(b, ids) = files[c].rows[b]
                 /\ \A g \in H : \/ files[g].rows[b].stamp < files[c].rows[b].stamp
                                 \/ files[g].rows[b].stamp = files[c].rows[b].stamp /\ g <= c
<1> DEFINE H == {f \in ids : files[f].rows[b] # NoRow}
           stamp == [f \in H |-> files[f].rows[b].stamp]
<1>1. \A f \in H : files[f].rows[b] \in Row
  BY RowsOf
<1>2. H \subseteq 0..Len(files) /\ Len(files) \in Nat
  BY RowsOf
<1>3. stamp \in [H -> 0..LastDay]
  BY <1>1 DEF Row, Days
<1>4. CASE H = {}
  BY <1>4 DEF Merged
<1>5. CASE H # {}
  <2>1. \E f \in H : \A g \in H : stamp[g] < stamp[f] \/ (stamp[g] = stamp[f] /\ g <= f)
    <3> HIDE DEF H, stamp
    <3> QED BY <1>2, <1>3, <1>5, NightAssumption, LastByStamp
  <2>2. \E f \in H : \A g \in H :
          \/ files[g].rows[b].stamp < files[f].rows[b].stamp
          \/ files[g].rows[b].stamp = files[f].rows[b].stamp /\ g <= f
    BY <2>1
  <2> DEFINE c == CHOOSE f \in H : \A g \in H :
                    \/ files[g].rows[b].stamp < files[f].rows[b].stamp
                    \/ (files[g].rows[b].stamp = files[f].rows[b].stamp /\ g <= f)
  <2>3. c \in H /\ \A g \in H : \/ files[g].rows[b].stamp < files[c].rows[b].stamp
                                \/ files[g].rows[b].stamp = files[c].rows[b].stamp /\ g <= c
    <3> HIDE DEF H
    <3> QED BY <2>2, Zenon
  <2>4. Merged(b, ids) = files[c].rows[b]
    BY <1>5, Zenon DEF Merged
  <2> HIDE DEF c
  <2> QED BY <1>5, <2>3, <2>4
<1> QED BY <1>4, <1>5

\* Deltas that hold the version last served merge to it, whatever older ones they hold.
LEMMA MergedIsSeen ==
  ASSUME TypeOK, Versions, NEW b \in Bars, NEW ids, \A f \in ids : Delta(f),
         NEW f \in ids, files[f].rows[b] = seen[b], seen[b] # NoRow
  PROVE  Merged(b, ids) = seen[b]
<1> DEFINE H == {g \in ids : files[g].rows[b] # NoRow}
<1>1. ids \subseteq DOMAIN files /\ f \in H
  BY DEF Delta
<1>2. PICK c \in H : /\ Merged(b, ids) = files[c].rows[b]
                     /\ \A g \in H : \/ files[g].rows[b].stamp < files[c].rows[b].stamp
                                     \/ files[g].rows[b].stamp = files[c].rows[b].stamp /\ g <= c
  BY <1>1, MergedPicks
<1>3. files[c].rows[b] \in Row /\ seen[b] \in Row /\ c \in Nat /\ f \in Nat
  BY <1>1, RowsOf
<1>4. Precedes(files[c].rows[b], seen[b])
  BY <1>1 DEF Versions
<1>5. f < c => Precedes(seen[b], files[c].rows[b])
  BY <1>1 DEF Versions
<1>6. /\ files[c].rows[b].rev \in Nat /\ seen[b].rev \in Nat
      /\ files[c].rows[b].stamp \in Nat /\ seen[b].stamp \in Nat
  BY <1>3, RowsOf
<1>7. f <= c
  BY <1>1, <1>2, <1>3, <1>4, <1>6 DEF Precedes
<1>8. CASE f = c
  BY <1>2, <1>8
<1>9. CASE f < c
  BY <1>2, <1>4, <1>5, <1>6, <1>9 DEF Precedes
<1> QED BY <1>3, <1>7, <1>8, <1>9

\* What recording a file leaves of the ledger.
LEMMA RecordedCarries ==
  ASSUME TypeOK, NEW kind \in {"full", "delta"}, NEW rows \in Table
  PROVE  LET rec == Recorded(kind, rows)
         IN /\ \A f \in DOMAIN files :
                 /\ f \in DOMAIN rec
                 /\ rec[f].kind = files[f].kind /\ rec[f].rows = files[f].rows
                 /\ rec[f].fetched = files[f].fetched
                 /\ files[f].kind # kind => rec[f] = files[f]
            /\ \A f \in DOMAIN rec \ DOMAIN files :
                 /\ Held(kind, rows) = {} /\ f = Len(files) + 1
                 /\ rec[f].kind = kind /\ rec[f].rows = rows /\ rec[f].fetched = day
                 /\ rec[f].status = "downloaded"
            /\ Held(kind, rows) = {} =>
                 Len(files) + 1 \in DOMAIN rec /\ \A f \in DOMAIN files : rec[f] = files[f]
            /\ rec \in Seq(File) /\ Len(files) <= Len(rec)
<1> DEFINE new == [kind |-> kind, rows |-> rows, fetched |-> day, status |-> "downloaded"]
           held == Held(kind, rows)
           rec == Recorded(kind, rows)
<1>1. files \in Seq(File) /\ Len(files) \in Nat /\ DOMAIN files = 1..Len(files)
  BY DEF TypeOK
<1>2. new \in File
  BY DEF File, TypeOK
<1>3. held \subseteq DOMAIN files /\ \A f \in held : files[f].kind = kind
  BY DEF Held
<1>4. CASE held = {}
  <2>1. rec = Append(files, new)
    BY <1>4 DEF Recorded
  <2>2. /\ rec \in Seq(File) /\ Len(rec) = Len(files) + 1 /\ DOMAIN rec = 1..(Len(files) + 1)
        /\ \A f \in 1..Len(files) : rec[f] = files[f]
        /\ rec[Len(files) + 1] = new
    BY <1>1, <1>2, <2>1
  <2> HIDE DEF rec
  <2>3. \A f \in DOMAIN rec \ DOMAIN files : f = Len(files) + 1
    BY <1>1, <2>2
  <2>4. new.kind = kind /\ new.rows = rows /\ new.fetched = day /\ new.status = "downloaded"
    OBVIOUS
  <2> HIDE DEF new
  <2> QED BY <1>1, <1>4, <2>2, <2>3, <2>4 DEF rec
<1>5. CASE held # {}
  <2>1. rec = [f \in DOMAIN files |->
                 IF f \in held THEN [files[f] EXCEPT !.status = "downloaded"] ELSE files[f]]
    BY <1>5 DEF Recorded
  <2>2. \A f \in DOMAIN files : files[f] \in File
    BY <1>1
  <2>3. \A f \in DOMAIN files : LET g == [files[f] EXCEPT !.status = "downloaded"] IN
          /\ g \in File /\ g.kind = files[f].kind /\ g.rows = files[f].rows
          /\ g.fetched = files[f].fetched
    BY <2>2 DEF File
  <2>4. DOMAIN rec = DOMAIN files
    BY <2>1
  <2>5. \A f \in DOMAIN files :
          /\ rec[f] \in File /\ rec[f].kind = files[f].kind /\ rec[f].rows = files[f].rows
          /\ rec[f].fetched = files[f].fetched
          /\ files[f].kind # kind => rec[f] = files[f]
    BY <1>3, <2>1, <2>2, <2>3
  <2>6. rec \in Seq(File) /\ Len(rec) = Len(files)
    <3>1. rec \in [1..Len(files) -> File]
      BY <1>1, <2>1, <2>4, <2>5
    <3> QED BY <1>1, <3>1
  <2> HIDE DEF rec
  <2> QED BY <1>1, <1>5, <2>4, <2>5, <2>6 DEF rec
<1> QED BY <1>4, <1>5

-----------------------------------------------------------------------------
(* Nothing published is lost: steps that carry the ledger along *)

\* The files keep their rows; the deltas their standing with the nightly; what comes in
\* is full.
Carried ==
  /\ \A f \in DOMAIN files :
       /\ f \in DOMAIN files'
       /\ files'[f].kind = files[f].kind /\ files'[f].rows = files[f].rows
       /\ files'[f].fetched = files[f].fetched
  /\ \A f \in DOMAIN files' \ DOMAIN files : files'[f].kind = "full" /\ files'[f].fetched = day
  /\ Len(files) <= Len(files')
  /\ through' = through /\ Pending' = Pending

LEMMA SameFilesCarried == files' = files /\ through' = through /\ TypeOK => Carried
BY DEF Carried, Pending, Downloaded, TypeOK

LEMMA FullCarried == NightInv /\ DownloadFull => Carried
<1> SUFFICES ASSUME NightInv, DownloadFull PROVE Carried
  OBVIOUS
<1> DEFINE rec == Recorded("full", vendor)
           id == RecordedId("full", vendor)
<1>1. vendor \in Table /\ TypeOK
  BY DEF NightInv, TypeOK
<1>2. files' = [f \in DOMAIN rec |->
                  IF f # id /\ f \in Downloaded("full")
                  THEN [files[f] EXCEPT !.status = "superseded"] ELSE rec[f]]
  BY DEF DownloadFull
<1>3. /\ \A f \in DOMAIN files :
           /\ f \in DOMAIN rec
           /\ rec[f].kind = files[f].kind /\ rec[f].rows = files[f].rows
           /\ rec[f].fetched = files[f].fetched
           /\ files[f].kind # "full" => rec[f] = files[f]
      /\ \A f \in DOMAIN rec \ DOMAIN files : rec[f].kind = "full" /\ rec[f].fetched = day
      /\ rec \in Seq(File) /\ Len(files) <= Len(rec)
  BY <1>1, RecordedCarries
<1> HIDE DEF rec, id
<1>4. \A f \in Downloaded("full") : LET g == [files[f] EXCEPT !.status = "superseded"] IN
        /\ f \in DOMAIN files /\ files[f].kind = "full"
        /\ g.kind = files[f].kind /\ g.rows = files[f].rows /\ g.fetched = files[f].fetched
  BY <1>1, RowsOf DEF Downloaded, File
<1>5. DOMAIN files' = DOMAIN rec
  BY <1>2
<1>6. \A f \in DOMAIN files :
        /\ files'[f].kind = files[f].kind /\ files'[f].rows = files[f].rows
        /\ files'[f].fetched = files[f].fetched
        /\ files[f].kind = "delta" => files'[f] = files[f]
  BY <1>2, <1>3, <1>4
<1>7. \A f \in DOMAIN rec \ DOMAIN files : files'[f] = rec[f]
  BY <1>2, <1>4
<1>8. through' = through
  BY DEF DownloadFull
<1>9. Pending' = Pending
  BY <1>3, <1>5, <1>6, <1>7, <1>8 DEF Pending, Downloaded
<1>10. Len(files) <= Len(files')
  <2>1. Len(rec) \in Nat /\ DOMAIN rec = 1..Len(rec)
    BY <1>3
  <2> QED BY <1>2, <1>3, <1>5, <2>1
<1> QED BY <1>3, <1>5, <1>6, <1>7, <1>8, <1>9, <1>10 DEF Carried

LEMMA PruneCarried == NightInv /\ Prune => Carried
<1> SUFFICES ASSUME NightInv, Prune PROVE Carried
  OBVIOUS
<1>1. PICK last \in 0..Len(files) :
        files' = [f \in DOMAIN files |->
                    IF f \in {g \in 1..last : Prunable(g)}
                    THEN [files[f] EXCEPT !.status = "deleted"] ELSE files[f]]
  BY DEF Prune
<1>2. \A f \in DOMAIN files : LET g == [files[f] EXCEPT !.status = "deleted"] IN
        /\ g.kind = files[f].kind /\ g.rows = files[f].rows /\ g.fetched = files[f].fetched
        /\ g.status = "deleted"
  BY RowsOf DEF NightInv, File
<1>3. DOMAIN files' = DOMAIN files
  BY <1>1
<1>4. \A f \in DOMAIN files :
        /\ files'[f].kind = files[f].kind /\ files'[f].rows = files[f].rows
        /\ files'[f].fetched = files[f].fetched
        /\ files'[f] = files[f] \/ (files'[f].status = "deleted" /\ Prunable(f))
  BY <1>1, <1>2
<1>5. through' = through
  BY DEF Prune
<1>6. \A f \in DOMAIN files : (files[f].kind = "delta" /\ f > through) => ~Prunable(f)
  <2>1. TAKE f \in DOMAIN files
  <2>2. HAVE files[f].kind = "delta" /\ f > through
  <2>3. f \in Nat /\ through \in Nat
    BY DEF NightInv, TypeOK
  <2> QED BY <2>2, <2>3 DEF Prunable
<1>7. Pending' = Pending
  BY <1>3, <1>4, <1>5, <1>6 DEF Pending, Downloaded
<1>8. Len(files') = Len(files)
  BY PruneKeeps, <1>3 DEF NightInv, TypeOK
<1> QED BY <1>3, <1>4, <1>5, <1>7, <1>8, RowsOf DEF Carried, NightInv

LEMMA CarriedVersions ==
  ASSUME NightInv, Versions, Carried, UNCHANGED <<vendor, seen, revs>>
  PROVE  Versions'
<1>1. \A f \in DOMAIN files' :
        Delta(f)' => f \in DOMAIN files /\ Delta(f) /\ files'[f].rows = files[f].rows
  BY DEF Carried, Delta
<1> QED BY <1>1 DEF Versions

LEMMA CarriedAsked ==
  ASSUME NightInv, AskedFor, Carried, UNCHANGED <<vendor, seen, seenOn>>,
         day' \in Int, day <= day', files' = files \/ day <= seenOn + FullGap
  PROVE  AskedFor'
<1>1. day \in Int /\ seenOn \in Int /\ FullGap \in Int
  BY NightAssumption DEF NightInv, TypeOK, Days
<1>2. \A f \in DOMAIN files' : files'[f].fetched <= seenOn + FullGap
  BY <1>1 DEF Carried, AskedFor
<1> QED BY <1>1, <1>2 DEF AskedFor

LEMMA CarriedFed ==
  ASSUME NightInv, FedInv, Carried, UNCHANGED <<seen, stored>>, fed \subseteq fed'
  PROVE  FedInv'
<1>1. 1 \in DOMAIN files
  BY FilesNotEmpty
<1>2. \A s \in Securities : Backfilled(s)' <=> Backfilled(s)
  BY <1>1 DEF Carried, Backfilled
<1>3. \A f \in Pending : f \in DOMAIN files
  BY DEF Pending, Downloaded
<1>4. \A b \in Bars : Settled(b)' <=> Settled(b)
  BY DEF Settled
<1>5. \A b \in Bars : Due(b) => Due(b)'
  BY <1>3, <1>4 DEF Due, Carried
<1>6. \A s \in Securities, d \in Dates : <<s, d>> \in Bars
  BY DEF Bars
<1> QED BY <1>2, <1>5, <1>6 DEF FedInv

LEMMA CarriedMarks ==
  ASSUME NightInv, Marks, Carried, step' # "applying", Len(files') \in Nat
  PROVE  Marks'
<1>1. through \in Nat /\ Len(files) \in Nat
  BY DEF NightInv, TypeOK
<1> QED BY <1>1 DEF Carried, Marks

-----------------------------------------------------------------------------
(* Nothing published is lost: the delta *)

\* A delta that was not held: everything that changed since the last is in it.
NewDelta(n) ==
  /\ n = Len(files) + 1 /\ n \in DOMAIN files' /\ Len(files') = n
  /\ \A f \in DOMAIN files' : f = n \/ f \in DOMAIN files
  /\ \A f \in DOMAIN files : f \in DOMAIN files' /\ files'[f] = files[f]
  /\ files'[n].kind = "delta" /\ files'[n].fetched = day /\ files'[n].status = "downloaded"
  /\ \A b \in Bars : files'[n].rows[b] \in {NoRow, vendor[b]}
  /\ \A b \in Bars : vendor[b] # seen[b] => files'[n].rows[b] = vendor[b]

\* The delta begins early enough: what changed since the last one is in it.
LEMMA SinceCoversChanges ==
  ASSUME MaxLag + FullGap <= Overlap, CaughtInv, NEW b \in Bars, vendor[b] # seen[b]
  PROVE  vendor[b] # NoRow /\ vendor[b].stamp >= Since
<1>1. vendor[b] # NoRow
  BY DEF CaughtInv, Versions, Precedes
<1>2. vendor[b].stamp \in Nat
  BY <1>1, RowsOf DEF CaughtInv, NightInv
<1>3. vendor[b].stamp >= seenOn - MaxLag
  BY DEF CaughtInv, AskedFor
<1> DEFINE f == FetchedLast(DOMAIN files)
<1>4. f \in DOMAIN files
  BY NewestIsFile DEF CaughtInv
<1> HIDE DEF f
<1>5. files[f].fetched <= seenOn + FullGap /\ files[f].fetched \in Int
  BY <1>4, RowsOf DEF CaughtInv, AskedFor, NightInv, File, Days
<1>6. Since = files[f].fetched - Overlap
  BY DEF Since, f
<1>7. seenOn \in Int /\ MaxLag \in Int /\ FullGap \in Int /\ Overlap \in Int
  BY NightAssumption DEF CaughtInv, NightInv, TypeOK, Days
<1> QED BY <1>1, <1>2, <1>3, <1>5, <1>6, <1>7

LEMMA FetchesAll ==
  ASSUME MaxLag + FullGap <= Overlap, CaughtInv, FetchDelta
  PROVE  (Carried /\ seen' = seen) \/ NewDelta(Len(files) + 1)
<1> DEFINE rows == [b \in Bars |-> IF vendor[b] # NoRow /\ vendor[b].stamp >= Since
                                   THEN vendor[b] ELSE NoRow]
<1>1. TypeOK /\ NightInv
  BY DEF CaughtInv, NightInv
<1>2. rows \in Table
  BY <1>1 DEF TypeOK, Table
<1>3. \A b \in Bars : rows[b] \in {NoRow, vendor[b]}
  OBVIOUS
<1>4. \A b \in Bars : vendor[b] # seen[b] => rows[b] = vendor[b] /\ vendor[b] # NoRow
  BY SinceCoversChanges
<1>5. /\ IF \A b \in Bars : rows[b] = NoRow THEN files' = files
         ELSE files' = Recorded("delta", rows)
      /\ seen' = vendor /\ through' = through /\ vendor' = vendor
  BY DEF FetchDelta
<1> HIDE DEF rows
<1>6. ASSUME \A b \in Bars : vendor[b] = seen[b] PROVE seen' = seen
  BY <1>1, <1>5, <1>6 DEF TypeOK, Table
<1>7. CASE \A b \in Bars : rows[b] = NoRow
  <2>1. files' = files
    BY <1>5, <1>7
  <2>2. \A b \in Bars : vendor[b] = seen[b]
    BY <1>4, <1>7
  <2> QED BY <1>1, <1>5, <1>6, <2>1, <2>2, SameFilesCarried
<1>8. CASE files' = Recorded("delta", rows) /\ Held("delta", rows) # {}
  <2>1. PICK h \in DOMAIN files : files[h].kind = "delta" /\ files[h].rows = rows
    BY <1>8 DEF Held
  <2>2. ASSUME NEW b \in Bars PROVE vendor[b] = seen[b]
    <3>1. CASE rows[b] = NoRow
      BY <1>4, <3>1
    <3>2. CASE rows[b] # NoRow
      <4>1. rows[b] = vendor[b] /\ vendor[b] # NoRow
        BY <1>3, <3>2
      <4>2. Precedes(vendor[b], seen[b])
        BY <2>1, <3>2, <4>1 DEF CaughtInv, Versions, Delta
      <4>3. Precedes(seen[b], vendor[b])
        BY <4>2 DEF CaughtInv, Versions, Precedes
      <4>4. seen[b].rev \in Nat /\ vendor[b].rev \in Nat
        BY <1>1, <4>1, <4>2, RowsOf DEF Precedes
      <4> QED BY <4>2, <4>3, <4>4 DEF Precedes
    <3> QED BY <3>1, <3>2
  <2>3. /\ \A f \in DOMAIN files :
             /\ f \in DOMAIN files'
             /\ files'[f].kind = files[f].kind /\ files'[f].rows = files[f].rows
             /\ files'[f].fetched = files[f].fetched
        /\ DOMAIN files' \subseteq DOMAIN files
        /\ Len(files) <= Len(files')
    BY <1>1, <1>2, <1>8, RecordedCarries
  <2>4. \A f \in DOMAIN files : files[f].status = "downloaded" => files'[f].status = "downloaded"
    BY <1>1, <1>2, <1>8, RecordedKeeps
  <2>5. Pending' = Pending
    <3>1. ASSUME NEW f \in Pending PROVE f \in Pending'
      BY <1>5, <2>3, <2>4 DEF Pending, Downloaded
    <3>2. ASSUME NEW f \in Pending' PROVE f \in Pending
      <4>1. f \in DOMAIN files' /\ files'[f].kind = "delta" /\ f > through
        BY <1>5 DEF Pending, Downloaded
      <4>2. f \in DOMAIN files /\ files[f].kind = "delta"
        BY <2>3, <4>1
      <4> QED BY <1>1, <4>1, <4>2 DEF NightInv, UnappliedKept
    <3> QED BY <3>1, <3>2
  <2>6. Carried
    BY <1>5, <2>3, <2>5 DEF Carried
  <2> QED BY <1>6, <2>2, <2>6
<1>9. CASE files' = Recorded("delta", rows) /\ Held("delta", rows) = {}
  <2> DEFINE n == Len(files) + 1
  <2>1. /\ \A f \in DOMAIN files : f \in DOMAIN files' /\ files'[f] = files[f]
        /\ \A f \in DOMAIN files' \ DOMAIN files :
             /\ f = n /\ files'[f].kind = "delta" /\ files'[f].rows = rows
             /\ files'[f].fetched = day /\ files'[f].status = "downloaded"
        /\ n \in DOMAIN files' /\ files' \in Seq(File)
    BY <1>1, <1>2, <1>9, RecordedCarries
  <2>2. n \notin DOMAIN files /\ Len(files) \in Nat /\ DOMAIN files = 1..Len(files)
    BY <1>1 DEF TypeOK
  <2>3. Len(files') = n
    <3>1. Len(files') \in Nat /\ DOMAIN files' = 1..Len(files')
      BY <2>1
    <3>2. n <= Len(files')
      BY <2>1, <3>1
    <3>3. ASSUME n < Len(files') PROVE FALSE
      <4>1. n + 1 \in DOMAIN files' /\ n + 1 \notin DOMAIN files
        BY <2>2, <3>1, <3>3
      <4>2. n + 1 = n
        BY <2>1, <4>1
      <4> QED BY <2>2, <4>2
    <3>4. n \in Nat
      BY <2>2
    <3>5. Len(files') \in Nat /\ n <= Len(files') /\ ~(n < Len(files'))
      BY <3>1, <3>2, <3>3
    <3> HIDE DEF n
    <3> QED BY <3>4, <3>5
  <2>4. /\ files'[n].kind = "delta" /\ files'[n].rows = rows
        /\ files'[n].fetched = day /\ files'[n].status = "downloaded"
    BY <2>1, <2>2
  <2>5. \A f \in DOMAIN files' : f = n \/ f \in DOMAIN files
    BY <2>1
  <2> HIDE DEF n
  <2>6. NewDelta(n)
    BY <1>3, <1>4, <2>1, <2>3, <2>4, <2>5 DEF NewDelta, n
  <2> QED BY <2>6 DEF n
<1> QED BY <1>5, <1>7, <1>8, <1>9

LEMMA FetchCaught ==
  ASSUME MaxLag + FullGap <= Overlap, CaughtInv, FetchDelta, NightInv'
  PROVE  CaughtInv'
<1>1. /\ TypeOK /\ NightInv /\ step' = "universe" /\ seen' = vendor /\ seenOn' = day
      /\ UNCHANGED <<day, revs, vendor, stored, fed, universeRun, through, night>>
  BY DEF CaughtInv, NightInv, FetchDelta
<1>2. /\ Len(files) \in Nat /\ Len(files') \in Nat /\ through \in Nat
      /\ day \in Int /\ seenOn \in Int /\ MaxLag \in Nat /\ FullGap \in Nat
  BY <1>1, NightAssumption DEF NightInv, TypeOK, Days
<1>3. CASE Carried /\ seen' = seen
  <2>1. Versions'
    BY <1>1, <1>3, CarriedVersions DEF CaughtInv
  <2>2. AskedFor'
    <3>1. \A f \in DOMAIN files' : files'[f].fetched <= seenOn' + FullGap
      <4>1. TAKE f \in DOMAIN files'
      <4>2. CASE f \in DOMAIN files
        <5>1. files'[f].fetched = files[f].fetched /\ files[f].fetched \in Int
          BY <1>1, <1>3, <4>2, RowsOf DEF Carried, File, Days
        <5>2. files[f].fetched <= seenOn + FullGap /\ seenOn <= day
          BY <4>2 DEF CaughtInv, AskedFor
        <5> QED BY <1>1, <1>2, <5>1, <5>2
      <4>3. CASE f \notin DOMAIN files
        <5>1. files'[f].fetched = day
          BY <1>3, <4>3 DEF Carried
        <5> QED BY <1>1, <1>2, <5>1
      <4> QED BY <4>2, <4>3
    <3> QED BY <1>1, <1>2, <3>1 DEF AskedFor
  <2>3. FedInv'
    BY <1>1, <1>3, CarriedFed DEF CaughtInv
  <2>4. Marks'
    BY <1>1, <1>2, <1>3, CarriedMarks DEF CaughtInv
  <2> QED BY <2>1, <2>2, <2>3, <2>4 DEF CaughtInv
<1>4. CASE NewDelta(Len(files) + 1)
  <2> DEFINE n == Len(files) + 1
  <2>0. NewDelta(n)
    BY <1>4
  <2>1. /\ n \in Nat /\ n \notin DOMAIN files /\ \A f \in DOMAIN files : f < n
        /\ through <= Len(files) /\ Len(files) < n
    BY <1>1, <1>2, RowsOf DEF CaughtInv, Marks
  <2> HIDE DEF n
  <2>2. \A f \in DOMAIN files' : Delta(f)' => f = n \/ (Delta(f) /\ files'[f] = files[f])
    BY <2>0 DEF NewDelta, Delta
  <2>3. \A b \in Bars : files'[n].rows[b] = NoRow \/ files'[n].rows[b] = vendor[b]
    BY <2>0 DEF NewDelta
  <2>4. \A b \in Bars : vendor[b] # NoRow => vendor[b] \in Row /\ Precedes(vendor[b], vendor[b])
    BY <1>1, RowsOf, PrecedesItself
  <2>5. ASSUME NEW f \in DOMAIN files, NEW b \in Bars, Delta(f), files[f].rows[b] # NoRow
        PROVE  Precedes(files[f].rows[b], vendor[b])
    <3>1. Precedes(files[f].rows[b], seen[b])
      BY <2>5 DEF CaughtInv, Versions
    <3>2. seen[b] # NoRow
      BY <3>1 DEF Precedes
    <3>3. Precedes(seen[b], vendor[b])
      BY <3>2 DEF CaughtInv, Versions
    <3>4. files[f].rows[b] \in Row /\ seen[b] \in Row \cup {NoRow} /\ vendor[b] \in Row \cup {NoRow}
      BY <1>1, <2>5, RowsOf
    <3> QED BY <3>1, <3>3, <3>4, PrecedesTransitive
  <2>6. Versions'
    <3>1. \A b \in Bars : seen'[b] # NoRow => Precedes(seen'[b], vendor'[b])
      BY <1>1, <2>4
    <3>2. \A f \in DOMAIN files', b \in Bars :
            (Delta(f)' /\ files'[f].rows[b] # NoRow) => Precedes(files'[f].rows[b], seen'[b])
      <4>1. TAKE f \in DOMAIN files', b \in Bars
      <4>2. HAVE Delta(f)' /\ files'[f].rows[b] # NoRow
      <4>3. CASE f = n
        BY <1>1, <2>3, <2>4, <4>2, <4>3
      <4>4. CASE Delta(f) /\ files'[f] = files[f]
        BY <1>1, <2>5, <4>2, <4>4 DEF Delta
      <4> QED BY <2>2, <4>2, <4>3, <4>4
    <3>3. \A f, g \in DOMAIN files', b \in Bars :
            (Delta(f)' /\ Delta(g)' /\ f < g /\ files'[f].rows[b] # NoRow /\ files'[g].rows[b] # NoRow)
              => Precedes(files'[f].rows[b], files'[g].rows[b])
      <4>1. TAKE f, g \in DOMAIN files', b \in Bars
      <4>2. HAVE Delta(f)' /\ Delta(g)' /\ f < g /\ files'[f].rows[b] # NoRow /\ files'[g].rows[b] # NoRow
      <4>3. f # n
        <5>1. ASSUME f = n PROVE FALSE
          <6>1. g = n \/ g < n
            BY <2>1, <2>2, <4>2 DEF Delta
          <6>2. g \in Nat
            BY <1>1, <2>1, <2>2, <4>2, RowsOf DEF Delta
          <6> QED BY <2>1, <4>2, <5>1, <6>1, <6>2
        <5> QED BY <5>1
      <4>4. Delta(f) /\ files'[f] = files[f] /\ f \in DOMAIN files
        BY <2>2, <4>2, <4>3 DEF Delta
      <4>5. CASE g = n
        <5>1. files'[g].rows[b] = vendor[b]
          BY <2>3, <4>2, <4>5
        <5> QED BY <2>5, <4>2, <4>4, <5>1
      <4>6. CASE g # n
        <5>1. Delta(g) /\ files'[g] = files[g] /\ g \in DOMAIN files
          BY <2>2, <4>2, <4>6 DEF Delta
        <5> QED BY <4>2, <4>4, <5>1 DEF CaughtInv, Versions
      <4> QED BY <4>5, <4>6
    <3>4. \A b \in Bars : vendor'[b] # NoRow => vendor'[b].rev <= revs'
      BY <1>1 DEF CaughtInv, Versions
    <3> QED BY <3>1, <3>2, <3>3, <3>4 DEF Versions
  <2>7. AskedFor'
    <3>1. \A f \in DOMAIN files' : files'[f].fetched <= seenOn' + FullGap
      <4>1. TAKE f \in DOMAIN files'
      <4>2. CASE f = n
        <5>1. files'[f].fetched = day
          BY <2>0, <4>2 DEF NewDelta
        <5> QED BY <1>1, <1>2, <5>1
      <4>3. CASE f \in DOMAIN files
        <5>1. files'[f] = files[f] /\ files[f].fetched \in Int
          BY <1>1, <2>0, <4>3, RowsOf DEF NewDelta, File, Days
        <5>2. files[f].fetched <= seenOn + FullGap /\ seenOn <= day
          BY <4>3 DEF CaughtInv, AskedFor
        <5> QED BY <1>1, <1>2, <5>1, <5>2
      <4> QED BY <2>0, <4>2, <4>3 DEF NewDelta
    <3> QED BY <1>1, <1>2, <3>1 DEF AskedFor
  <2>8. /\ \A f \in Pending' : f = n \/ (f \in Pending /\ files'[f] = files[f])
        /\ \A f \in Pending : f \in Pending' /\ files'[f] = files[f]
        /\ n \in Pending'
    <3>1. n > through
      BY <1>2, <2>1
    <3> QED BY <1>1, <2>0, <3>1 DEF NewDelta, Pending, Downloaded
  <2>9. FedInv'
    <3>1. \A s \in Securities : Backfilled(s)' <=> Backfilled(s)
      BY <1>1, <2>0, FilesNotEmpty DEF NewDelta, Backfilled
    <3>2. ASSUME NEW b \in Bars, Due(b) PROVE Due(b)'
      <4>1. CASE vendor[b] # seen[b]
        <5>1. files'[n].rows[b] = vendor[b] /\ vendor[b] # NoRow
          BY <2>0, <4>1 DEF NewDelta, CaughtInv, Versions, Precedes
        <5> QED BY <1>1, <2>8, <5>1 DEF Due
      <4>2. CASE vendor[b] = seen[b]
        <5>1. CASE seen[b] # NoRow /\ \E f \in Pending : files[f].rows[b] = seen[b]
          BY <1>1, <2>8, <4>2, <5>1 DEF Due
        <5>2. CASE Settled(b) /\ \A f \in Pending : files[f].rows[b] = NoRow
          <6>1. CASE files'[n].rows[b] = NoRow
            BY <1>1, <2>8, <4>2, <5>2, <6>1 DEF Due, Settled
          <6>2. CASE files'[n].rows[b] # NoRow
            BY <1>1, <2>3, <2>8, <6>2 DEF Due
          <6> QED BY <6>1, <6>2
        <5> QED BY <3>2, <5>1, <5>2 DEF Due
      <4> QED BY <4>1, <4>2
    <3>3. \A s \in Securities, d \in Dates : <<s, d>> \in Bars
      BY DEF Bars
    <3> QED BY <1>1, <3>1, <3>2, <3>3 DEF CaughtInv, FedInv
  <2>10. Marks'
    <3>1. Len(files') = n
      BY <2>0 DEF NewDelta
    <3> QED BY <1>1, <1>2, <2>1, <3>1 DEF Marks
  <2> QED BY <2>6, <2>7, <2>9, <2>10 DEF CaughtInv
<1> QED BY <1>3, <1>4, FetchesAll

-----------------------------------------------------------------------------
(* Nothing published is lost: the other steps *)

LEMMA PublishCaught ==
  ASSUME CaughtInv, NightInv',
         NEW s \in Securities, NEW d \in Dates, NEW lag \in 0..MaxLag, NEW ok \in Validity,
         Publish(s, d, lag, ok)
  PROVE  CaughtInv'
<1> DEFINE new == [stamp |-> day - lag, rev |-> revs', ok |-> ok]
           at == <<s, d>>
<1>1. /\ TypeOK /\ step = "idle" /\ revs' = revs + 1
      /\ vendor[at] # NoRow => vendor[at].stamp <= day - lag
      /\ vendor' = [vendor EXCEPT ![at] = new]
      /\ UNCHANGED <<day, files, stored, fed, universeRun, through, step, night, seen, seenOn>>
  BY DEF Publish, history, CaughtInv, NightInv
<1>2. /\ revs \in Nat /\ day \in Int /\ seenOn \in Int /\ lag \in Int /\ MaxLag \in Int
      /\ lag <= MaxLag /\ at \in Bars /\ vendor \in Table
  BY <1>1, NightAssumption DEF TypeOK, Days, Bars
<1>3. \A b \in Bars : vendor'[b] = IF b = at THEN new ELSE vendor[b]
  BY <1>1, <1>2 DEF Table
<1>4. new \in Row /\ new.rev = revs + 1 /\ new.stamp = day - lag
  <2>1. d <= day - lag /\ d \in Nat /\ day \in Days /\ ok \in BOOLEAN
    BY <1>1, NightAssumption DEF Publish, TypeOK
  <2>2. day - lag \in Days
    BY <1>2, <2>1, NightAssumption DEF Days
  <2>3. revs' \in Nat
    BY <1>1, <1>2
  <2>4. new \in Row
    BY <2>1, <2>2, <2>3 DEF Row
  <2> QED BY <1>1, <2>4
<1> HIDE DEF new, at
<1>5. Versions'
  <2>1. ASSUME NEW b \in Bars, seen[b] # NoRow PROVE Precedes(seen[b], vendor'[b])
    <3>1. Precedes(seen[b], vendor[b])
      BY <2>1 DEF CaughtInv, Versions
    <3>2. CASE b # at
      BY <1>3, <3>1, <3>2
    <3>3. CASE b = at
      <4>1. vendor[b] # NoRow /\ vendor[b].rev <= revs
        BY <3>1 DEF Precedes, CaughtInv, Versions
      <4>2. /\ vendor[b].rev \in Nat /\ vendor[b].stamp \in Nat
            /\ seen[b].rev \in Nat /\ seen[b].stamp \in Nat
            /\ new # NoRow /\ new.rev \in Nat /\ new.stamp \in Nat
        BY <1>1, <1>4, <2>1, <4>1, RowsOf
      <4>3. vendor[b].stamp <= new.stamp /\ new.rev = revs + 1
        BY <1>1, <1>4, <3>3, <4>1
      <4>4. Precedes(seen[b], new)
        BY <1>2, <3>1, <4>1, <4>2, <4>3 DEF Precedes
      <4> QED BY <1>3, <3>3, <4>4
    <3> QED BY <3>2, <3>3
  <2>2. ASSUME NEW b \in Bars, vendor'[b] # NoRow PROVE vendor'[b].rev <= revs'
    <3>1. CASE b = at
      BY <1>1, <1>2, <1>3, <1>4, <3>1
    <3>2. CASE b # at
      <4>1. vendor[b].rev \in Nat /\ vendor[b].rev <= revs
        BY <1>1, <1>3, <2>2, <3>2, RowsOf DEF CaughtInv, Versions
      <4> QED BY <1>1, <1>2, <1>3, <3>2, <4>1
    <3> QED BY <3>1, <3>2
  <2> QED BY <1>1, <2>1, <2>2 DEF CaughtInv, Versions, Delta
<1>6. AskedFor'
  <2>1. ASSUME NEW b \in Bars, vendor'[b] # seen[b] PROVE vendor'[b].stamp >= seenOn - MaxLag
    <3>1. CASE b = at
      BY <1>2, <1>3, <1>4, <3>1 DEF CaughtInv, AskedFor
    <3>2. CASE b # at
      BY <1>3, <2>1, <3>2 DEF CaughtInv, AskedFor
    <3> QED BY <3>1, <3>2
  <2> QED BY <1>1, <2>1 DEF CaughtInv, AskedFor
<1>7. Carried
  BY <1>1, SameFilesCarried
<1>8. FedInv'
  BY <1>1, <1>7, CarriedFed DEF CaughtInv
<1>9. Marks'
  BY <1>1, <1>7, CarriedMarks, RowsOf DEF CaughtInv
<1> QED BY <1>5, <1>6, <1>8, <1>9 DEF CaughtInv

LEMMA StartCaught ==
  ASSUME CaughtInv, NightInv', NEW targets \in SUBSET Securities, NEW narrow \in BOOLEAN,
         narrow \/ targets = fed, StartNightly(targets, narrow)
  PROVE  CaughtInv'
<1>1. /\ TypeOK /\ step' = "applying"
      /\ UNCHANGED <<day, revs, vendor, files, stored, fed, universeRun, through, seen, seenOn>>
  BY DEF StartNightly, history, CaughtInv, NightInv
<1>2. /\ night'.todo = targets /\ night'.fresh = {s \in targets : Fresh(s)}
      /\ night'.pend = Pending /\ night'.narrow = narrow
      /\ night'.to = IF narrow THEN through ELSE Max(Pending \cup {through})
  BY DEF StartNightly
<1>3. Carried
  BY <1>1, SameFilesCarried
<1>4. Versions' /\ AskedFor'
  BY <1>1 DEF CaughtInv, Versions, AskedFor, Delta
<1>5. FedInv'
  BY <1>1, <1>3, CarriedFed DEF CaughtInv
<1>6. through <= Len(files) /\ through \in Nat /\ Len(files) \in Nat
  BY <1>1 DEF CaughtInv, Marks, TypeOK
<1>7. LET m == Max(Pending \cup {through}) IN m <= Len(files) /\ \A f \in Pending : f <= m
  <2> DEFINE S == Pending \cup {through}
  <2>1. S \subseteq 0..Len(files)
    BY <1>1, <1>6, RowsOf DEF Pending, Downloaded
  <2>2. S # {} /\ Pending \subseteq S
    OBVIOUS
  <2> HIDE DEF S
  <2>3. Max(S) \in S /\ \A y \in S : y <= Max(S)
    BY <1>6, <2>1, <2>2, MaxIsGreatest
  <2>4. Max(S) \in 0..Len(files)
    BY <2>1, <2>3
  <2>5. Max(S) <= Len(files)
    BY <1>6, <2>4
  <2> QED BY <2>2, <2>3, <2>5 DEF S
<1>8. Pending' = Pending
  BY <1>3 DEF Carried
<1>9. Applying'
  <2>1. night'.pend = Pending' /\ night'.to <= Len(files')
    BY <1>1, <1>2, <1>6, <1>7, <1>8
  <2>2. (night'.narrow => night'.to = through') /\ (~night'.narrow => \A f \in Pending' : f <= night'.to)
    BY <1>1, <1>2, <1>7, <1>8
  <2>3. \A s \in night'.todo \cap night'.fresh : Fresh(s)'
    BY <1>1, <1>2 DEF Fresh
  <2>4. ~night'.narrow => \A s \in fed' : s \in night'.todo
    BY <1>1, <1>2
  <2> QED BY <2>1, <2>2, <2>3, <2>4 DEF Applying
<1>10. Marks'
  BY <1>1, <1>6, <1>9 DEF Marks
<1> QED BY <1>4, <1>5, <1>10 DEF CaughtInv

\* A security's bars after its files are applied: whatever was due is there.
LEMMA AppliedIsSettled ==
  ASSUME CaughtInv, NEW s \in Securities, ApplySecurity(s), Backfilled(s), NEW d \in Dates
  PROVE  Settled(<<s, d>>)'
<1> DEFINE at == <<s, d>>
           row == Merged(at, ReadFor(s))
<1>1. TypeOK /\ at \in Bars /\ Versions /\ Applying /\ s \in night.todo /\ seen' = seen
  BY DEF CaughtInv, NightInv, Marks, ApplySecurity, history, Bars
<1>2. stored'[at] = IF row # NoRow /\ row.ok /\ stored[at] # Other THEN row.rev ELSE stored[at]
  <2>1. \A b \in Bars :
          stored'[b] = IF b[1] = s /\ Merged(<<s, b[2]>>, ReadFor(s)) # NoRow
                          /\ Merged(<<s, b[2]>>, ReadFor(s)).ok /\ stored[<<s, b[2]>>] # Other
                       THEN Merged(<<s, b[2]>>, ReadFor(s)).rev ELSE stored[b]
    BY DEF ApplySecurity
  <2> QED BY <1>1, <2>1
<1>3. Due(at)
  BY <1>1 DEF CaughtInv, FedInv
<1>4. Pending \subseteq ReadFor(s) /\ \A f \in ReadFor(s) : Delta(f)
  BY <1>1 DEF ReadFor, Applying, Pending, Downloaded, Delta
<1>5. seen[at] # NoRow => seen[at].rev \in Nat /\ seen[at].rev # Other /\ seen[at].rev # NoRow
  BY <1>1, RowsOf, NightAssumption
<1> HIDE DEF at, row
<1>6. CASE seen[at] # NoRow /\ \E f \in Pending : files[f].rows[at] = seen[at]
  <2>1. row = seen[at]
    BY <1>1, <1>4, <1>6, MergedIsSeen DEF row
  <2> QED BY <1>1, <1>2, <1>5, <1>6, <2>1 DEF Settled, at
<1>7. CASE Settled(at) /\ \A f \in Pending : files[f].rows[at] = NoRow
  <2>1. CASE s \in night.fresh
    <3>1. stored[at] = NoRow
      BY <1>1, <2>1 DEF Applying, Fresh, at
    <3>2. ~(seen[at] # NoRow /\ seen[at].ok)
      BY <1>5, <1>7, <3>1, NightAssumption DEF Settled
    <3> QED BY <1>1, <3>2 DEF Settled, at
  <2>2. CASE s \notin night.fresh
    <3>1. ReadFor(s) = Pending
      BY <1>1, <2>2 DEF ReadFor, Applying
    <3>2. row = NoRow
      <4>1. Pending \subseteq DOMAIN files
        BY DEF Pending, Downloaded
      <4> QED BY <1>1, <1>7, <3>1, <4>1, MergedPicks DEF row
    <3> QED BY <1>1, <1>2, <1>7, <3>2 DEF Settled, at
  <2> QED BY <2>1, <2>2
<1> QED BY <1>3, <1>6, <1>7 DEF Due

LEMMA ApplyCaught ==
  ASSUME CaughtInv, NightInv', NEW s \in Securities, ApplySecurity(s)
  PROVE  CaughtInv'
<1>1. /\ TypeOK /\ Applying /\ step' = "applying"
      /\ UNCHANGED <<day, revs, vendor, files, fed, universeRun, through, step, seen, seenOn>>
  BY DEF ApplySecurity, history, CaughtInv, NightInv, Marks
<1>2. /\ night'.todo = night.todo \ {s} /\ night'.fresh = night.fresh /\ night'.pend = night.pend
      /\ night'.to = night.to /\ night'.narrow = night.narrow
  BY <1>1 DEF ApplySecurity, TypeOK
<1>3. \A t \in Securities, d \in Dates : t # s => stored'[<<t, d>>] = stored[<<t, d>>]
  BY DEF ApplySecurity, Bars
<1>4. Versions' /\ AskedFor'
  BY <1>1 DEF CaughtInv, Versions, AskedFor, Delta
<1>5. Pending' = Pending
  BY <1>1 DEF Pending, Downloaded
<1>6. \A t \in Securities : Backfilled(t)' <=> Backfilled(t)
  BY <1>1 DEF Backfilled
<1>7. ASSUME NEW t \in Securities, Backfilled(t), NEW d \in Dates
      PROVE  /\ Due(<<t, d>>)'
             /\ t # s => (Settled(<<t, d>>) => Settled(<<t, d>>)')
             /\ t = s => Settled(<<t, d>>)'
  <2>1. Due(<<t, d>>)
    BY <1>7 DEF CaughtInv, FedInv
  <2>2. t # s => (Settled(<<t, d>>) => Settled(<<t, d>>)')
    BY <1>1, <1>3 DEF Settled
  <2>3. t = s => Settled(<<t, d>>)'
    BY <1>7, AppliedIsSettled
  <2> QED BY <1>1, <1>5, <2>1, <2>2, <2>3 DEF Due
<1>8. FedInv'
  BY <1>1, <1>6, <1>7 DEF CaughtInv, FedInv
<1>9. Applying'
  <2>1. /\ night'.pend = Pending' /\ night'.to <= Len(files')
        /\ night'.narrow => night'.to = through'
        /\ ~night'.narrow => \A f \in Pending' : f <= night'.to
    BY <1>1, <1>2, <1>5 DEF Applying
  <2>2. \A t \in night'.todo \cap night'.fresh : Fresh(t)'
    <3>1. TAKE t \in night'.todo \cap night'.fresh
    <3>2. t \in night.todo \cap night.fresh /\ t # s /\ t \in Securities
      BY <1>1, <1>2 DEF TypeOK
    <3> QED BY <1>1, <1>3, <3>2 DEF Applying, Fresh
  <2>3. ~night'.narrow => \A t \in fed' : Backfilled(t)' =>
          t \in night'.todo \/ \A d \in Dates : Settled(<<t, d>>)'
    <3>1. HAVE ~night'.narrow
    <3>2. TAKE t \in fed'
    <3>3. HAVE Backfilled(t)'
    <3>4. t \in fed /\ t \in Securities /\ Backfilled(t)
      BY <1>1, <1>6, <3>3 DEF TypeOK
    <3>5. t \in night.todo \/ \A d \in Dates : Settled(<<t, d>>)
      BY <1>1, <1>2, <3>1, <3>4 DEF Applying
    <3> QED BY <1>2, <1>7, <3>4, <3>5
  <2> QED BY <2>1, <2>2, <2>3 DEF Applying
<1>10. Marks'
  BY <1>1, <1>9 DEF CaughtInv, Marks
<1> QED BY <1>4, <1>8, <1>10 DEF CaughtInv

LEMMA EndCaught ==
  ASSUME CaughtInv, NightInv', EndNightly
  PROVE  CaughtInv'
<1>1. /\ TypeOK /\ Applying /\ night.todo = {} /\ step' # "applying"
      /\ through' = IF night.quar THEN through ELSE night.to
      /\ UNCHANGED <<day, revs, vendor, files, stored, fed, universeRun, seen, seenOn>>
  BY DEF EndNightly, history, CaughtInv, NightInv, Marks
<1>2. Versions' /\ AskedFor'
  BY <1>1 DEF CaughtInv, Versions, AskedFor, Delta
<1>3. Marks'
  BY <1>1 DEF CaughtInv, Marks, Applying
<1>4. CASE through' = through
  <2>1. Carried
    BY <1>1, <1>4, SameFilesCarried
  <2>2. FedInv'
    BY <1>1, <2>1, CarriedFed DEF CaughtInv
  <2> QED BY <1>2, <1>3, <2>2 DEF CaughtInv
<1>5. CASE through' # through
  <2>1. ~night.narrow /\ through' = night.to /\ through' \in Nat
    BY <1>1, <1>5 DEF Applying, TypeOK
  <2>2. Pending' = {}
    <3>1. ASSUME NEW f \in Pending' PROVE FALSE
      <4>1. f \in DOMAIN files /\ files[f].kind = "delta" /\ f > through' /\ f \in Nat
        BY <1>1, RowsOf DEF Pending, Downloaded
      <4>2. night.to >= through /\ through \in Nat
        BY <1>1 DEF CaughtInv, NightInv, EndNightly, TypeOK
      <4>3. f > through
        BY <2>1, <4>1, <4>2
      <4>4. f \in Pending
        BY <1>1, <4>1, <4>3 DEF CaughtInv, NightInv, UnappliedKept
      <4>5. f <= night.to
        BY <1>1, <2>1, <4>4 DEF Applying
      <4> QED BY <2>1, <4>1, <4>5
    <3> QED BY <3>1
  <2>3. ASSUME NEW s \in Securities, Backfilled(s), NEW d \in Dates PROVE Settled(<<s, d>>)
    <3>1. s \in fed
      BY <2>3 DEF CaughtInv, FedInv
    <3> QED BY <1>1, <2>1, <2>3, <3>1 DEF Applying
  <2>4. FedInv'
    BY <1>1, <2>2, <2>3 DEF CaughtInv, FedInv, Backfilled, Due, Settled
  <2> QED BY <1>2, <1>3, <2>4 DEF CaughtInv
<1> QED BY <1>4, <1>5

\* A step that moves no version, applies nothing and leaves the night's price step.
LEMMA QuietCaught ==
  ASSUME CaughtInv, NightInv', Carried, fed \subseteq fed', step' # "applying",
         day' \in Int, day <= day', files' = files \/ day <= seenOn + FullGap,
         UNCHANGED <<vendor, seen, seenOn, revs, stored>>
  PROVE  CaughtInv'
<1>1. Len(files') \in Nat
  BY DEF NightInv, TypeOK
<1> QED BY <1>1, CarriedVersions, CarriedAsked, CarriedFed, CarriedMarks DEF CaughtInv

LEMMA StepCaught ==
  ASSUME MaxLag + FullGap <= Overlap, CaughtInv, [Next]_vars, NightInv'
  PROVE  CaughtInv'
<1>1. TypeOK /\ NightInv /\ day \in Int
  BY NightAssumption DEF CaughtInv, NightInv, TypeOK, Days
<1>2. CASE NextDay
  <2>1. /\ day' = day + 1
        /\ UNCHANGED <<revs, vendor, files, stored, fed, universeRun, through, step, night, seen, seenOn>>
    BY <1>2 DEF NextDay, history
  <2>2. Carried
    BY <1>1, <2>1, SameFilesCarried
  <2>3. Versions' /\ FedInv'
    BY <1>1, <2>1, <2>2, CarriedVersions, CarriedFed DEF CaughtInv
  <2>4. AskedFor'
    BY <1>1, <2>1, <2>2, CarriedAsked DEF CaughtInv
  <2>5. Marks'
    BY <2>1 DEF CaughtInv, Marks, Applying, Pending, Downloaded, Fresh, Backfilled, Settled
  <2> QED BY <2>3, <2>4, <2>5 DEF CaughtInv
<1>3. CASE DownloadFull
  <2>1. Carried
    BY <1>1, <1>3, FullCarried
  <2>2. /\ step' # "applying" /\ day <= seenOn + FullGap
        /\ UNCHANGED <<day, revs, vendor, stored, fed, seen, seenOn>>
    <3>1. step = "idle" /\ day - seenOn <= FullGap
      BY <1>3 DEF DownloadFull
    <3>2. seenOn \in Int /\ FullGap \in Int
      BY <1>1, NightAssumption DEF TypeOK, Days
    <3> QED BY <1>1, <1>3, <3>1, <3>2 DEF DownloadFull, history
  <2> QED BY <1>1, <2>1, <2>2, QuietCaught
<1>4. CASE Universe
  <2>1. step' # "applying" /\ fed \subseteq fed'
        /\ UNCHANGED <<day, revs, vendor, files, stored, through, seen, seenOn>>
    BY <1>4 DEF Universe, history
  <2>2. Carried
    BY <1>1, <2>1, SameFilesCarried
  <2> QED BY <1>1, <2>1, <2>2, QuietCaught
<1>5. CASE Prune
  <2>1. Carried
    BY <1>1, <1>5, PruneCarried
  <2>2. step' # "applying" /\ UNCHANGED <<day, revs, vendor, stored, fed, through, seen, seenOn>>
    BY <1>5 DEF Prune, history
  <2>3. Versions' /\ FedInv'
    BY <1>1, <2>1, <2>2, CarriedVersions, CarriedFed DEF CaughtInv
  <2>4. Marks'
    BY <1>1, <2>1, <2>2, CarriedMarks DEF CaughtInv, NightInv, TypeOK
  <2>5. DOMAIN files' = DOMAIN files
    BY <1>1, <1>5, PruneKeeps
  <2>6. AskedFor'
    BY <2>1, <2>2, <2>5 DEF CaughtInv, AskedFor, Carried
  <2> QED BY <2>3, <2>4, <2>6 DEF CaughtInv
<1>6. CASE Stop
  <2>1. step' # "applying"
        /\ UNCHANGED <<day, revs, vendor, files, stored, fed, through, seen, seenOn>>
    BY <1>6 DEF Stop, history
  <2>2. Carried
    BY <1>1, <2>1, SameFilesCarried
  <2> QED BY <1>1, <2>1, <2>2, QuietCaught
<1>7. CASE UNCHANGED vars
  BY <1>7 DEF vars, history, CaughtInv, Versions, AskedFor, FedInv, Marks, Applying, Delta, Due, Settled,
              Backfilled, Pending, Downloaded, Fresh
<1>8. CASE StartNightly(fed, FALSE)
  BY <1>1, <1>8, StartCaught DEF TypeOK
<1>9. ASSUME NEW targets \in SUBSET fed \ {{}}, StartNightly(targets, TRUE) PROVE CaughtInv'
  <2>1. targets \in SUBSET Securities
    BY <1>1 DEF TypeOK
  <2> QED BY <1>9, <2>1, StartCaught
<1> QED BY <1>2, <1>3, <1>4, <1>5, <1>6, <1>7, <1>8, <1>9,
           FetchCaught, PublishCaught, ApplyCaught, EndCaught
       DEF Next, SharadarBulk, SharadarDelta, SharadarPrune, IngestSharadarPrices

LEMMA InitCaught == Init => CaughtInv
<1> SUFFICES ASSUME Init PROVE CaughtInv
  OBVIOUS
<1>1. NightInv /\ TypeOK
  BY InitNight DEF NightInv
<1> DEFINE full == [kind |-> "full", rows |-> vendor, fetched |-> 0, status |-> "downloaded"]
<1>2. files = <<full>>
  BY DEF Init
<1>3. DOMAIN files = {1} /\ files[1].kind = "full" /\ files[1].rows = vendor /\ files[1].fetched = 0
      /\ Len(files) = 1
  BY <1>2
<1> HIDE DEF full
<1>4. Pending = {}
  BY <1>3 DEF Pending, Downloaded
<1>5. /\ day = 0 /\ revs = 0 /\ seen = vendor /\ seenOn = 0 /\ through = 1 /\ step = "idle"
      /\ \A b \in Bars : vendor[b] = NoRow <=> ~(b[1] \in fed /\ b[2] = 0)
      /\ vendor \in [Bars -> {NoRow} \cup [stamp : {0}, rev : {0}, ok : Validity]]
      /\ \A b \in Bars : stored[b] \in IF vendor[b] = NoRow THEN {NoRow}
                                       ELSE {Other, IF vendor[b].ok THEN 0 ELSE NoRow}
  BY DEF Init
<1>6. \A b \in Bars : vendor[b] # NoRow => vendor[b].rev = 0 /\ vendor[b] \in Row
  BY <1>1, <1>5, RowsOf
<1>7. Versions
  <2>1. \A b \in Bars : seen[b] # NoRow => Precedes(seen[b], vendor[b])
    BY <1>5, <1>6, PrecedesItself
  <2>2. \A f \in DOMAIN files : ~Delta(f)
    BY <1>3 DEF Delta
  <2> QED BY <1>5, <1>6, <2>1, <2>2 DEF Versions
<1>8. AskedFor
  BY <1>3, <1>5, NightAssumption DEF AskedFor
<1>9. FedInv
  <2>1. 0 \in Dates /\ \A s \in Securities, d \in Dates : <<s, d>> \in Bars
    BY NightAssumption DEF Bars
  <2>2. \A s \in Securities : Backfilled(s) => s \in fed
    BY <1>3, <1>5, <2>1 DEF Backfilled
  <2>3. \A b \in Bars : Settled(b)
    BY <1>5, <1>6 DEF Settled
  <2> QED BY <1>4, <2>1, <2>2, <2>3 DEF FedInv, Due
<1>10. Marks
  BY <1>3, <1>5 DEF Marks
<1> QED BY <1>1, <1>7, <1>8, <1>9, <1>10 DEF CaughtInv

(* While the delta's overlap covers the vendor's lag and the gap a full file may leave, *)
(* nothing the vendor published is lost on the way, whatever failed and was run again:  *)
(* with no delta pending, the bars are the versions served when it was last asked       *)
(* (delta_since, DELTA_OVERLAP_DAYS, merged_rows, nightly).                              *)
THEOREM NothingPublishedIsLost ==
  ASSUME MaxLag + FullGap <= Overlap
  PROVE  Spec => []CaughtUp
<1>1. CaughtInv /\ [Next]_vars => CaughtInv'
  <2>1. CaughtInv => NightInv
    BY DEF CaughtInv
  <2> QED BY <2>1, NightStepTyped, StepCaught
<1>2. CaughtInv => CaughtUp
  <2> SUFFICES ASSUME CaughtInv, Pending = {}, NEW s \in fed, Backfilled(s) PROVE Served(s)
    BY DEF CaughtUp
  <2>1. s \in Securities
    BY DEF CaughtInv, NightInv, TypeOK
  <2>2. \A d \in Dates : Settled(<<s, d>>)
    BY <2>1 DEF CaughtInv, FedInv, Due
  <2> QED BY <2>2 DEF Served, Settled
<1> QED BY <1>1, <1>2, InitCaught, PTL DEF Spec

-----------------------------------------------------------------------------
(* The universe: sets, and folds over them.  Bars stay (BarsStay) because every  *)
(* write of the warehouse carries them (Carries) but a merge, which moves them; *)
(* a run of the night is a fold of such writes over the renames and the keys, so *)
(* it carries them too: FoldsStay, for the set of the warehouses that do.       *)

(* The assumption in parts. *)
LEMMA Bounds ==
  /\ Keys \subseteq Nat /\ IsFiniteSet(Keys)
  /\ MaxDay \in Nat /\ MaxDay >= 3 /\ MaxSec \in Nat
  /\ MaxEvents \in Nat /\ MaxOps \in Nat /\ MaxFails \in Nat /\ LookbackDays \in Nat
  /\ Declarable \subseteq Tickers
BY UniverseAssumption DEF Day0

(* None is none of the things that a variable may hold beside it. *)
LEMMA NoneIsNone ==
  None \notin Ids /\ None \notin Tickers /\ None \notin CalendarDays /\ None \notin SecurityRow /\ None \notin Link
BY UniverseAssumption

(* A fold that starts in X and is not led out of it ends there: g[s] is what the fold *)
(* makes of the elements s, and pick the one that it takes last.                      *)
LEMMA FoldsStay ==
  ASSUME NEW K, IsFiniteSet(K), NEW X, NEW g, NEW pick,
         \A s \in SUBSET K : s # {} => pick[s] \in s,
         g[{}] \in X,
         \A s \in SUBSET K : (s # {} /\ g[s \ {pick[s]}] \in X) => g[s] \in X
  PROVE  g[K] \in X
<1> DEFINE T == {n \in Nat : \E s \in SUBSET K : Cardinality(s) = n /\ g[s] \notin X}
<1>1. SUFFICES ASSUME T # {} PROVE FALSE
  <2>1. Cardinality(K) \in Nat
    BY FS_CardinalityType
  <2> QED BY <2>1
<1>2. PICK n \in T : \A m \in T : n <= m
  <2>1. T \subseteq Nat
    OBVIOUS
  <2> HIDE DEF T
  <2> QED BY <1>1, <2>1, LeastElement
<1>3. PICK s \in SUBSET K : Cardinality(s) = n /\ g[s] \notin X
  BY <1>2
<1>4. s # {} /\ IsFiniteSet(s)
  BY <1>3, FS_Subset
<1> DEFINE u == s \ {pick[s]}
<1>5. u \in SUBSET K /\ pick[s] \in s
  BY <1>4
<1>6. Cardinality(u) = n - 1 /\ Cardinality(u) \in Nat
  <2>1. IsFiniteSet(u) /\ Cardinality(u) = Cardinality(s) - 1
    BY <1>4, <1>5, FS_RemoveElement
  <2>2. Cardinality(u) \in Nat
    BY <2>1, FS_CardinalityType
  <2> QED BY <2>1, <2>2, <1>3
<1>7. g[u] \notin X
  BY <1>3, <1>4
<1>8. n - 1 \in T
  BY <1>5, <1>6, <1>7
<1>9. n \in Nat /\ n <= n - 1
  <2> HIDE DEF T
  <2>1. n <= n - 1
    BY <1>8, <1>2
  <2>2. n \in Nat
    BY <1>2 DEF T
  <2> QED BY <2>1, <2>2
<1> QED BY <1>9

(* g takes the elements of each set of K in the order of pick. *)
FoldsOver(g, K, base, walk, pick) ==
  \A s \in SUBSET K : g[s] = IF s = {} THEN base ELSE walk[<<pick[s], g[s \ {pick[s]}]>>]

(* A fold whose step is a function exists. *)
LEMMA FoldsExist ==
  ASSUME NEW K, IsFiniteSet(K), NEW X, NEW base \in X, NEW walk \in [K \X X -> X], NEW pick,
         \A s \in SUBSET K : s # {} => pick[s] \in s
  PROVE  \E g \in [SUBSET K -> X] : FoldsOver(g, K, base, walk, pick)
<1> DEFINE L(n) == {s \in SUBSET K : Cardinality(s) <= n}
           Folds(g, n) == \A s \in L(n) :
             g[s] = IF s = {} THEN base ELSE walk[<<pick[s], g[s \ {pick[s]}]>>]
           T == {n \in Nat : ~ \E g \in [L(n) -> X] : Folds(g, n)}
<1>a. \A s \in SUBSET K : IsFiniteSet(s) /\ Cardinality(s) \in Nat
  BY FS_Subset, FS_CardinalityType
<1>b. \A s \in SUBSET K : s # {} => /\ s \ {pick[s]} \in SUBSET K
                                    /\ Cardinality(s \ {pick[s]}) = Cardinality(s) - 1
  BY <1>a, FS_RemoveElement
<1>c. \A s \in SUBSET K : Cardinality(s) = 0 => s = {}
  BY <1>a, FS_EmptySet
<1>1. T = {}
  <2>1. SUFFICES ASSUME T # {} PROVE FALSE
    OBVIOUS
  <2>2. PICK n \in T : \A m \in T : n <= m
    <3>1. T \subseteq Nat
      OBVIOUS
    <3> HIDE DEF T
    <3> QED BY <2>1, <3>1, LeastElement
  <2>3. n \in Nat
    OBVIOUS
  <2>4. CASE n = 0
    <3> DEFINE g == [s \in L(0) |-> base]
    <3>1. \A s \in L(0) : s = {}
      BY <1>a, <1>c
    <3>2. g \in [L(0) -> X] /\ Folds(g, 0)
      BY <3>1
    <3> QED BY <3>2, <2>4
  <2>5. CASE n # 0
    <3>1. n - 1 \in Nat /\ n - 1 \notin T
      <4>1. n - 1 \in Nat /\ ~(n <= n - 1)
        BY <2>3, <2>5
      <4> HIDE DEF T
      <4> QED BY <4>1, <2>2
    <3>2. PICK h \in [L(n-1) -> X] : Folds(h, n-1)
      BY <3>1
    <3> DEFINE g == [s \in L(n) |-> IF s = {} THEN base ELSE walk[<<pick[s], h[s \ {pick[s]}]>>]]
    <3>3. \A s \in L(n) : s # {} => s \ {pick[s]} \in L(n-1)
      BY <1>a, <1>b, <2>3
    <3>4. \A s \in L(n) : s # {} => <<pick[s], h[s \ {pick[s]}]>> \in K \X X
      BY <3>2, <3>3
    <3>5. g \in [L(n) -> X]
      BY <3>4
    <3>6. \A s \in L(n-1) : s \in L(n) /\ g[s] = h[s]
      <4>1. \A s \in L(n-1) : s \in L(n)
        BY <1>a, <2>3
      <4> QED BY <4>1, <3>2
    <3>7. Folds(g, n)
      BY <3>3, <3>6
    <3> HIDE DEF g, L, Folds
    <3> QED BY <3>5, <3>7 DEF T
  <2> QED BY <2>4, <2>5
<1>2. Cardinality(K) \in Nat /\ L(Cardinality(K)) = SUBSET K
  <2>1. \A s \in SUBSET K : Cardinality(s) <= Cardinality(K)
    BY FS_Subset
  <2> QED BY <2>1, <1>a
<1>3. PICK g \in [L(Cardinality(K)) -> X] : Folds(g, Cardinality(K))
  BY <1>1, <1>2
<1> QED BY <1>2, <1>3 DEF FoldsOver

-----------------------------------------------------------------------------
(* The folds of a run *)

(* A finite non-empty set of naturals has a greatest element. *)
LEMMA GreatestOfFinite ==
  ASSUME NEW S, S \subseteq Nat, IsFiniteSet(S), S # {}
  PROVE  \E x \in S : \A y \in S : x >= y
<1> DEFINE Bad(R) == R # {} /\ ~ \E x \in R : \A y \in R : x >= y
           T == {n \in Nat : \E R \in SUBSET S : Cardinality(R) = n /\ Bad(R)}
<1>1. SUFFICES ASSUME T # {} PROVE FALSE
  <2>1. Cardinality(S) \in Nat
    BY FS_CardinalityType
  <2> QED BY <2>1
<1>2. PICK n \in T : \A m \in T : n <= m
  <2>1. T \subseteq Nat
    OBVIOUS
  <2> HIDE DEF T
  <2> QED BY <1>1, <2>1, LeastElement
<1>3. PICK R \in SUBSET S : Cardinality(R) = n /\ Bad(R)
  BY <1>2
<1>4. PICK x \in R : TRUE
  BY <1>3
<1>5. IsFiniteSet(R)
  BY FS_Subset
<1> DEFINE U == R \ {x}
<1>6. IsFiniteSet(U) /\ Cardinality(U) = n - 1 /\ Cardinality(U) \in Nat
  BY <1>3, <1>5, FS_RemoveElement, FS_CardinalityType
<1>7. n - 1 \notin T
  <2>1. n \in Nat /\ ~(n <= n - 1)
    OBVIOUS
  <2> HIDE DEF T
  <2> QED BY <2>1, <1>2
<1>8. ~Bad(U)
  BY <1>6, <1>7
<1>9. CASE U = {}
  <2>1. \A y \in R : y = x /\ x >= y
    BY <1>9
  <2> QED BY <2>1, <1>3
<1>10. CASE U # {}
  <2>1. PICK z \in U : \A y \in U : z >= y
    BY <1>8, <1>10
  <2>2. x \in Nat /\ z \in Nat /\ z \in R /\ \A y \in R : y \in Nat /\ (y = x \/ y \in U)
    OBVIOUS
  <2>3. CASE x >= z
    <3>1. \A y \in R : x >= y
      BY <2>1, <2>2, <2>3
    <3> QED BY <3>1, <1>3
  <2>4. CASE z >= x
    <3>1. \A y \in R : z >= y
      BY <2>1, <2>2, <2>4
    <3> QED BY <3>1, <2>2, <1>3
  <2> QED BY <2>2, <2>3, <2>4
<1> QED BY <1>9, <1>10

(* Max and Min of the community modules are members, and Max is the greatest. *)
LEMMA MaxIsOne ==
  ASSUME NEW S, S \subseteq Nat, IsFiniteSet(S), S # {}
  PROVE  Max(S) \in S /\ \A y \in S : Max(S) >= y
BY GreatestOfFinite DEF Max

(* The least of any naturals needs no bound. *)
LEMMA MinIsOne ==
  ASSUME NEW S, S \subseteq Nat, S # {}
  PROVE  Min(S) \in S
BY LeastElement DEF Min

(* What every key leaves in X, the listings of a run leave there. *)
LEMMA ListingsStay ==
  ASSUME NEW X, NEW d \in X, \A k \in Keys, e \in X : SweepListing(e, k) \in X
  PROVE  SweepListings(d) \in X
<1> DEFINE pick == [s \in SUBSET Keys |-> Max(s)]
           walk == [p \in Keys \X X |-> SweepListing(p[2], p[1])]
           F(g) == g = [s \in SUBSET Keys |->
                          IF s = {} THEN d ELSE SweepListing(g[s \ {Max(s)}], Max(s))]
<1>1. \A s \in SUBSET Keys : s # {} => Max(s) \in s
  BY Bounds, MaxIsOne, FS_Subset
<1>2. walk \in [Keys \X X -> X]
  OBVIOUS
<1>3. \A s \in SUBSET Keys : s # {} => pick[s] \in s
  BY <1>1
<1>4. PICK h \in [SUBSET Keys -> X] : FoldsOver(h, Keys, d, walk, pick)
  <2>1. IsFiniteSet(Keys)
    BY Bounds
  <2> HIDE DEF pick, walk
  <2> QED BY <1>2, <1>3, <2>1, FoldsExist
<1>5. \A s \in SUBSET Keys : s # {} =>
        walk[<<pick[s], h[s \ {pick[s]}]>>] = SweepListing(h[s \ {Max(s)}], Max(s))
  BY <1>1
<1>6. F(h)
  <2> HIDE DEF pick, walk
  <2> QED BY <1>4, <1>5 DEF FoldsOver
<1> DEFINE it == CHOOSE g : F(g)
<1>7. F(it)
  <2> HIDE DEF F
  <2> QED BY <1>6
<1>8. SweepListings(d) = it[Keys]
  BY DEF SweepListings, MapThenFoldSet
<1> HIDE DEF it
<1>9. ASSUME NEW s \in SUBSET Keys, s # {}, it[s \ {pick[s]}] \in X PROVE it[s] \in X
  <2>1. it[s] = SweepListing(it[s \ {Max(s)}], Max(s))
    BY <1>7, <1>9
  <2>2. Max(s) \in Keys /\ it[s \ {Max(s)}] \in X
    BY <1>1, <1>9
  <2> HIDE DEF F
  <2> QED BY <2>1, <2>2
<1>10. it[{}] \in X
  BY <1>7
<1>11. it[Keys] \in X
  <2> HIDE DEF F, pick
  <2>1. IsFiniteSet(Keys)
    BY Bounds
  <2> QED BY <1>3, <1>9, <1>10, <2>1, FoldsStay
<1> QED BY <1>8, <1>11

(* What every key leaves in X, and the delistings leave there. *)
LEMMA DelistingsStay ==
  ASSUME NEW X, NEW d \in X, \A k \in Keys, e \in X : SweepDelisting(e, k) \in X
  PROVE  SweepDelistings(d) \in X
<1> DEFINE pick == [s \in SUBSET Keys |-> Max(s)]
           walk == [p \in Keys \X X |-> SweepDelisting(p[2], p[1])]
           F(g) == g = [s \in SUBSET Keys |->
                          IF s = {} THEN d ELSE SweepDelisting(g[s \ {Max(s)}], Max(s))]
<1>1. \A s \in SUBSET Keys : s # {} => Max(s) \in s
  BY Bounds, MaxIsOne, FS_Subset
<1>2. walk \in [Keys \X X -> X]
  OBVIOUS
<1>3. \A s \in SUBSET Keys : s # {} => pick[s] \in s
  BY <1>1
<1>4. PICK h \in [SUBSET Keys -> X] : FoldsOver(h, Keys, d, walk, pick)
  <2>1. IsFiniteSet(Keys)
    BY Bounds
  <2> HIDE DEF pick, walk
  <2> QED BY <1>2, <1>3, <2>1, FoldsExist
<1>5. \A s \in SUBSET Keys : s # {} =>
        walk[<<pick[s], h[s \ {pick[s]}]>>] = SweepDelisting(h[s \ {Max(s)}], Max(s))
  BY <1>1
<1>6. F(h)
  <2> HIDE DEF pick, walk
  <2> QED BY <1>4, <1>5 DEF FoldsOver
<1> DEFINE it == CHOOSE g : F(g)
<1>7. F(it)
  <2> HIDE DEF F
  <2> QED BY <1>6
<1>8. SweepDelistings(d) = it[Keys]
  BY DEF SweepDelistings, MapThenFoldSet
<1> HIDE DEF it
<1>9. ASSUME NEW s \in SUBSET Keys, s # {}, it[s \ {pick[s]}] \in X PROVE it[s] \in X
  <2>1. it[s] = SweepDelisting(it[s \ {Max(s)}], Max(s))
    BY <1>7, <1>9
  <2>2. Max(s) \in Keys /\ it[s \ {Max(s)}] \in X
    BY <1>1, <1>9
  <2> HIDE DEF F
  <2> QED BY <2>1, <2>2
<1>10. it[{}] \in X
  BY <1>7
<1>11. it[Keys] \in X
  <2> HIDE DEF F, pick
  <2>1. IsFiniteSet(Keys)
    BY Bounds
  <2> QED BY <1>3, <1>9, <1>10, <2>1, FoldsStay
<1> QED BY <1>8, <1>11

(* ... and the folds of a dedupe. *)
LEMMA GoneStay ==
  ASSUME NEW X, NEW d \in X, NEW V, IsFiniteSet(V), NEW keep,
         \A v \in V, e \in X : Gone(e, v, keep) \in X
  PROVE  FoldedInto(d, V, keep) \in X
<1> DEFINE pick == [s \in SUBSET V |-> (CHOOSE v \in s : TRUE)]
           walk == [p \in V \X X |-> Gone(p[2], p[1], keep)]
           F(g) == g = [s \in SUBSET V |->
                          IF s = {} THEN d
                          ELSE Gone(g[s \ {CHOOSE v \in s : TRUE}], CHOOSE v \in s : TRUE, keep)]
<1>1. \A s \in SUBSET V : s # {} => (CHOOSE v \in s : TRUE) \in s
  OBVIOUS
<1>2. walk \in [V \X X -> X]
  OBVIOUS
<1>3. \A s \in SUBSET V : s # {} => pick[s] \in s
  BY <1>1
<1>4. PICK h \in [SUBSET V -> X] : FoldsOver(h, V, d, walk, pick)
  <2> HIDE DEF pick, walk
  <2> QED BY <1>2, <1>3, FoldsExist
<1>5. ASSUME NEW s \in SUBSET V, s # {}
      PROVE  walk[<<pick[s], h[s \ {pick[s]}]>>]
               = Gone(h[s \ {CHOOSE v \in s : TRUE}], CHOOSE v \in s : TRUE, keep)
  <2>1. pick[s] = (CHOOSE v \in s : TRUE) /\ pick[s] \in V /\ h[s \ {pick[s]}] \in X
    BY <1>1, <1>5
  <2> HIDE DEF pick
  <2> QED BY <2>1
<1>6. F(h)
  <2> HIDE DEF pick, walk
  <2> QED BY <1>4, <1>5 DEF FoldsOver
<1> DEFINE it == CHOOSE g : F(g)
<1>7. F(it)
  <2> HIDE DEF F
  <2> QED BY <1>6
<1>8. FoldedInto(d, V, keep) = it[V]
  BY DEF FoldedInto, FoldSet, MapThenFoldSet
<1> HIDE DEF it
<1>9. ASSUME NEW s \in SUBSET V, s # {}, it[s \ {pick[s]}] \in X PROVE it[s] \in X
  <2>1. it[s] = Gone(it[s \ {CHOOSE v \in s : TRUE}], CHOOSE v \in s : TRUE, keep)
    BY <1>7, <1>9
  <2>2. (CHOOSE v \in s : TRUE) \in V /\ it[s \ {(CHOOSE v \in s : TRUE)}] \in X
    BY <1>1, <1>9
  <2> HIDE DEF F
  <2> QED BY <2>1, <2>2
<1>10. it[{}] \in X
  BY <1>7
<1>11. it[V] \in X
  <2> HIDE DEF F, pick
  <2> QED BY <1>3, <1>9, <1>10, FoldsStay
<1> QED BY <1>8, <1>11

(* The renames of a set of events. *)
Rename == [key : Keys, day : CalendarDays, old : Tickers, new : Tickers]

EventsTyped(es) ==
  es \subseteq Event /\ IsFiniteSet(es) /\ \A e \in es : Named(e) /\ e.filed \in Tickers

(* The events of a run are those stored. *)
LEMMA WindowTyped == EventsTyped(events) => EventsTyped(Window)
BY FS_Subset DEF EventsTyped, Window

(* Every rename that the events tell has a key, a day and two tickers (renames). *)
LEMMA RenamesTyped ==
  ASSUME NEW es, EventsTyped(es)
  PROVE  IsFiniteSet(RenamesIn(es)) /\ RenamesIn(es) \subseteq Rename
<1> DEFINE To(e) == {f \in es : f.act = "to" /\ f.key = e.key /\ f.day = e.day}
           New(e) == IF To(e) = {} THEN e.filed ELSE (CHOOSE f \in To(e) : TRUE).contra
           F == {f \in es : f.act = "from"}
           told == [e \in F |-> [key |-> e.key, day |-> e.day, old |-> e.contra, new |-> New(e)]]
           All == {told[e] : e \in F}
<1>1. \A e \in F : New(e) \in Tickers
  <2>1. TAKE e \in F
  <2>2. CASE To(e) = {}
    BY <2>2 DEF EventsTyped
  <2>3. CASE To(e) # {}
    <3>1. PICK f \in To(e) : f = CHOOSE g \in To(e) : TRUE
      BY <2>3
    <3>2. f.contra \in Tickers
      BY DEF EventsTyped, Named
    <3> QED BY <3>1, <3>2, <2>3
  <2> QED BY <2>2, <2>3
<1> HIDE DEF New
<1>2. \A e \in F : told[e] \in Rename
  <2>1. \A e \in F : e.key \in Keys /\ e.day \in CalendarDays /\ e.contra \in Tickers
    BY DEF EventsTyped, Named, Event
  <2> QED BY <1>1, <2>1 DEF Rename
<1>3. IsFiniteSet(F) /\ IsFiniteSet(All)
  <2>1. IsFiniteSet(F)
    BY FS_Subset DEF EventsTyped
  <2>2. told \in Surjection(F, All)
    BY DEF Surjection
  <2> HIDE DEF told, F, All
  <2> QED BY <2>1, <2>2, FS_Surjection
<1>4. RenamesIn(es) = {r \in All : r.old # r.new}
  BY Zenon DEF RenamesIn, New
<1>5. RenamesIn(es) \subseteq All
  BY <1>4
<1> HIDE DEF All
<1>6. All \subseteq Rename
  BY <1>2 DEF All
<1> QED BY <1>3, <1>5, <1>6, FS_Subset

(* LastTold is one of the renames. *)
LEMMA LastIsOne ==
  ASSUME NEW rs, rs \subseteq Rename, IsFiniteSet(rs), rs # {}
  PROVE  LastTold(rs) \in rs
<1> DEFINE ks == {r.key : r \in rs}
<1>1. PICK k \in ks : \A l \in ks : k >= l
  <2>1. ks \subseteq Keys /\ ks # {}
    BY DEF Rename
  <2>2. IsFiniteSet(ks) /\ ks \subseteq Nat
    BY <2>1, Bounds, FS_Subset
  <2> HIDE DEF ks
  <2> QED BY <2>1, <2>2, GreatestOfFinite
<1> DEFINE R == {r \in rs : r.key = k}
           ds == {r.day : r \in R}
<1>2. PICK d \in ds : \A c \in ds : d >= c
  <2>1. R # {} /\ ds # {}
    BY <1>1
  <2>2. ds \subseteq CalendarDays /\ CalendarDays \subseteq Nat /\ IsFiniteSet(CalendarDays)
    <3>1. IsFiniteSet(CalendarDays)
      BY Bounds, FS_Interval DEF CalendarDays
    <3> QED BY <3>1, Bounds DEF Rename, CalendarDays
  <2>3. IsFiniteSet(ds)
    BY <2>2, FS_Subset
  <2> HIDE DEF ds
  <2> QED BY <2>1, <2>2, <2>3, GreatestOfFinite
<1>3. PICK r \in R : r.day = d
  BY <1>2
<1>4. ASSUME NEW q \in rs PROVE q.key < r.key \/ (q.key = r.key /\ q.day <= r.day)
  <2>1. q.key \in Nat /\ r.key \in Nat /\ q.day \in Nat /\ r.day \in Nat
    <3>1. q.key \in Keys /\ q.day \in CalendarDays /\ r.key \in Keys /\ r.day \in CalendarDays
      BY DEF Rename
    <3>2. q.key \in Nat /\ r.key \in Nat
      BY <3>1, Bounds
    <3>3. MaxDay \in Nat
      BY Bounds
    <3>4. q.day \in Nat /\ r.day \in Nat
      BY <3>1, <3>3 DEF CalendarDays
    <3> QED BY <3>2, <3>4
  <2>2. r.key = k /\ k >= q.key
    BY <1>1
  <2>3. q.key = k => d >= q.day
    BY <1>2
  <2> QED BY <2>1, <2>2, <2>3, <1>3
<1>5. \E x \in rs : \A q \in rs : q.key < x.key \/ (q.key = x.key /\ q.day <= x.day)
  BY <1>4
<1> QED BY <1>5 DEF LastTold

(* ... and the renames of a set of events. *)
LEMMA RenamesStay ==
  ASSUME NEW X, NEW d \in X, EventsTyped(events),
         \A r \in Rename, e \in X : SweepRename(e, r) \in X
  PROVE  SweepRenames(d) \in X
<1> DEFINE R == RenamesIn(Window)
<1>a. IsFiniteSet(R) /\ R \subseteq Rename
  <2>1. EventsTyped(Window)
    BY WindowTyped
  <2> QED BY <2>1, RenamesTyped
<1> HIDE DEF R
<1> DEFINE pick == [s \in SUBSET R |-> LastTold(s)]
           walk == [p \in R \X X |-> SweepRename(p[2], p[1])]
           F(g) == g = [s \in SUBSET R |->
                          IF s = {} THEN d ELSE SweepRename(g[s \ {LastTold(s)}], LastTold(s))]
<1>1. \A s \in SUBSET R : s # {} => LastTold(s) \in s
  BY <1>a, LastIsOne, FS_Subset
<1>2. walk \in [R \X X -> X]
  BY <1>a
<1>3. \A s \in SUBSET R : s # {} => pick[s] \in s
  BY <1>1
<1>4. PICK h \in [SUBSET R -> X] : FoldsOver(h, R, d, walk, pick)
  <2> HIDE DEF pick, walk
  <2> QED BY <1>2, <1>3, <1>a, FoldsExist
<1>5. \A s \in SUBSET R : s # {} =>
        walk[<<pick[s], h[s \ {pick[s]}]>>] = SweepRename(h[s \ {LastTold(s)}], LastTold(s))
  BY <1>1
<1>6. F(h)
  <2> HIDE DEF pick, walk
  <2> QED BY <1>4, <1>5 DEF FoldsOver
<1> DEFINE it == CHOOSE g : F(g)
<1>7. F(it)
  <2> HIDE DEF F
  <2> QED BY <1>6
<1>8. SweepRenames(d) = it[R]
  BY DEF SweepRenames, MapThenFoldSet, R
<1> HIDE DEF it
<1>9. ASSUME NEW s \in SUBSET R, s # {}, it[s \ {pick[s]}] \in X PROVE it[s] \in X
  <2>1. it[s] = SweepRename(it[s \ {LastTold(s)}], LastTold(s))
    BY <1>7, <1>9
  <2>2. LastTold(s) \in R /\ it[s \ {LastTold(s)}] \in X
    BY <1>1, <1>9
  <2> HIDE DEF F
  <2> QED BY <2>1, <2>2, <1>a
<1>10. it[{}] \in X
  BY <1>7
<1>11. it[R] \in X
  <2> HIDE DEF F, pick
  <2> QED BY <1>3, <1>9, <1>10, <1>a, FoldsStay
<1> QED BY <1>8, <1>11
-----------------------------------------------------------------------------
(* What a write of the warehouse keeps *)

Legal(d) == d \in Warehouse /\ Known(d)

(* What a row holds of the companies' bars it holds still, and no row there lost its feed. *)
Carries(a, b) ==
  /\ Legal(b)
  /\ \A s \in Rows(a) : a.secs[s].of # {} => s \in Rows(b) /\ a.secs[s].of \subseteq b.secs[s].of
  /\ Unfed(b) \subseteq Unfed(a)

(* Writes that carry do so one after the other. *)
LEMMA CarriesOn ==
  ASSUME NEW a, NEW b, NEW c, Carries(a, b), Carries(b, c)
  PROVE  Carries(a, c)
<1>1. ASSUME NEW s \in Rows(a), a.secs[s].of # {}
      PROVE  s \in Rows(c) /\ a.secs[s].of \subseteq c.secs[s].of
  <2>1. s \in Rows(b) /\ a.secs[s].of \subseteq b.secs[s].of
    BY <1>1 DEF Carries
  <2>2. b.secs[s].of # {}
    BY <2>1, <1>1
  <2>3. s \in Rows(c) /\ b.secs[s].of \subseteq c.secs[s].of
    BY <2>1, <2>2 DEF Carries
  <2> QED BY <2>1, <2>3
<1> QED BY <1>1 DEF Carries

(* ... and no write carries. *)
LEMMA CarriesItself ==
  ASSUME NEW a, Legal(a)
  PROVE  Carries(a, a)
BY DEF Carries

(* The fields of a warehouse. *)
LEMMA Fields ==
  ASSUME NEW d \in Warehouse
  PROVE  /\ d.secs \in [Ids -> SecurityRow \cup {None}] /\ d.xref \subseteq Period
         /\ d.link \in [Keys -> Link \cup {None}] /\ d.minted \in 0..MaxSec
         /\ d.recorded \subseteq Change /\ d.conflicts \subseteq Tickers \X Tickers
         /\ d.judged \subseteq Ids \X Tickers \X CalendarDays /\ d.inactive \subseteq Ids \X Tickers
         /\ d.declared \subseteq Tickers /\ d.names \in [Ids -> Tickers \cup {None}]
         /\ d.sound \in BOOLEAN /\ d.opened \in BOOLEAN
BY DEF Warehouse

(* A row has the fields of one, a link those of a link. *)
LEMMA RowFields ==
  ASSUME NEW d \in Warehouse, NEW s \in Rows(d)
  PROVE  /\ s \in Ids /\ d.secs[s] \in SecurityRow /\ d.secs[s].sym \in Tickers
         /\ d.secs[s].src \in {"fmp", "sharadar"} /\ d.secs[s].act \in BOOLEAN
         /\ d.secs[s].off \in 0..MaxDay /\ d.secs[s].name \in Keys
         /\ d.secs[s].of \subseteq Keys
         /\ d.secs[s].first \in 0..MaxDay /\ d.secs[s].last \in 0..MaxDay
<1>1. s \in Ids /\ d.secs[s] \in SecurityRow
  BY Fields DEF Rows
<1> QED BY <1>1 DEF SecurityRow

(* An open link is a row's (feeding_link). *)
LEMMA LinkFields ==
  ASSUME NEW d, Legal(d), NEW k \in Keys, d.link[k] # None
  PROVE  d.link[k] \in Link /\ d.link[k].sec \in Rows(d) /\ d.link[k].from \in 0..MaxDay
<1>1. d.link[k] \in Link
  BY Fields DEF Legal
<1> QED BY <1>1 DEF Legal, Known, Link

(* The rows, their links and the count of them as they were. *)
LEMMA SameRows ==
  ASSUME NEW a, Legal(a), NEW b \in Warehouse,
         b.secs = a.secs, b.link = a.link, b.minted = a.minted
  PROVE  Carries(a, b)
BY DEF Carries, Legal, Known, Rows, Unfed, FedBy, Empty

(* ... or but for what is not told of their bars. *)
LEMMA SameBars ==
  ASSUME NEW a, Legal(a), NEW b \in Warehouse, b.link = a.link, b.minted = a.minted,
         Rows(b) = Rows(a),
         \A s \in Rows(a) : b.secs[s].of = a.secs[s].of /\ b.secs[s].first = a.secs[s].first
  PROVE  Carries(a, b)
BY DEF Carries, Legal, Known, Unfed, FedBy, Empty

(* A ticker is live on a listed row (active_security_for_symbol). *)
LEMMA ActiveIs ==
  ASSUME NEW d, NEW t, Active(d, t) # None
  PROVE  Active(d, t) \in Listed(d)
<1>1. Listed(d) \subseteq Nat
  BY DEF Listed, Rows, Ids
<1>2. NamedBy(d, t) \subseteq Listed(d)
  BY DEF NamedBy
<1> DEFINE held == OpenHolders(d, t) \cap Listed(d)
           own  == {s \in NamedBy(d, t) : d.secs[s].src = "sharadar"}
<1>3. CASE held # {}
  <2>1. Active(d, t) = Min(held)
    BY <1>3 DEF Active
  <2>2. Min(held) \in held
    <3>1. held \subseteq Nat
      BY <1>1
    <3> HIDE DEF held
    <3> QED BY <3>1, <1>3, MinIsOne
  <2> QED BY <2>1, <2>2
<1>4. CASE held = {} /\ own # {}
  <2>1. Active(d, t) = Min(own)
    BY <1>4 DEF Active
  <2>2. Min(own) \in own
    <3>1. own \subseteq Nat
      BY <1>1, <1>2
    <3> HIDE DEF own
    <3> QED BY <3>1, <1>4, MinIsOne
  <2> QED BY <2>1, <2>2, <1>2
<1>5. CASE held = {} /\ own = {} /\ NamedBy(d, t) # {}
  <2>1. Active(d, t) = Min(NamedBy(d, t))
    BY <1>5 DEF Active
  <2>2. Min(NamedBy(d, t)) \in NamedBy(d, t)
    BY <1>1, <1>2, <1>5, MinIsOne
  <2> QED BY <2>1, <2>2, <1>2
<1>6. CASE held = {} /\ own = {} /\ NamedBy(d, t) = {}
  BY <1>6 DEF Active
<1> QED BY <1>3, <1>4, <1>5, <1>6

-----------------------------------------------------------------------------
(* The writes *)

(* The later of two days is a day. *)
LEMMA LaterIs ==
  ASSUME NEW a \in 0..MaxDay, NEW b \in 0..MaxDay
  PROVE  Later(a, b) \in 0..MaxDay
BY DEF Later

(* A claimed period is one (upsert_symbol_xref). *)
LEMMA ClaimedTyped ==
  ASSUME NEW x, x \subseteq Period, NEW s \in Ids, NEW t \in Tickers, NEW from \in 0..MaxDay
  PROVE  Claimed(x, s, t, from) \subseteq Period
<1> DEFINE at == {p \in x : p.sym = t /\ p.from = from}
<1>1. CASE at = {}
  <2>1. [sym |-> t, sec |-> s, from |-> from, to |-> Open] \in Period
    BY DEF Period
  <2> QED BY <1>1, <2>1 DEF Claimed
<1>2. CASE at # {}
  <2>1. \A p \in x : [p EXCEPT !.sec = s] \in Period
    BY DEF Period
  <2> QED BY <1>2, <2>1 DEF Claimed
<1> QED BY <1>1, <1>2

(* A closed period is one (retarget_symbol). *)
LEMMA ClosedTyped ==
  ASSUME NEW x, x \subseteq Period, NEW s, NEW ts, NEW on \in 0..MaxDay
  PROVE  Closed(x, s, ts, on) \subseteq Period
<1>1. \A p \in x : [p EXCEPT !.to = Later(p.from, on)] \in Period
  <2>1. TAKE p \in x
  <2>2. Later(p.from, on) \in 0..MaxDay
    BY LaterIs DEF Period
  <2> QED BY <2>2 DEF Period
<1> QED BY <1>1 DEF Closed

(* The look at the indexes writes no row. *)
LEMMA WrittenCarries ==
  ASSUME NEW d, Legal(d)
  PROVE  Carries(d, Written(d)) /\ Rows(Written(d)) = Rows(d)
<1>1. (d.sound /\ Sound(d)) \in BOOLEAN
  BY Fields DEF Legal
<1>2. Written(d) \in Warehouse
  BY <1>1 DEF Written, Warehouse, Legal
<1>3. Written(d).secs = d.secs /\ Written(d).link = d.link /\ Written(d).minted = d.minted
  BY DEF Written, Warehouse, Legal
<1> QED BY <1>2, <1>3, SameRows DEF Rows

(* A row written anew, but for its bars, and any periods. *)
Rewritten(e, s, row, x) == [e EXCEPT !.xref = x, !.secs = [e.secs EXCEPT ![s] = row]]

(* Such a write carries. *)
LEMMA RowRewritten ==
  ASSUME NEW e, Legal(e), NEW s \in Rows(e), NEW x, x \subseteq Period,
         NEW row \in SecurityRow, row.of = e.secs[s].of, row.first = e.secs[s].first
  PROVE  Carries(e, Rewritten(e, s, row, x)) /\ Rows(Rewritten(e, s, row, x)) = Rows(e)
<1> DEFINE b == Rewritten(e, s, row, x)
<1>1. e \in Warehouse /\ s \in Ids /\ e.secs \in [Ids -> SecurityRow \cup {None}]
  BY Fields DEF Legal, Rows
<1>2. b.secs = [e.secs EXCEPT ![s] = row] /\ b.link = e.link /\ b.minted = e.minted
  BY <1>1 DEF Warehouse, Rewritten
<1>3. b \in Warehouse
  BY <1>1 DEF Warehouse, Rewritten
<1>4. Rows(b) = Rows(e)
  BY <1>1, <1>2, NoneIsNone DEF Rows
<1>5. \A v \in Rows(e) : b.secs[v].of = e.secs[v].of /\ b.secs[v].first = e.secs[v].first
  BY <1>1, <1>2 DEF Rows
<1>6. Carries(e, b)
  <2> HIDE DEF b
  <2> QED BY <1>2, <1>3, <1>4, <1>5, SameBars
<1> QED BY <1>4, <1>6

(* A delisting stamps the row, it keeps its bars (mark_delisted). *)
LEMMA MarkDelistedCarries ==
  ASSUME NEW d, Legal(d), NEW s \in Rows(d), NEW on \in CalendarDays
  PROVE  Carries(d, MarkDelisted(d, s, on)) /\ Rows(MarkDelisted(d, s, on)) = Rows(d)
<1> DEFINE row == [d.secs[s] EXCEPT !.off = on, !.act = FALSE]
           x == Closed(d.xref, s, Tickers, on)
<1>1. on \in 0..MaxDay /\ d \in Warehouse /\ s \in Ids /\ d.secs[s] \in SecurityRow
  BY Bounds, RowFields DEF CalendarDays, Legal
<1>2. row \in SecurityRow /\ row.of = d.secs[s].of /\ row.first = d.secs[s].first
  BY <1>1 DEF SecurityRow
<1>3. x \subseteq Period
  BY <1>1, Fields, ClosedTyped
<1>4. MarkDelisted(d, s, on) = Rewritten(d, s, row, x)
  BY <1>1, Fields DEF MarkDelisted, Warehouse, Rewritten
<1> HIDE DEF row, x
<1> QED BY <1>2, <1>3, <1>4, RowRewritten

(* A rename recorded moves no bars (record_symbol_change). *)
LEMMA RecordCarries ==
  ASSUME NEW d, Legal(d), NEW on \in CalendarDays, NEW old \in Tickers, NEW new \in Tickers,
         NEW status \in {"applied", "conflict", "dismissed"}, NEW s \in Ids \cup {None}
  PROVE  /\ Carries(d, Record(d, on, old, new, status, s))
         /\ Rows(Record(d, on, old, new, status, s)) = Rows(d)
<1> DEFINE b == Record(d, on, old, new, status, s)
           rs == {r \in d.recorded : <<r.day, r.old, r.new>> # <<on, old, new>>}
                    \cup {[day |-> on, old |-> old, new |-> new,
                           status |-> status, sec |-> s]}
           cs == IF status = "conflict" THEN d.conflicts \cup {<<old, new>>}
                   ELSE d.conflicts \ {<<old, new>>}
<1>1. d \in Warehouse
  BY DEF Legal
<1>2. rs \subseteq Change
  BY <1>1, Fields DEF Change
<1>3. cs \subseteq Tickers \X Tickers
  BY <1>1, Fields
<1>4. b = [d EXCEPT !.recorded = rs, !.conflicts = cs]
  BY <1>1, Zenon DEF Record
<1> HIDE DEF b, rs, cs
<1>5. b \in Warehouse
  BY <1>1, <1>2, <1>3, <1>4 DEF Warehouse
<1>6. b.secs = d.secs /\ b.link = d.link /\ b.minted = d.minted
  BY <1>1, <1>4 DEF Warehouse
<1>7. Carries(d, b) /\ Rows(b) = Rows(d)
  BY <1>5, <1>6, SameRows DEF Rows
<1> QED BY <1>7 DEF b

(* A row that is deleted leaves the others as they are, and its links to the survivor. *)
LEMMA GoneLegal ==
  ASSUME NEW d, Legal(d), NEW s \in Rows(d), NEW v \in Ids, v # s
  PROVE  /\ Legal(Gone(d, v, s)) /\ Rows(Gone(d, v, s)) = Rows(d) \ {v}
         /\ \A w \in Rows(Gone(d, v, s)) : Gone(d, v, s).secs[w] = d.secs[w]
         /\ Unfed(Gone(d, v, s)) \subseteq Unfed(d)
<1> DEFINE b == Gone(d, v, s)
           ln == [k \in Keys |-> IF k \in FedBy(d, v) THEN [d.link[k] EXCEPT !.sec = s]
                                ELSE d.link[k]]
           xs == {p \in d.xref : p.sec # v}
           rs == {IF r.sec = v THEN [r EXCEPT !.sec = s] ELSE r : r \in d.recorded}
           js == {IF j[1] = v THEN <<s, j[2], j[3]>> ELSE j : j \in d.judged}
           is == {IF j[1] = v THEN <<s, j[2]>> ELSE j : j \in d.inactive}
<1>0. d \in Warehouse /\ s \in Ids /\ d.secs[s] \in SecurityRow
  BY RowFields DEF Legal
<1>1. /\ d.secs \in [Ids -> SecurityRow \cup {None}] /\ d.link \in [Keys -> Link \cup {None}]
  BY <1>0, Fields
<1>2. ln \in [Keys -> Link \cup {None}]
  <2>1. \A k \in FedBy(d, v) : [d.link[k] EXCEPT !.sec = s] \in Link
    BY <1>0, <1>1 DEF FedBy, Link
  <2> QED BY <2>1, <1>1
<1>3. xs \subseteq Period
  BY <1>0, Fields
<1>4. rs \subseteq Change
  <2>1. \A r \in Change : [r EXCEPT !.sec = s] \in Change
    BY <1>0 DEF Change
  <2> QED BY <2>1, <1>0, Fields
<1>5. js \subseteq Ids \X Tickers \X CalendarDays
  BY <1>0, Fields
<1>6. is \subseteq Ids \X Tickers
  BY <1>0, Fields
<1>7. b = [d EXCEPT !.secs = [d.secs EXCEPT ![v] = None], !.xref = xs, !.link = ln,
                    !.recorded = rs, !.judged = js, !.inactive = is]
  BY <1>0, Zenon DEF Gone
<1>8. [d.secs EXCEPT ![v] = None] \in [Ids -> SecurityRow \cup {None}]
  BY <1>1
<1> HIDE DEF b, ln, xs, rs, js, is
<1>9. b \in Warehouse
  BY <1>0, <1>2, <1>3, <1>4, <1>5, <1>6, <1>7, <1>8 DEF Warehouse
<1>10. b.secs = [d.secs EXCEPT ![v] = None] /\ b.link = ln /\ b.minted = d.minted
  BY <1>0, <1>7 DEF Warehouse
<1>11. Rows(b) = Rows(d) \ {v}
  BY <1>1, <1>10 DEF Rows
<1>12. \A w \in Rows(b) : b.secs[w] = d.secs[w]
  BY <1>1, <1>10, <1>11 DEF Rows
<1>13. \A k \in Keys : /\ ln[k] # None <=> d.link[k] # None
                       /\ d.link[k] # None =>
                            ln[k].sec = IF d.link[k].sec = v THEN s ELSE d.link[k].sec
  <2>1. ASSUME NEW k \in Keys, d.link[k] # None, d.link[k].sec = v
        PROVE  ln[k] # None /\ ln[k].sec = s
    <3>1. k \in FedBy(d, v) /\ d.link[k] \in Link
      BY <1>1, <2>1 DEF FedBy
    <3>2. ln[k] = [d.link[k] EXCEPT !.sec = s]
      BY <3>1 DEF ln
    <3>3. ln[k] \in Link /\ ln[k].sec = s
      BY <3>1, <3>2, <1>0 DEF Link
    <3> QED BY <3>3, NoneIsNone
  <2>2. ASSUME NEW k \in Keys, ~(d.link[k] # None /\ d.link[k].sec = v) PROVE ln[k] = d.link[k]
    BY <2>2 DEF ln, FedBy
  <2> QED BY <2>1, <2>2
<1>14. Known(b)
  <2>1. \A w \in Rows(b) : w <= b.minted
    BY <1>10, <1>11 DEF Legal, Known
  <2>2. \A k \in Keys : b.link[k] # None => b.link[k].sec \in Rows(b)
    BY <1>10, <1>11, <1>13 DEF Legal, Known
  <2>3. \A w \in Rows(b) : Empty(b, w) => b.secs[w].of = {}
    BY <1>11, <1>12 DEF Legal, Known, Empty
  <2> QED BY <2>1, <2>2, <2>3 DEF Known
<1>15. Unfed(b) \subseteq Unfed(d)
  <2>1. ASSUME NEW w \in Rows(b) PROVE FedBy(d, w) \subseteq FedBy(b, w)
    BY <1>10, <1>11, <1>13 DEF FedBy
  <2> QED BY <2>1, <1>11 DEF Unfed
<1>16. Legal(b)
  BY <1>9, <1>14 DEF Legal
<1> QED BY <1>11, <1>12, <1>15, <1>16 DEF b

(* A row without bars, folded into another, takes none with it. *)
LEMMA GoneCarries ==
  ASSUME NEW d, Legal(d), NEW s \in Rows(d), NEW v \in Ids, v # s,
         d.secs[v] # None => d.secs[v].of = {}
  PROVE  Carries(d, Gone(d, v, s)) /\ Rows(Gone(d, v, s)) = Rows(d) \ {v}
<1> DEFINE b == Gone(d, v, s)
<1>1. /\ Legal(b) /\ Rows(b) = Rows(d) \ {v} /\ Unfed(b) \subseteq Unfed(d)
      /\ \A w \in Rows(b) : b.secs[w] = d.secs[w]
  BY GoneLegal
<1> HIDE DEF b
<1>2. Carries(d, b)
  BY <1>1 DEF Carries, Rows
<1> QED BY <1>1, <1>2 DEF b

(* A row that takes a ticker's name and period keeps its bars. *)
LEMMA NamedAnew ==
  ASSUME NEW e, Legal(e), NEW s \in Rows(e), NEW new \in Tickers,
         NEW x, x \subseteq Period
  PROVE  LET b == [e EXCEPT !.xref = x, !.secs[s].sym = new]
         IN Carries(e, b) /\ Rows(b) = Rows(e)
<1> DEFINE row == [e.secs[s] EXCEPT !.sym = new]
<1>1. e \in Warehouse /\ s \in Ids /\ e.secs[s] \in SecurityRow
  BY RowFields DEF Legal
<1>2. row \in SecurityRow /\ row.of = e.secs[s].of /\ row.first = e.secs[s].first
  BY <1>1 DEF SecurityRow
<1>3. [e EXCEPT !.xref = x, !.secs[s].sym = new]
        = Rewritten(e, s, row, x)
  BY <1>1 DEF Warehouse, Rewritten
<1> HIDE DEF row
<1> QED BY <1>2, <1>3, RowRewritten

(* What the claim of a ticker found touches no row. *)
LEMMA OpenedCarries ==
  ASSUME NEW d, Legal(d), NEW o \in BOOLEAN
  PROVE  LET b == [d EXCEPT !.opened = o] IN Carries(d, b) /\ Rows(b) = Rows(d)
<1> DEFINE b == [d EXCEPT !.opened = o]
<1>1. b \in Warehouse /\ b.secs = d.secs /\ b.link = d.link /\ b.minted = d.minted
  BY DEF Warehouse, Legal
<1> HIDE DEF b
<1>2. Carries(d, b) /\ Rows(b) = Rows(d)
  BY <1>1, SameRows DEF Rows
<1> QED BY <1>2 DEF b

(* A rename that is applied folds a row without bars at most (apply_rename). *)
LEMMA RenamedCarries ==
  ASSUME NEW d, Legal(d), NEW s \in Rows(d), NEW old \in Tickers, NEW new \in Tickers,
         NEW on \in CalendarDays, Renamable(d, s, old, new)
  PROVE  /\ Carries(d, Renamed(d, s, old, new, on)) /\ s \in Rows(Renamed(d, s, old, new, on))
         /\ Rows(Renamed(d, s, old, new, on)) \subseteq Rows(d)
<1> DEFINE v == Active(d, new)
           e == IF v \in {None, s} THEN d ELSE Gone(d, v, s)
           y == Closed(e.xref, s, {old}, on - 1)
           x == Claimed(y, s, new, on)
           o == e.opened /\ Claimable(y, new, on)
           to == IF e.secs[s].off = 0 THEN new ELSE e.secs[s].sym
           a == [e EXCEPT !.xref = x, !.secs[s].sym = to]
           b == [a EXCEPT !.opened = o]
<1>1. Carries(d, e) /\ s \in Rows(e) /\ Rows(e) \subseteq Rows(d)
  <2>1. CASE v \in {None, s}
    BY <2>1, CarriesItself
  <2>2. CASE v \notin {None, s}
    <3>1. v \in Rows(d)
      BY <2>2, ActiveIs DEF Listed
    <3>2. Foldable(d, v, s) /\ d.secs[v] # None
      BY <2>2, <3>1 DEF Renamable, Rows
    <3>3. d.secs[v].of = {} /\ v \in Ids
      BY <3>1, <3>2 DEF Foldable, Legal, Known, Rows
    <3>4. Carries(d, Gone(d, v, s)) /\ Rows(Gone(d, v, s)) = Rows(d) \ {v}
      BY <2>2, <3>3, GoneCarries
    <3> QED BY <2>2, <3>4
  <2> QED BY <2>1, <2>2
<1> HIDE DEF e, v
<1>2. Legal(e) /\ e \in Warehouse
  BY <1>1 DEF Carries, Legal
<1>3. x \subseteq Period
  <2>1. on \in 0..MaxDay /\ on - 1 \in 0..MaxDay
    BY Bounds DEF CalendarDays
  <2>2. y \subseteq Period
    BY <1>2, <2>1, Fields, ClosedTyped
  <2>3. s \in Ids
    BY DEF Rows
  <2> QED BY <2>1, <2>2, <2>3, ClaimedTyped
<1> HIDE DEF x, y
<1>4. to \in Tickers
  BY <1>1, <1>2, RowFields
<1>5. Carries(e, a) /\ Rows(a) = Rows(e)
  <2> HIDE DEF to
  <2> QED BY <1>1, <1>2, <1>3, <1>4, NamedAnew
<1>6. Carries(e, b) /\ Rows(b) = Rows(e)
  <2>1. o \in BOOLEAN
    BY <1>2, Fields DEF Claimable
  <2> HIDE DEF a, o
  <2>2. Carries(a, b) /\ Rows(b) = Rows(a)
    BY <1>5, <2>1, OpenedCarries DEF Carries
  <2> HIDE DEF b
  <2> QED BY <1>5, <2>2, CarriesOn
<1>7. Renamed(d, s, old, new, on) = Written(b)
  <2>1. b = [e EXCEPT !.xref = x, !.opened = o, !.secs[s].sym = to]
    BY <1>2 DEF Warehouse
  <2>2. b = [e EXCEPT !.xref = x, !.opened = @ /\ Claimable(y, new, on),
                      !.secs[s].sym = IF e.secs[s].off = 0 THEN new ELSE @]
    BY <2>1, <1>1, <1>2, Fields DEF Rows
  <2>3. b = [e EXCEPT !.xref = Claimed(y, s, new, on), !.opened = @ /\ Claimable(y, new, on),
                      !.secs[s].sym = IF e.secs[s].off = 0 THEN new ELSE @]
    BY <2>2 DEF x
  <2> HIDE DEF b, a, o, to, x
  <2> QED BY <2>3, Zenon DEF Renamed, y, e, v
<1> HIDE DEF b
<1>8. Carries(b, Written(b)) /\ Rows(Written(b)) = Rows(b)
  BY <1>6, WrittenCarries DEF Carries
<1> QED BY <1>1, <1>6, <1>7, <1>8, CarriesOn

(* One rename of a run carries (_apply_renames). *)
LEMMA SweepRenameCarries ==
  ASSUME NEW d, Legal(d), NEW r \in Rename
  PROVE  Carries(d, SweepRename(d, r))
<1> DEFINE s == d.link[r.key].sec
<1>a. r.key \in Keys /\ r.day \in CalendarDays /\ r.old \in Tickers /\ r.new \in Tickers
  BY DEF Rename
<1>b. Carries(d, d)
  BY CarriesItself
<1>1. CASE d.link[r.key] = None
  BY <1>1, <1>b DEF SweepRename
<1>2. CASE d.link[r.key] # None
  <2>1. s \in Rows(d) /\ s \in Ids
    BY <1>2, <1>a, LinkFields DEF Rows
  <2>2. \A status \in {"applied", "conflict", "dismissed"} :
          Carries(d, Record(d, r.day, r.old, r.new, status, s))
    BY <1>a, <2>1, RecordCarries
  <2>3. ASSUME Renamable(d, s, r.old, r.new)
        PROVE  LET e == [Renamed(d, s, r.old, r.new, r.day) EXCEPT !.names[s] = r.new]
               IN Carries(d, Record(e, r.day, r.old, r.new, "applied", s))
    <3> DEFINE c == Renamed(d, s, r.old, r.new, r.day)
               e == [c EXCEPT !.names[s] = r.new]
    <3>1. Carries(d, c)
      BY <1>a, <2>1, <2>3, RenamedCarries
    <3> HIDE DEF c
    <3>2. Legal(c) /\ c \in Warehouse
      BY <3>1 DEF Carries, Legal
    <3>3. [c.names EXCEPT ![s] = r.new] \in [Ids -> Tickers \cup {None}]
      BY <1>a, <3>2, Fields
    <3>4. e \in Warehouse /\ e.secs = c.secs /\ e.link = c.link /\ e.minted = c.minted
      BY <3>2, <3>3 DEF Warehouse
    <3> HIDE DEF e
    <3>5. Carries(c, e)
      BY <3>2, <3>4, SameRows
    <3>6. Carries(e, Record(e, r.day, r.old, r.new, "applied", s))
      <4>1. Legal(e)
        BY <3>5 DEF Carries
      <4> HIDE DEF s
      <4> QED BY <4>1, <1>a, <2>1, RecordCarries
    <3>7. Carries(d, Record(e, r.day, r.old, r.new, "applied", s))
      <4> HIDE DEF s
      <4> QED BY <3>1, <3>5, <3>6, CarriesOn
    <3> QED BY <3>7 DEF e, c
  <2> QED BY <1>b, <1>2, <2>2, <2>3 DEF SweepRename
<1> QED BY <1>1, <1>2


(* A finite set of days has a last one. *)
LEMMA LatestDay ==
  ASSUME NEW S, S \subseteq CalendarDays, S # {}
  PROVE  Max(S) \in S
<1>1. MaxDay \in Nat
  BY Bounds
<1>2. IsFiniteSet(CalendarDays) /\ CalendarDays \subseteq Nat
  BY <1>1, FS_Interval DEF CalendarDays
<1>3. IsFiniteSet(S) /\ S \subseteq Nat
  BY <1>2, FS_Subset
<1> QED BY <1>3, MaxIsOne

(* One delisting of a run carries (_apply_delistings). *)
LEMMA SweepDelistingCarries ==
  ASSUME NEW d, Legal(d), NEW k \in Keys, EventsTyped(events)
  PROVE  Carries(d, SweepDelisting(d, k))
<1> DEFINE own  == {e \in Window : e.key = k}
           days == {e.day : e \in {f \in own : f.act = "delisted"}}
           on  == Max(days)
           s    == d.link[k].sec
           at   == <<s, d.secs[s].sym, on>>
           b    == SweepDelisting(d, k)
<1>1. days \subseteq CalendarDays
  BY DEF EventsTyped, Window, Event
<1>2. Carries(d, d)
  BY CarriesItself
<1>3. CASE b = d
  BY <1>2, <1>3
<1>4. CASE b # d
  <2>1. days # {} /\ d.link[k] # None
    BY <1>4, Zenon DEF SweepDelisting
  <2>2. b = [d EXCEPT !.judged = @ \cup {at}] \/ b = MarkDelisted(d, s, on)
    BY <1>4, Zenon DEF SweepDelisting
  <2> HIDE DEF b
  <2>3. on \in CalendarDays
    <3> HIDE DEF days
    <3> QED BY <1>1, <2>1, LatestDay
  <2>4. s \in Rows(d)
    BY <2>1, LinkFields
  <2> HIDE DEF on, s
  <2>5. Carries(d, MarkDelisted(d, s, on))
    BY <2>3, <2>4, MarkDelistedCarries
  <2>6. Carries(d, [d EXCEPT !.judged = @ \cup {at}])
    <3>1. d \in Warehouse
      BY DEF Legal
    <3>2. at \in Ids \X Tickers \X CalendarDays
      BY <2>3, <2>4, <3>1, RowFields
    <3> DEFINE c == [d EXCEPT !.judged = @ \cup {at}]
    <3> HIDE DEF at
    <3>3. d.judged \cup {at} \in SUBSET (Ids \X Tickers \X CalendarDays)
      BY <3>1, <3>2, Fields
    <3>4. c \in Warehouse /\ c.secs = d.secs /\ c.link = d.link /\ c.minted = d.minted
      BY <3>1, <3>3 DEF Warehouse
    <3> HIDE DEF c
    <3>5. Carries(d, c)
      BY <3>4, SameRows
    <3> QED BY <3>5 DEF c
  <2>7. Carries(d, b)
    <3> HIDE DEF at
    <3> QED BY <2>2, <2>5, <2>6
  <2> QED BY <2>7 DEF b
<1> QED BY <1>3, <1>4

(* One listing of a run carries, and the row it mints is fed (_mint_listing). *)
LEMMA SweepListingCarries ==
  ASSUME NEW d, Legal(d), NEW k \in Keys, vendorSec \in [Keys -> Listing]
  PROVE  Carries(d, SweepListing(d, k))
<1>1. CASE SweepListing(d, k) = d
  BY <1>1, CarriesItself
<1>2. CASE SweepListing(d, k) # d
  <2>1. d.link[k] = None /\ d.minted # MaxSec /\ SweepListing(d, k) = Minted(d, k)
    BY <1>2, Zenon DEF SweepListing
  <2> DEFINE s == d.minted + 1
             v == vendorSec[k]
             row == [sym |-> v.tick, src |-> "sharadar", act |-> TRUE, off |-> 0,
                     name |-> k, of |-> {}, first |-> 0, last |-> 0]
             ln == [sec |-> s, from |-> v.first]
             x == Claimed(d.xref, s, v.tick, v.first)
             o == d.opened /\ Claimable(d.xref, v.tick, v.first)
             c == [d EXCEPT !.minted = s, !.secs[s] = row, !.xref = x, !.opened = o,
                            !.link[k] = ln]
  <2>2. d \in Warehouse
    BY DEF Legal
  <2>3. s \in Ids /\ s \in 0..MaxSec /\ s \notin Rows(d)
    <3>1. d.minted \in 0..MaxSec /\ MaxSec \in Nat
      BY <2>2, Fields, Bounds
    <3>2. s \in Ids /\ s \in 0..MaxSec
      BY <2>1, <3>1 DEF Ids
    <3>3. \A w \in Rows(d) : w <= d.minted
      BY DEF Legal, Known
    <3>4. ~(s <= d.minted)
      BY <3>1
    <3> QED BY <3>2, <3>3, <3>4
  <2>4. v.tick \in Tickers /\ v.first \in 0..MaxDay
    BY DEF Listing
  <2>5. row \in SecurityRow /\ ln \in Link
    <3>1. 0 \in 0..MaxDay
      BY Bounds
    <3> QED BY <2>3, <2>4, <3>1 DEF SecurityRow, Link
  <2>6. x \subseteq Period
    BY <2>2, <2>3, <2>4, Fields, ClaimedTyped
  <2>7. d.secs \in [Ids -> SecurityRow \cup {None}] /\ d.link \in [Keys -> Link \cup {None}]
    BY <2>2, Fields
  <2>8. c.secs = [d.secs EXCEPT ![s] = row] /\ c.link = [d.link EXCEPT ![k] = ln] /\ c.minted = s
    <3> HIDE DEF row, ln, x, s, o
    <3> QED BY <2>2 DEF Warehouse
  <2>9. Minted(d, k) = Written(c)
    <3>1. c = [d EXCEPT !.minted = s, !.secs[s] = row, !.xref = x,
                        !.opened = @ /\ Claimable(d.xref, v.tick, v.first), !.link[k] = ln]
      <4> HIDE DEF row, ln, x, s
      <4> QED BY <2>2 DEF Warehouse
    <3>2. c = [d EXCEPT !.minted = s, !.secs[s] = row, !.xref = Claimed(@, s, v.tick, v.first),
                        !.opened = @ /\ Claimable(d.xref, v.tick, v.first), !.link[k] = ln]
      <4> HIDE DEF row, ln, s
      <4> QED BY <3>1, <2>2 DEF Warehouse
    <3> HIDE DEF c
    <3> QED BY <3>2, Zenon DEF Minted
  <2>10. c \in Warehouse
    <3>1. [d.secs EXCEPT ![s] = row] \in [Ids -> SecurityRow \cup {None}]
      BY <2>3, <2>5, <2>7
    <3>2. [d.link EXCEPT ![k] = ln] \in [Keys -> Link \cup {None}]
      BY <2>5, <2>7
    <3>3. o \in BOOLEAN
      BY <2>2, Fields DEF Claimable
    <3> HIDE DEF row, ln, x, s, o
    <3> QED BY <2>2, <2>3, <2>6, <3>1, <3>2, <3>3 DEF Warehouse
  <2>11. row # None /\ ln # None
    BY <2>5, NoneIsNone
  <2>12. row.of = {} /\ ln.sec = s
    OBVIOUS
  <2> HIDE DEF c, row, ln, x, s, v
  <2>13. Rows(c) = Rows(d) \cup {s}
    BY <2>3, <2>7, <2>8, <2>11 DEF Rows
  <2>14. \A w \in Rows(d) : c.secs[w] = d.secs[w]
    BY <2>3, <2>7, <2>8 DEF Rows
  <2>15. c.secs[s] = row /\ c.link[k] = ln
    BY <2>3, <2>7, <2>8
  <2>16. Known(c)
    <3>1. ASSUME NEW w \in Rows(c) PROVE w <= c.minted
      <4>1. CASE w = s
        BY <4>1, <2>3, <2>8
      <4>2. CASE w \in Rows(d)
        <5>1. w <= d.minted /\ d.minted \in Nat /\ w \in Nat
          BY <4>2, <2>2, Fields DEF Legal, Known, Rows, Ids
        <5> QED BY <5>1, <2>8 DEF s
      <4> QED BY <4>1, <4>2, <2>13
    <3>2. \A q \in Keys : c.link[q] # None => c.link[q].sec \in Rows(c)
      BY <2>7, <2>8, <2>12, <2>13 DEF Legal, Known
    <3>3. \A w \in Rows(c) : Empty(c, w) => c.secs[w].of = {}
      BY <2>12, <2>13, <2>14, <2>15 DEF Legal, Known, Empty
    <3> QED BY <3>1, <3>2, <3>3 DEF Known
  <2>17. Unfed(c) \subseteq Unfed(d)
    <3>1. FedBy(c, s) # {}
      BY <2>11, <2>12, <2>15 DEF FedBy
    <3>2. \A w \in Rows(d) : FedBy(d, w) \subseteq FedBy(c, w)
      BY <2>1, <2>7, <2>8 DEF FedBy
    <3> QED BY <3>1, <3>2, <2>13 DEF Unfed
  <2>18. Carries(d, c)
    BY <2>10, <2>13, <2>14, <2>16, <2>17 DEF Carries, Legal
  <2>19. Carries(c, Written(c))
    BY <2>18, WrittenCarries DEF Carries
  <2> QED BY <2>1, <2>9, <2>18, <2>19, CarriesOn
<1> QED BY <1>1, <1>2

(* A flag moves no bars (_flag_inactive_but_fed). *)
LEMMA FlagInactiveCarries ==
  ASSUME NEW d, Legal(d)
  PROVE  Carries(d, FlagInactive(d))
<1> DEFINE fs == {<<s, d.secs[s].sym>> : s \in {v \in Rows(d) :
                    ~d.secs[v].act /\ Trades(d, v) /\ \E k \in FedBy(d, v) : Live(k)}}
           b == [d EXCEPT !.inactive = fs]
<1>1. d \in Warehouse
  BY DEF Legal
<1>2. fs \subseteq Ids \X Tickers
  BY <1>1, RowFields
<1>3. FlagInactive(d) = b
  BY Zenon DEF FlagInactive
<1> HIDE DEF fs
<1>4. b \in Warehouse /\ b.secs = d.secs /\ b.link = d.link /\ b.minted = d.minted
  BY <1>1, <1>2 DEF Warehouse
<1> HIDE DEF b
<1>5. Carries(d, b)
  BY <1>4, SameRows
<1> QED BY <1>3, <1>5

(* What the sweeps of a run leave. *)
LEMMA AfterRunCarries ==
  ASSUME Legal(db), EventsTyped(events), vendorSec \in [Keys -> Listing]
  PROVE  Carries(db, AfterRun)
<1> DEFINE ns == [s \in Ids |-> IF db.secs[s] = None THEN None ELSE db.secs[s].sym]
           a == [db EXCEPT !.names = ns]
           X == {e \in Warehouse : Carries(db, e)}
           r == SweepRenames(a)
           t == SweepDelistings(r)
           l == SweepListings(t)
           f == FlagInactive(l)
<1>1. db \in Warehouse
  BY DEF Legal
<1>2. ns \in [Ids -> Tickers \cup {None}]
  <2>1. \A s \in Ids : db.secs[s] # None => db.secs[s].sym \in Tickers
    BY <1>1, RowFields DEF Rows
  <2> QED BY <2>1
<1>3. a \in X
  <2> HIDE DEF ns
  <2>1. a \in Warehouse /\ a.secs = db.secs /\ a.link = db.link /\ a.minted = db.minted
    BY <1>1, <1>2 DEF Warehouse
  <2> HIDE DEF a
  <2> QED BY <2>1, SameRows
<1>4. ASSUME NEW e \in X, NEW g, Carries(e, g) PROVE g \in X
  <2>1. Carries(db, g)
    BY <1>4, CarriesOn
  <2> QED BY <2>1 DEF Carries, Legal
<1>5. \A e \in X : Legal(e)
  BY DEF Carries
<1> HIDE DEF X
<1>6. \A q \in Rename, e \in X : SweepRename(e, q) \in X
  BY <1>4, <1>5, SweepRenameCarries
<1>7. r \in X
  <2> HIDE DEF a
  <2> QED BY <1>3, <1>6, RenamesStay
<1>8. \A k \in Keys, e \in X : SweepDelisting(e, k) \in X
  BY <1>4, <1>5, SweepDelistingCarries
<1>9. t \in X
  <2> HIDE DEF r
  <2> QED BY <1>7, <1>8, DelistingsStay
<1>10. \A k \in Keys, e \in X : SweepListing(e, k) \in X
  BY <1>4, <1>5, SweepListingCarries
<1>11. l \in X
  <2> HIDE DEF t
  <2> QED BY <1>9, <1>10, ListingsStay
<1>12. f \in X
  <2> HIDE DEF l
  <2> QED BY <1>11, <1>4, <1>5, FlagInactiveCarries
<1>13. AfterRun = [f EXCEPT !.names = db.names]
  BY Zenon DEF AfterRun
<1> HIDE DEF f
<1> DEFINE b == [f EXCEPT !.names = db.names]
<1>14. f \in Warehouse /\ Legal(f) /\ Carries(db, f)
  BY <1>12, <1>5 DEF X
<1>15. b \in Warehouse /\ b.secs = f.secs /\ b.link = f.link /\ b.minted = f.minted
  <2>1. db.names \in [Ids -> Tickers \cup {None}]
    BY <1>1, Fields
  <2> QED BY <2>1, <1>14 DEF Warehouse
<1> HIDE DEF b
<1>16. Carries(f, b)
  BY <1>14, <1>15, SameRows
<1> QED BY <1>13, <1>14, <1>16, CarriesOn DEF b


(* Only the periods. *)
LEMMA SamePeriods ==
  ASSUME NEW d, Legal(d), NEW x, x \subseteq Period
  PROVE  LET b == [d EXCEPT !.xref = x] IN Carries(d, b) /\ Rows(b) = Rows(d)
<1> DEFINE b == [d EXCEPT !.xref = x]
<1>1. b \in Warehouse /\ b.secs = d.secs /\ b.link = d.link /\ b.minted = d.minted
  BY DEF Warehouse, Legal
<1> HIDE DEF b
<1>2. Carries(d, b) /\ Rows(b) = Rows(d)
  BY <1>1, SameRows DEF Rows
<1> QED BY <1>2 DEF b

-----------------------------------------------------------------------------
(* Relisting *)

(* A delisting that is reversed leaves the bars (reverse_delisting). *)
LEMMA ReversedCarries ==
  ASSUME NEW d, Legal(d), NEW p \in RelistPlans, p.sec \in Rows(d)
  PROVE  Carries(d, Reversed(d, p)) /\ Rows(Reversed(d, p)) = Rows(d)
<1> DEFINE s == p.sec
           row == [d.secs[s] EXCEPT !.off = 0, !.act = TRUE, !.sym = p.new]
           x == (d.xref \ p.periods) \cup {[q EXCEPT !.to = Open] : q \in p.periods}
<1>1. d \in Warehouse /\ s \in Ids /\ d.secs[s] \in SecurityRow
  BY RowFields DEF Legal
<1>2. row \in SecurityRow /\ row.of = d.secs[s].of /\ row.first = d.secs[s].first
  <2>1. p.new \in Tickers /\ 0 \in 0..MaxDay
    BY Bounds DEF RelistPlans
  <2> QED BY <1>1, <2>1 DEF SecurityRow
<1>3. x \subseteq Period
  <2>1. p.periods \subseteq Period
    BY DEF RelistPlans
  <2>2. \A q \in Period : [q EXCEPT !.to = Open] \in Period
    BY DEF Period
  <2> QED BY <1>1, <2>1, <2>2, Fields
<1>4. Reversed(d, p) = Rewritten(d, s, row, x)
  BY <1>1, Fields DEF Reversed, Warehouse, Rewritten
<1> HIDE DEF row, x
<1> QED BY <1>2, <1>3, <1>4, RowRewritten

(* Periods ended before the rename move no bars (end_periods_before_rename). *)
LEMMA EndedBeforeCarries ==
  ASSUME NEW d, Legal(d), NEW p \in RelistPlans, p.day \in CalendarDays
  PROVE  Carries(d, EndedBefore(d, p)) /\ Rows(EndedBefore(d, p)) = Rows(d)
<1> DEFINE x == {IF /\ q.sec = p.sec /\ q.sym = p.old /\ q.to = Later(q.from, p.off)
                    /\ q.to > Later(q.from, p.day - 1)
                 THEN [q EXCEPT !.to = Later(q.from, p.day - 1)] ELSE q : q \in d.xref}
<1>1. d \in Warehouse
  BY DEF Legal
<1>2. \A q \in d.xref : q \in Period /\ [q EXCEPT !.to = Later(q.from, p.day - 1)] \in Period
  <2>1. TAKE q \in d.xref
  <2>2. q \in Period
    BY <1>1, Fields
  <2>3. q.from \in 0..MaxDay /\ p.day - 1 \in 0..MaxDay
    <3>1. MaxDay \in Nat
      BY Bounds
    <3>2. q.from \in 0..MaxDay
      BY <2>2 DEF Period
    <3> QED BY <3>1, <3>2 DEF CalendarDays
  <2>4. Later(q.from, p.day - 1) \in 0..MaxDay
    BY <2>3, LaterIs
  <2> QED BY <2>2, <2>4 DEF Period
<1>3. x \subseteq Period
  BY <1>2
<1>4. EndedBefore(d, p) = [d EXCEPT !.xref = x]
  BY <1>1 DEF EndedBefore, Warehouse
<1> HIDE DEF x
<1> QED BY <1>3, <1>4, SamePeriods

(* What a relisting that goes through leaves. *)
LEMMA RelistedCarries ==
  ASSUME NEW d, Legal(d), NEW p \in RelistPlans, p.sec \notin p.folds,
         p.old # p.new => p.day # None, Relisted(d, p) # None
  PROVE  Carries(d, Relisted(d, p)) /\ Rows(Relisted(d, p)) \subseteq Rows(d)
<1> DEFINE f == IF p.off # 0 /\ p.new # p.old /\ p.folds # {}
                THEN Gone(d, CHOOSE v \in p.folds : TRUE, p.sec) ELSE d
           e == IF p.off # 0 THEN Written(Reversed(f, p))
                ELSE [d EXCEPT !.secs[p.sec].act = @ \/ ~p.act]
           g == IF p.off # 0 THEN EndedBefore(e, p) ELSE e
           h == IF p.new = p.old THEN e
                ELSE Record(Renamed(g, p.sec, p.old, p.new, p.day),
                            p.day, p.old, p.new, "applied", p.sec)
<1>1. /\ p.sec \in Ids /\ p.off \in 0..MaxDay /\ p.act \in BOOLEAN /\ p.old \in Tickers
      /\ p.new \in Tickers /\ p.folds \subseteq Ids /\ p.periods \subseteq Period
      /\ p.new # p.old => p.day \in CalendarDays
  BY DEF RelistPlans
<1>2. /\ d.secs[p.sec] # None
      /\ (p.off # 0 /\ p.new # p.old) => \A v \in p.folds : Foldable(d, v, p.sec)
      /\ p.new # p.old => Renamable(g, p.sec, p.old, p.new)
      /\ Relisted(d, p) = [h EXCEPT !.inactive = {j \in @ : j[1] # p.sec}]
  BY Zenon DEF Relisted
<1>3. p.sec \in Rows(d)
  BY <1>1, <1>2 DEF Rows
<1>4. Carries(d, f) /\ p.sec \in Rows(f) /\ Rows(f) \subseteq Rows(d)
  <2>1. CASE p.off # 0 /\ p.new # p.old /\ p.folds # {}
    <3>1. PICK v \in p.folds : v = CHOOSE w \in p.folds : TRUE
      BY <2>1
    <3>2. f = Gone(d, v, p.sec)
      BY <2>1, <3>1
    <3>3. Foldable(d, v, p.sec) /\ v \in Ids /\ v # p.sec
      BY <2>1, <1>1, <1>2
    <3>4. d.secs[v] # None => d.secs[v].of = {}
      BY <3>3 DEF Foldable, Legal, Known, Rows
    <3> HIDE DEF f
    <3>5. Carries(d, Gone(d, v, p.sec)) /\ Rows(Gone(d, v, p.sec)) = Rows(d) \ {v}
      BY <1>3, <3>3, <3>4, GoneCarries
    <3> QED BY <1>3, <3>2, <3>3, <3>5
  <2>2. CASE ~(p.off # 0 /\ p.new # p.old /\ p.folds # {})
    BY <2>2, <1>3, CarriesItself
  <2> QED BY <2>1, <2>2
<1> HIDE DEF f
<1>5. Carries(d, e) /\ p.sec \in Rows(e) /\ Rows(e) \subseteq Rows(d)
  <2>1. CASE p.off # 0
    <3>1. Legal(f)
      BY <1>4 DEF Carries
    <3>2. Carries(f, Reversed(f, p)) /\ Rows(Reversed(f, p)) = Rows(f)
      BY <1>4, <3>1, ReversedCarries
    <3>3. Carries(Reversed(f, p), Written(Reversed(f, p)))
          /\ Rows(Written(Reversed(f, p))) = Rows(Reversed(f, p))
      BY <3>2, WrittenCarries DEF Carries
    <3>4. e = Written(Reversed(f, p))
      BY <2>1
    <3> HIDE DEF e
    <3>5. Carries(d, e)
      BY <1>4, <3>2, <3>3, <3>4, CarriesOn
    <3> QED BY <1>4, <3>2, <3>3, <3>4, <3>5
  <2>2. CASE p.off = 0
    <3> DEFINE act == d.secs[p.sec].act \/ ~p.act
               row == [d.secs[p.sec] EXCEPT !.act = act]
    <3>1. d \in Warehouse /\ d.secs[p.sec] \in SecurityRow /\ act \in BOOLEAN /\ d.xref \subseteq Period
      BY <1>3, RowFields, Fields DEF Legal
    <3>2. row \in SecurityRow /\ row.of = d.secs[p.sec].of /\ row.first = d.secs[p.sec].first
      <4> HIDE DEF act
      <4> QED BY <3>1 DEF SecurityRow
    <3>3. e = [d EXCEPT !.secs[p.sec].act = @ \/ ~p.act]
      BY <2>2
    <3>4. e = [d EXCEPT !.secs = [d.secs EXCEPT ![p.sec] =
                                    [d.secs[p.sec] EXCEPT !.act = d.secs[p.sec].act \/ ~p.act]]]
      BY <3>3, <3>1, <1>1, Fields, Zenon
    <3> HIDE DEF e
    <3>5. e = [d EXCEPT !.secs = [d.secs EXCEPT ![p.sec] = row]]
      BY <3>4, Zenon
    <3> HIDE DEF row
    <3>6. e = Rewritten(d, p.sec, row, d.xref)
      BY <3>5, <3>1 DEF Rewritten, Warehouse
    <3>7. /\ Carries(d, Rewritten(d, p.sec, row, d.xref))
          /\ Rows(Rewritten(d, p.sec, row, d.xref)) = Rows(d)
      BY <1>3, <3>1, <3>2, RowRewritten
    <3> QED BY <1>3, <3>6, <3>7
  <2> QED BY <2>1, <2>2
<1> HIDE DEF e
<1>6. Carries(d, h) /\ Rows(h) \subseteq Rows(d)
  <2>1. CASE p.new = p.old
    BY <1>5, <2>1
  <2>2. CASE p.new # p.old
    <3>1. Carries(d, g) /\ p.sec \in Rows(g) /\ Rows(g) \subseteq Rows(d)
      <4>1. CASE p.off = 0
        BY <4>1, <1>5
      <4>2. CASE p.off # 0
        <5>1. Legal(e)
          BY <1>5 DEF Carries
        <5>2. p.day \in CalendarDays
          BY <2>2, <1>1
        <5>3. Carries(e, EndedBefore(e, p)) /\ Rows(EndedBefore(e, p)) = Rows(e)
          BY <5>1, <5>2, EndedBeforeCarries
        <5>4. g = EndedBefore(e, p)
          BY <4>2
        <5> HIDE DEF g
        <5> QED BY <1>5, <5>3, <5>4, CarriesOn
      <4> QED BY <4>1, <4>2
    <3>2. Renamable(g, p.sec, p.old, p.new) /\ p.day \in CalendarDays
      BY <2>2, <1>1, <1>2
    <3> HIDE DEF g
    <3> DEFINE c == Renamed(g, p.sec, p.old, p.new, p.day)
               k == Record(c, p.day, p.old, p.new, "applied", p.sec)
    <3>3. Carries(g, c) /\ Rows(c) \subseteq Rows(g)
      <4>1. Legal(g)
        BY <3>1 DEF Carries
      <4> QED BY <4>1, <1>1, <3>1, <3>2, RenamedCarries
    <3> HIDE DEF c
    <3>4. Carries(c, k) /\ Rows(k) = Rows(c)
      <4>1. Legal(c)
        BY <3>3 DEF Carries
      <4> QED BY <4>1, <1>1, <3>2, RecordCarries
    <3>5. h = k
      BY <2>2 DEF c
    <3> HIDE DEF k, h
    <3> QED BY <3>1, <3>3, <3>4, <3>5, CarriesOn
  <2> QED BY <2>1, <2>2
<1> HIDE DEF h
<1> DEFINE b == [h EXCEPT !.inactive = {j \in h.inactive : j[1] # p.sec}]
<1>7. h \in Warehouse /\ Legal(h)
  BY <1>6 DEF Carries, Legal
<1>8. Relisted(d, p) = b
  BY <1>2, <1>7 DEF Warehouse
<1>9. b \in Warehouse /\ b.secs = h.secs /\ b.link = h.link /\ b.minted = h.minted
  BY <1>7, Fields DEF Warehouse
<1> HIDE DEF b
<1>10. Carries(h, b) /\ Rows(b) = Rows(h)
  BY <1>7, <1>9, SameRows DEF Rows
<1> QED BY <1>6, <1>8, <1>10, CarriesOn


(* Who holds a ticker is there. *)
LEMMA HoldersAreRows ==
  ASSUME NEW d \in Warehouse, NEW t
  PROVE  OpenHolders(d, t) \subseteq Ids
<1>1. d.xref \subseteq Period
  BY Fields
<1> QED BY <1>1 DEF OpenHolders, OpenOn, Period

(* The day of a rename is told or given, or there is none (latest_rename_to). *)
LEMMA RenameDayIs ==
  ASSUME EventsTyped(events), NEW k, NEW t, NEW given \in CalendarDays \cup {None}
  PROVE  RenameDay(k, t, given) \in CalendarDays \cup {None}
<1> DEFINE days == {r.day : r \in {q \in RenamesIn(events) : q.key = k /\ q.new = t}}
<1>1. days \subseteq CalendarDays
  BY RenamesTyped DEF Rename
<1>2. days # {} => Max(days) \in CalendarDays
  <2> HIDE DEF days
  <2> QED BY <1>1, LatestDay
<1>3. RenameDay(k, t, given) \in {given, None, Max(days)}
  BY DEF RenameDay
<1>4. days = {} => RenameDay(k, t, given) \in {given, None}
  BY DEF RenameDay
<1> HIDE DEF days
<1> QED BY <1>2, <1>3, <1>4

(* What plan_relist returns is what apply_relist can write: no row is folded into *)
(* itself, and a rename that is allowed has a day. *)
LEMMA RelistPlanTyped ==
  ASSUME NEW d, Legal(d), NEW s \in Rows(d), FedBy(d, s) # {},
         NEW given \in CalendarDays \cup {None}, EventsTyped(events), vendorSec \in [Keys -> Listing]
  PROVE  LET p == RelistPlan(d, s, given)
         IN /\ p \in RelistPlans /\ p.sec \notin p.folds /\ p.of = "relist" /\ p.sec = s
            /\ (p.allowed /\ p.old # p.new) => p.day # None
<1> DEFINE p       == RelistPlan(d, s, given)
           row     == d.secs[s]
           k       == Min(FedBy(d, s))
           t       == vendorSec[k].tick
           on     == RenameDay(k, t, given)
           listed  == Active(d, t)
           holders == (OpenHolders(d, t) \cup ({listed} \ {None})) \ {s}
           folds   == {v \in holders : v = listed /\ Empty(d, v)}
           periods == IF t = row.sym /\ row.off # 0 THEN ClosedByDelisting(d, s) ELSE {}
           allowed == p.allowed
<1>1. d \in Warehouse /\ s \in Ids /\ row \in SecurityRow /\ row.off \in 0..MaxDay /\ row.act \in BOOLEAN
      /\ row.sym \in Tickers
  BY RowFields DEF Legal
<1>2. k \in Keys
  <2>1. FedBy(d, s) \subseteq Keys /\ FedBy(d, s) \subseteq Nat
    BY Bounds DEF FedBy
  <2> QED BY <2>1, MinIsOne
<1>3. t \in Tickers
  BY <1>2 DEF Listing
<1>4. on \in CalendarDays \cup {None}
  BY RenameDayIs
<1>5. folds \subseteq Ids /\ s \notin folds
  <2>1. OpenHolders(d, t) \subseteq Ids
    BY <1>1, HoldersAreRows
  <2>2. listed # None => listed \in Ids
    BY ActiveIs DEF Listed, Rows
  <2> QED BY <2>1, <2>2
<1>6. periods \subseteq Period
  <2>1. ClosedByDelisting(d, s) \subseteq d.xref
    BY DEF ClosedByDelisting
  <2> QED BY <2>1, <1>1, Fields
<1>7. allowed \in BOOLEAN /\ (allowed /\ t # row.sym => on # None)
  BY DEF RelistPlan
<1>8. p = [of |-> "relist", sec |-> s, off |-> row.off, act |-> row.act, old |-> row.sym,
           new |-> t, day |-> on, folds |-> folds, periods |-> periods, allowed |-> allowed]
  BY DEF RelistPlan
<1> HIDE DEF p, row, k, t, on, folds, periods, allowed
<1>9. p \in RelistPlans
  BY <1>1, <1>3, <1>4, <1>5, <1>6, <1>7, <1>8 DEF RelistPlans
<1>10. p.sec = s /\ p.folds = folds /\ p.old = row.sym /\ p.new = t /\ p.day = on
       /\ p.of = "relist" /\ p.allowed = allowed
  BY <1>8
<1> QED BY <1>5, <1>7, <1>9, <1>10 DEF p

-----------------------------------------------------------------------------
(* Merging *)

(* What the other row held the survivor holds. *)
LEMMA MergedIntoIs ==
  ASSUME NEW d, Legal(d), NEW s \in Rows(d), NEW v \in Rows(d), v # s
  PROVE  LET b == MergedInto(d, v, s)
         IN /\ Legal(b) /\ Rows(b) = Rows(d) \ {v} /\ Unfed(b) \subseteq Unfed(d)
            /\ \A w \in Rows(b) : d.secs[w].of \subseteq b.secs[w].of
            /\ d.secs[v].of \subseteq b.secs[s].of
<1> DEFINE row == d.secs[v]
           own == d.secs[s]
           new == [own EXCEPT !.of = @ \cup row.of, !.name = row.name,
                              !.first = Earlier(@, row.first), !.last = Later(@, row.last)]
           e   == Rewritten(d, s, new, d.xref)
           b   == MergedInto(d, v, s)
<1>1. /\ d \in Warehouse /\ s \in Ids /\ v \in Ids /\ own \in SecurityRow /\ row \in SecurityRow
      /\ own.of \subseteq Keys /\ row.of \subseteq Keys /\ row.name \in Keys
      /\ own.first \in 0..MaxDay /\ row.first \in 0..MaxDay
      /\ own.last \in 0..MaxDay /\ row.last \in 0..MaxDay
  BY RowFields DEF Legal
<1>2. Earlier(own.first, row.first) \in 0..MaxDay /\ Later(own.last, row.last) \in 0..MaxDay
  BY <1>1, LaterIs DEF Earlier
<1>3. new \in SecurityRow /\ new.of = own.of \cup row.of /\ new.first = Earlier(own.first, row.first)
  <2>1. own.of \cup row.of \subseteq Keys
    BY <1>1
  <2> QED BY <1>1, <1>2, <2>1 DEF SecurityRow
<1>4. d.secs \in [Ids -> SecurityRow \cup {None}]
  BY <1>1, Fields
<1>5. b = Gone(e, v, s)
  <2> DEFINE bars  == own.of \cup row.of
             first == Earlier(own.first, row.first)
             last  == Later(own.last, row.last)
             f1 == [d.secs EXCEPT ![s].of = bars]
             f2 == [f1 EXCEPT ![s].name = row.name]
             f3 == [f2 EXCEPT ![s].first = first]
             f4 == [f3 EXCEPT ![s].last = last]
  <2>1. new = [own EXCEPT !.of = bars, !.name = row.name, !.first = first, !.last = last]
    BY <1>1 DEF SecurityRow
  <2>2. b = Gone([d EXCEPT !.secs = f4], v, s)
    <3>1. [d EXCEPT !.secs[s].of = @ \cup row.of, !.secs[s].name = row.name,
                    !.secs[s].first = Earlier(@, row.first),
                    !.secs[s].last = Later(@, row.last)] = [d EXCEPT !.secs = f4]
      <4> HIDE DEF bars, first, last
      <4>1. [d EXCEPT !.secs[s].of = own.of \cup row.of, !.secs[s].name = row.name,
                      !.secs[s].first = Earlier(own.first, row.first),
                      !.secs[s].last = Later(own.last, row.last)] = [d EXCEPT !.secs = f4]
        BY <1>1, <1>4 DEF Warehouse, SecurityRow, bars, first, last
      <4> QED BY <4>1, <1>1, <1>4 DEF SecurityRow, Warehouse
    <3> QED BY <3>1 DEF MergedInto
  <2>3. f4 = [d.secs EXCEPT ![s] = new]
    <3> HIDE DEF bars, first, last
    <3>1. f1 = [d.secs EXCEPT ![s] = [own EXCEPT !.of = bars]]
      BY <1>1, <1>4
    <3> QED BY <3>1, <2>1, <1>1, <1>4
  <2> QED BY <2>2, <2>3 DEF Rewritten
<1> HIDE DEF new
<1>6. e.secs = [d.secs EXCEPT ![s] = new] /\ e.link = d.link /\ e.minted = d.minted
  BY <1>1 DEF Rewritten, Warehouse
<1>7. e \in Warehouse
  <2>1. [d.secs EXCEPT ![s] = new] \in [Ids -> SecurityRow \cup {None}]
    BY <1>3, <1>4
  <2> QED BY <1>1, <2>1 DEF Rewritten, Warehouse
<1> HIDE DEF e, b
<1>8. Rows(e) = Rows(d) /\ Unfed(e) = Unfed(d)
  <2>1. Rows(e) = Rows(d)
    BY <1>3, <1>4, <1>6, NoneIsNone DEF Rows
  <2> QED BY <2>1, <1>6 DEF Unfed, FedBy
<1>9. e.secs[s] = new /\ \A w \in Rows(d) : w # s => e.secs[w] = d.secs[w]
  BY <1>1, <1>4, <1>6 DEF Rows
<1>10. Known(e)
  <2>1. \A w \in Rows(e) : Empty(e, w) => e.secs[w].of = {}
    <3>1. ASSUME new.first = 0 PROVE new.of = {}
      <4>1. own.first = 0 /\ row.first = 0
        BY <3>1, <1>1, <1>3 DEF Earlier
      <4>2. own.of = {} /\ row.of = {}
        BY <4>1 DEF Legal, Known, Empty
      <4> QED BY <4>2, <1>3
    <3> QED BY <3>1, <1>8, <1>9 DEF Legal, Known, Empty
  <2> QED BY <2>1, <1>6, <1>8 DEF Legal, Known
<1>11. Legal(e)
  BY <1>7, <1>10 DEF Legal
<1>12. /\ Legal(Gone(e, v, s)) /\ Rows(Gone(e, v, s)) = Rows(e) \ {v}
       /\ \A w \in Rows(Gone(e, v, s)) : Gone(e, v, s).secs[w] = e.secs[w]
       /\ Unfed(Gone(e, v, s)) \subseteq Unfed(e)
  BY <1>1, <1>8, <1>11, GoneLegal
<1>13. Legal(b) /\ Rows(b) = Rows(d) \ {v} /\ Unfed(b) \subseteq Unfed(d)
       /\ \A w \in Rows(b) : b.secs[w] = e.secs[w]
  BY <1>5, <1>8, <1>12
<1>14. \A w \in Rows(b) : d.secs[w].of \subseteq b.secs[w].of
  BY <1>3, <1>9, <1>13
<1>15. d.secs[v].of \subseteq b.secs[s].of
  BY <1>3, <1>9, <1>13
<1> QED BY <1>13, <1>14, <1>15 DEF b

(* What a row held of a company's bars it holds, or the one that is left of it. *)
HeldSomewhere(a, b) ==
  \A s \in Rows(a) : a.secs[s].of # {} =>
    \E v \in Rows(b) : a.secs[s].of \subseteq b.secs[v].of /\ (b.secs[s] # None => v = s)

(* A write that carries leaves the bars where they were. *)
LEMMA CarriesHolds ==
  ASSUME NEW a, NEW b, Carries(a, b)
  PROVE  HeldSomewhere(a, b)
BY DEF Carries, HeldSomewhere

(* A merge across vendors that goes through leaves the bars of both rows on the *)
(* survivor, whatever its relisting does after (apply_cross_vendor_merge). *)
LEMMA MergedAcrossHolds ==
  ASSUME NEW d, Legal(d), NEW p \in MergePlans, p.victim # p.sec, p.sec \notin Unfed(d),
         EventsTyped(events), vendorSec \in [Keys -> Listing], MergedAcross(d, p) # None
  PROVE  LET b == MergedAcross(d, p)
         IN Legal(b) /\ HeldSomewhere(d, b) /\ Unfed(b) \subseteq Unfed(d)
<1> DEFINE v == p.victim
           s == p.sec
           e == MergedInto(d, v, s)
           r == RelistPlan(e, s, None)
           b == MergedAcross(d, p)
<1>1. v \in Ids /\ s \in Ids
  BY DEF MergePlans
<1>2. /\ d.secs[s] # None /\ d.secs[v] # None
      /\ b = e \/ (b = Relisted(e, r) /\ Relisted(e, r) # None)
  BY DEF MergedAcross
<1>3. s \in Rows(d) /\ v \in Rows(d)
  BY <1>1, <1>2 DEF Rows
<1>4. /\ Legal(e) /\ Rows(e) = Rows(d) \ {v} /\ Unfed(e) \subseteq Unfed(d)
      /\ \A w \in Rows(e) : d.secs[w].of \subseteq e.secs[w].of
      /\ d.secs[v].of \subseteq e.secs[s].of
  BY <1>3, MergedIntoIs
<1> HIDE DEF e
<1>5. s \in Rows(e) /\ FedBy(e, s) # {}
  BY <1>3, <1>4 DEF Unfed
<1>6. Carries(e, b) /\ Rows(b) \subseteq Rows(e)
  <2>1. CASE b = e
    BY <2>1, <1>4, CarriesItself
  <2>2. CASE b = Relisted(e, r) /\ Relisted(e, r) # None
    <3>1. r \in RelistPlans /\ r.sec \notin r.folds /\ (r.allowed /\ r.old # r.new => r.day # None)
      BY <1>4, <1>5, RelistPlanTyped
    <3> HIDE DEF r
    <3>2. r.allowed
      BY <2>2, Zenon DEF Relisted
    <3> HIDE DEF b
    <3> QED BY <1>4, <2>2, <3>1, <3>2, RelistedCarries
  <2> QED BY <1>2, <2>1, <2>2
<1> HIDE DEF b
<1>7. HeldSomewhere(d, b)
  <2>1. ASSUME NEW w \in Rows(d), d.secs[w].of # {}
        PROVE  \E u \in Rows(b) : d.secs[w].of \subseteq b.secs[u].of /\ (b.secs[w] # None => u = w)
    <3>1. CASE w # v
      <4>1. w \in Rows(e) /\ d.secs[w].of \subseteq e.secs[w].of
        BY <3>1, <1>4
      <4>2. w \in Rows(b) /\ e.secs[w].of \subseteq b.secs[w].of
        BY <4>1, <2>1, <1>6 DEF Carries
      <4> QED BY <4>1, <4>2
    <3>2. CASE w = v
      <4>1. e.secs[s].of # {} /\ s \in Rows(b) /\ e.secs[s].of \subseteq b.secs[s].of
        BY <3>2, <2>1, <1>4, <1>5, <1>6 DEF Carries
      <4>2. b.secs[w] = None
        BY <3>2, <1>1, <1>4, <1>6 DEF Rows
      <4> QED BY <3>2, <4>1, <4>2, <1>4
    <3> QED BY <3>1, <3>2
  <2> QED BY <2>1 DEF HeldSomewhere
<1>8. Legal(b) /\ Unfed(b) \subseteq Unfed(d)
  BY <1>4, <1>6 DEF Carries
<1> QED BY <1>7, <1>8 DEF b


-----------------------------------------------------------------------------
(* The operator's other commands, and the price load *)

(* A period that is reopened moves no bars (reopen_symbol_period). *)
LEMMA ReopenedCarries ==
  ASSUME NEW d, Legal(d), NEW s, NEW t
  PROVE  Carries(d, Reopened(d, s, t))
<1> DEFINE own == {p \in d.xref : p.sec = s /\ p.sym = t /\ p.to # Open}
           x == {IF p \in own /\ p.to = Max({q.to : q \in own}) THEN [p EXCEPT !.to = Open] ELSE p
                 : p \in d.xref}
           b == [d EXCEPT !.xref = x]
<1>1. d \in Warehouse /\ d.xref \subseteq Period
  BY Fields DEF Legal
<1>2. x \subseteq Period
  <2>1. \A p \in Period : [p EXCEPT !.to = Open] \in Period
    BY DEF Period
  <2> QED BY <1>1, <2>1
<1>3. Reopened(d, s, t) = d \/ Reopened(d, s, t) = Written(b)
  BY <1>1 DEF Reopened, Warehouse
<1> HIDE DEF x
<1>4. Carries(d, b)
  BY <1>2, SamePeriods
<1> HIDE DEF b
<1>5. Carries(b, Written(b))
  BY <1>4, WrittenCarries DEF Carries
<1> QED BY <1>3, <1>4, <1>5, CarriesOn, CarriesItself

(* There are as many ids as the bound says. *)
LEMMA IdsFinite == IsFiniteSet(Ids)
<1>1. MaxSec \in Nat
  BY Bounds
<1> QED BY <1>1, FS_Interval DEF Ids

(* The rows without bars that a dedupe folds take none with them, one after the other. *)
LEMMA FoldedIntoCarries ==
  ASSUME NEW d, Legal(d), NEW keep \in Rows(d), NEW V, V \subseteq Rows(d) \ {keep},
         \A v \in V : Foldable(d, v, keep)
  PROVE  Carries(d, FoldedInto(d, V, keep))
<1> DEFINE X == {e \in Warehouse : /\ Carries(d, e) /\ keep \in Rows(e)
                                   /\ \A v \in V : e.secs[v] # None => e.secs[v].of = {}}
<1>1. V \subseteq Ids /\ keep \notin V
  BY DEF Rows
<1>2. IsFiniteSet(V)
  BY <1>1, IdsFinite, FS_Subset
<1>3. d \in X
  <2>1. \A v \in V : d.secs[v] # None => d.secs[v].of = {}
    BY DEF Foldable, Legal, Known, Rows
  <2> QED BY <2>1, CarriesItself DEF Legal
<1>4. ASSUME NEW v \in V, NEW e \in X PROVE Gone(e, v, keep) \in X
  <2> DEFINE g == Gone(e, v, keep)
  <2>1. Legal(e) /\ Carries(d, e) /\ keep \in Rows(e)
        /\ \A w \in V : e.secs[w] # None => e.secs[w].of = {}
    BY DEF Carries
  <2> HIDE DEF X
  <2>2. v \in Ids /\ v # keep /\ (e.secs[v] # None => e.secs[v].of = {})
    BY <1>1, <2>1
  <2>3. Carries(e, g) /\ Rows(g) = Rows(e) \ {v}
    BY <2>1, <2>2, GoneCarries
  <2>4. \A w \in Rows(g) : g.secs[w] = e.secs[w]
    BY <2>1, <2>2, GoneLegal
  <2> HIDE DEF g
  <2>5. Carries(d, g)
    BY <2>1, <2>3, CarriesOn
  <2>6. g \in Warehouse
    BY <2>3 DEF Carries, Legal
  <2>7. \A w \in V : g.secs[w] # None => g.secs[w].of = {}
    <3>1. TAKE w \in V
    <3>2. HAVE g.secs[w] # None
    <3>3. w \in Rows(g) /\ w \in Rows(e) /\ g.secs[w] = e.secs[w]
      BY <1>1, <2>3, <2>4, <3>2 DEF Rows
    <3> QED BY <2>1, <3>2, <3>3
  <2> QED BY <2>1, <2>2, <2>3, <2>5, <2>6, <2>7 DEF X, g
<1> HIDE DEF X
<1>5. FoldedInto(d, V, keep) \in X
  BY <1>2, <1>3, <1>4, GoneStay
<1> QED BY <1>5 DEF X

(* A dedupe deletes rows without bars only (security_dedupe). *)
LEMMA DedupeCarries ==
  ASSUME NEW t, Legal(db), Dedupe(t)
  PROVE  Carries(db, db')
<1> DEFINE D == Duplicates(t)
           keep == CHOOSE s \in D : ~Empty(db, s)
           V == {v \in D \ {keep} : Foldable(db, v, keep)}
           f == FoldedInto(db, V, keep)
<1>1. D # {} /\ db' = Reopened(f, keep, t)
  BY Zenon DEF Dedupe
<1>2. D \subseteq Rows(db) /\ \E s \in D : ~Empty(db, s)
  <2> DEFINE group == {s \in Rows(db) : db.secs[s].src = "fmp" /\ db.secs[s].sym = t}
  <2>1. D = group /\ Cardinality({s \in group : ~Empty(db, s)}) = 1
    BY <1>1 DEF Duplicates
  <2>2. {s \in group : ~Empty(db, s)} # {}
    BY <2>1, FS_EmptySet
  <2> QED BY <2>1, <2>2
<1> HIDE DEF D
<1>3. keep \in D
  BY <1>2
<1> HIDE DEF keep
<1>4. Carries(db, f)
  <2>1. V \subseteq Rows(db) \ {keep} /\ \A v \in V : Foldable(db, v, keep)
    BY <1>2
  <2>2. keep \in Rows(db)
    BY <1>2, <1>3
  <2> HIDE DEF V
  <2> QED BY <2>1, <2>2, FoldedIntoCarries
<1> HIDE DEF f
<1>5. Carries(f, Reopened(f, keep, t))
  BY <1>4, ReopenedCarries DEF Carries
<1> QED BY <1>1, <1>4, <1>5, CarriesOn

(* What descope leaves is legal, and what is fed stays fed or is gone. *)
LEMMA PurgedLegal ==
  ASSUME NEW d, Legal(d), NEW ids, ids \subseteq Rows(d)
  PROVE  Legal(Purged(d, ids)) /\ Unfed(Purged(d, ids)) \subseteq Unfed(d)
<1> DEFINE open == Unresolved(d, ids)
           ss == [s \in Ids |-> IF s \in ids THEN None ELSE d.secs[s]]
           ln == [k \in Keys |-> IF \E s \in ids : k \in FedBy(d, s) THEN None ELSE d.link[k]]
           xs == {p \in d.xref : p.sec \notin ids}
           Sec(r) == IF r.sec \in ids THEN None ELSE r.sec
           rs == {LET sec == IF r.sec \in ids THEN None ELSE r.sec
                  IN IF r \in open THEN [r EXCEPT !.status = "dismissed", !.sec = sec]
                     ELSE [r EXCEPT !.sec = sec] : r \in d.recorded}
           cs == d.conflicts \ {<<r.old, r.new>> : r \in open}
           js == {j \in d.judged : j[1] \notin ids}
           is == {j \in d.inactive : j[1] \notin ids}
           b == Purged(d, ids)
<1>0. d \in Warehouse
  BY DEF Legal
<1>1. d.secs \in [Ids -> SecurityRow \cup {None}] /\ d.link \in [Keys -> Link \cup {None}]
  BY <1>0, Fields
<1>2. ss \in [Ids -> SecurityRow \cup {None}] /\ ln \in [Keys -> Link \cup {None}]
  BY <1>1
<1>3. xs \subseteq Period /\ cs \subseteq Tickers \X Tickers
      /\ js \subseteq Ids \X Tickers \X CalendarDays /\ is \subseteq Ids \X Tickers
  BY <1>0, Fields
<1>4. rs \subseteq Change
  <2>1. ASSUME NEW r \in Change, NEW sec \in Ids \cup {None}
        PROVE  [r EXCEPT !.status = "dismissed", !.sec = sec] \in Change
               /\ [r EXCEPT !.sec = sec] \in Change
    BY DEF Change
  <2>2. \A r \in Change : (IF r.sec \in ids THEN None ELSE r.sec) \in Ids \cup {None}
    BY DEF Change
  <2>3. d.recorded \subseteq Change
    BY <1>0, Fields
  <2>4. ASSUME NEW r \in d.recorded
        PROVE  (IF r \in open THEN [r EXCEPT !.status = "dismissed", !.sec = Sec(r)]
                ELSE [r EXCEPT !.sec = Sec(r)]) \in Change
    BY <2>1, <2>2, <2>3
  <2>5. rs = {IF r \in open THEN [r EXCEPT !.status = "dismissed", !.sec = Sec(r)]
              ELSE [r EXCEPT !.sec = Sec(r)] : r \in d.recorded}
    OBVIOUS
  <2> HIDE DEF Sec, rs, open
  <2> QED BY <2>4, <2>5
<1>5. b = [d EXCEPT !.secs = ss, !.xref = xs, !.link = ln, !.recorded = rs, !.conflicts = cs,
                    !.judged = js, !.inactive = is]
  BY <1>0, Zenon DEF Purged
<1> HIDE DEF b, xs, rs, cs, js, is, ss, ln
<1>6. b \in Warehouse
  BY <1>0, <1>2, <1>3, <1>4, <1>5 DEF Warehouse
<1>7. b.secs = ss /\ b.link = ln /\ b.minted = d.minted
  BY <1>0, <1>5 DEF Warehouse
<1>8. Rows(b) = Rows(d) \ ids /\ \A s \in Rows(b) : b.secs[s] = d.secs[s]
  BY <1>7 DEF Rows, ss
<1>9. \A k \in Keys : b.link[k] # None => b.link[k] = d.link[k] /\ d.link[k].sec \notin ids
  BY <1>7 DEF ln, FedBy
<1>10. Known(b)
  <2>1. \A s \in Rows(b) : s <= b.minted
    BY <1>7, <1>8 DEF Legal, Known
  <2>2. \A k \in Keys : b.link[k] # None => b.link[k].sec \in Rows(b)
    BY <1>8, <1>9 DEF Legal, Known
  <2>3. \A s \in Rows(b) : Empty(b, s) => b.secs[s].of = {}
    BY <1>8 DEF Legal, Known, Empty
  <2> QED BY <2>1, <2>2, <2>3 DEF Known
<1>11. Unfed(b) \subseteq Unfed(d)
  <2>1. ASSUME NEW s \in Rows(b), NEW k \in FedBy(d, s) PROVE k \in FedBy(b, s)
    <3>1. k \in Keys /\ d.link[k] # None /\ d.link[k].sec = s /\ s \notin ids
      BY <1>8 DEF FedBy
    <3>2. ~ \E v \in ids : k \in FedBy(d, v)
      BY <3>1 DEF FedBy
    <3>3. b.link[k] = d.link[k]
      BY <1>7, <3>1, <3>2 DEF ln
    <3> QED BY <3>1, <3>3 DEF FedBy
  <2> QED BY <2>1, <1>8 DEF Unfed
<1> QED BY <1>6, <1>10, <1>11 DEF Legal, b

(* What the operator declares is no row. *)
LEMMA DeclaredCarries ==
  ASSUME NEW d, Legal(d), NEW ts, ts \subseteq Tickers
  PROVE  Carries(d, [d EXCEPT !.declared = ts])
<1> DEFINE b == [d EXCEPT !.declared = ts]
<1>1. b \in Warehouse /\ b.secs = d.secs /\ b.link = d.link /\ b.minted = d.minted
  BY DEF Warehouse, Legal
<1> HIDE DEF b
<1>2. Carries(d, b)
  BY <1>1, SameRows
<1> QED BY <1>2 DEF b

(* `track add` moves no bars. *)
LEMMA TrackAddCarries ==
  ASSUME NEW t \in Declarable, Legal(db), TrackAdd(t)
  PROVE  Carries(db, db')
<1>1. db \in Warehouse
  BY DEF Legal
<1>2. db.declared \cup {t} \subseteq Tickers
  BY <1>1, Bounds, Fields
<1>3. db' = [db EXCEPT !.declared = db.declared \cup {t}]
  BY <1>1 DEF TrackAdd, Warehouse
<1> QED BY <1>2, <1>3, DeclaredCarries

(* `track rm` marks a row delisted at most. *)
LEMMA TrackRmCarries ==
  ASSUME NEW t \in Declarable, NEW closed \in {None, today}, today \in CalendarDays, Legal(db),
         TrackRm(t, closed)
  PROVE  Carries(db, db')
<1> DEFINE s == Active(db, t)
           d == [db EXCEPT !.declared = db.declared \ {t}]
<1>1. db \in Warehouse
  BY DEF Legal
<1>2. db.declared \ {t} \subseteq Tickers
  BY <1>1, Fields
<1>3. [db EXCEPT !.declared = @ \ {t}] = d
  BY <1>1 DEF Warehouse
<1>4. Carries(db, d)
  BY <1>2, DeclaredCarries
<1>5. Rows(d) = Rows(db)
  BY <1>1 DEF Rows, Warehouse
<1> HIDE DEF d
<1>6. CASE closed = None
  <2>1. db' = d
    BY <1>3, <1>6 DEF TrackRm
  <2> QED BY <1>4, <2>1
<1>7. CASE closed # None
  <2>1. db' = MarkDelisted(d, s, closed) /\ s # None /\ closed \in CalendarDays
    BY <1>3, <1>7 DEF TrackRm
  <2>2. s \in Rows(d)
    BY <1>5, <2>1, ActiveIs DEF Listed
  <2> HIDE DEF s
  <2>3. Carries(d, MarkDelisted(d, s, closed))
    BY <1>4, <2>1, <2>2, MarkDelistedCarries DEF Carries
  <2> QED BY <1>4, <2>1, <2>3, CarriesOn
<1> QED BY <1>6, <1>7

(* The price load adds to what a row holds (`ingest sharadar-prices`). *)
LEMMA LoadPricesCarries ==
  ASSUME Legal(db), today \in CalendarDays, LoadPrices
  PROVE  Carries(db, db')
<1> DEFINE ss == [s \in Ids |-> Loaded(s)]
<1>1. db \in Warehouse /\ db.secs \in [Ids -> SecurityRow \cup {None}]
  BY Fields DEF Legal
<1>2. today \in 1..MaxDay /\ today \in 0..MaxDay /\ today # 0
  <2>1. MaxDay \in Nat
    BY Bounds
  <2> QED BY <2>1 DEF CalendarDays
<1>3. ASSUME NEW s \in Rows(db)
      PROVE  /\ Loaded(s) \in SecurityRow /\ db.secs[s].of \subseteq Loaded(s).of
             /\ Loaded(s).first = 0 => Loaded(s).of = {}
  <2> DEFINE ks == {k \in FedBy(db, s) : Live(k) \/ vendorSec[k].until = today}
             row == db.secs[s]
             of == row.of \cup ks
             first == IF row.first = 0 THEN today ELSE row.first
  <2>1. row \in SecurityRow /\ row.of \subseteq Keys /\ row.first \in 0..MaxDay
    BY <1>1, RowFields
  <2>2. CASE Loaded(s) = row
    BY <2>1, <2>2 DEF Legal, Known, Empty
  <2>3. CASE Loaded(s) # row
    <3>1. Loaded(s) = [row EXCEPT !.of = of, !.first = first, !.last = today]
      BY <2>1, <2>3 DEF Loaded, SecurityRow
    <3>2. of \subseteq Keys /\ first \in 0..MaxDay /\ first # 0
      BY <1>2, <2>1 DEF FedBy
    <3> HIDE DEF of, first, row
    <3>3. Loaded(s) \in SecurityRow /\ Loaded(s).of = of /\ Loaded(s).first = first
      BY <1>2, <2>1, <3>1, <3>2 DEF SecurityRow
    <3> QED BY <3>2, <3>3 DEF of, row
  <2> QED BY <2>2, <2>3
<1>4. \A s \in Ids : db.secs[s] = None => Loaded(s) = None
  BY DEF Loaded
<1>5. ss \in [Ids -> SecurityRow \cup {None}]
  BY <1>3, <1>4 DEF Rows
<1>6. db' = [db EXCEPT !.secs = ss]
  BY DEF LoadPrices
<1>7. \A s \in Ids : ss[s] = Loaded(s)
  OBVIOUS
<1> HIDE DEF ss
<1>8. db' \in Warehouse /\ db'.secs = ss /\ db'.link = db.link /\ db'.minted = db.minted
  BY <1>1, <1>5, <1>6 DEF Warehouse
<1> DEFINE b == db'
<1>9. b \in Warehouse /\ b.secs = ss /\ b.link = db.link /\ b.minted = db.minted
  BY <1>8
<1> HIDE DEF b
<1>10. Rows(b) = Rows(db)
  BY <1>3, <1>4, <1>7, <1>9, NoneIsNone DEF Rows
<1>11. \A s \in Rows(db) : b.secs[s] = Loaded(s)
  BY <1>7, <1>9 DEF Rows
<1>12. Known(b)
  BY <1>3, <1>9, <1>10, <1>11 DEF Known, Legal, Empty
<1>13. Unfed(b) \subseteq Unfed(db)
  BY <1>9, <1>10 DEF Unfed, FedBy
<1>14. Carries(db, b)
  BY <1>3, <1>9, <1>10, <1>11, <1>12, <1>13 DEF Carries, Legal
<1> QED BY <1>14 DEF b


-----------------------------------------------------------------------------
(* The type invariant *)

(* What is spent of the bounds. *)
Counts == [events : 0..MaxEvents, ops : 0..MaxOps, fails : 0..MaxFails]

(* All of it but the warehouse and the plan. *)
Around ==
  /\ today \in CalendarDays
  /\ phase \in {"day", "market", "universe", "prices", "done"}
  /\ vendorSec \in [Keys -> Listing]
  /\ pending \subseteq Event /\ IsFiniteSet(pending) /\ \A e \in pending : Named(e)
  /\ EventsTyped(events)
  /\ anchor \in CalendarDays
  /\ count \in Counts

PlanTyped ==
  /\ plan \in RelistPlans \cup MergePlans \cup {None}
  /\ plan # None => Asked

(* The type invariant in these parts. *)
LEMMA TypedIs == UniverseTyped <=> Around /\ Legal(db) /\ PlanTyped
BY DEF UniverseTyped, Around, EventsTyped, Legal, PlanTyped, Counts

(* A bounded counter takes one more. *)
LEMMA Counted ==
  ASSUME NEW c \in Counts
  PROVE  /\ c.events < MaxEvents => [c EXCEPT !.events = @ + 1] \in Counts
         /\ c.ops < MaxOps => [c EXCEPT !.ops = @ + 1] \in Counts
         /\ c.fails < MaxFails => [c EXCEPT !.fails = @ + 1] \in Counts
<1>1. MaxEvents \in Nat /\ MaxOps \in Nat /\ MaxFails \in Nat
  BY Bounds
<1>2. \A n \in Nat : \A i \in 0..n : i < n => i + 1 \in 0..n
  OBVIOUS
<1>3. c.events < MaxEvents => c.events + 1 \in 0..MaxEvents
  BY <1>1, <1>2 DEF Counts
<1>4. c.ops < MaxOps => c.ops + 1 \in 0..MaxOps
  BY <1>1, <1>2 DEF Counts
<1>5. c.fails < MaxFails => c.fails + 1 \in 0..MaxFails
  BY <1>1, <1>2 DEF Counts
<1> QED BY <1>3, <1>4, <1>5 DEF Counts

(* A plan that waits stays one that may be written, while no row loses its feed. *)
LEMMA PlanStays ==
  ASSUME PlanTyped, plan' = plan, Unfed(db') \subseteq Unfed(db)
  PROVE  PlanTyped'
BY DEF PlanTyped, Asked

(* The situations the cutover left are typed. *)
LEMMA InitTyped == AtCutover => UniverseTyped
<1> SUFFICES ASSUME AtCutover PROVE UniverseTyped
  OBVIOUS
<1>1. PICK c \in Cutover : vendorSec = c.vendor /\ events = c.events /\ db = c.db
  BY DEF AtCutover
<1>2. /\ c.vendor \in [Keys -> Listing]
      /\ c.events \subseteq Event /\ IsFiniteSet(c.events)
      /\ \A e \in c.events : Named(e) /\ e.filed \in Tickers
      /\ c.db \in Warehouse /\ Known(c.db)
  BY UniverseAssumption
<1>3. today \in CalendarDays /\ anchor \in CalendarDays
  <2>1. MaxDay \in Nat /\ MaxDay >= 3 /\ today = 3 /\ anchor = 2
    BY Bounds DEF AtCutover, Day0
  <2> QED BY <2>1 DEF CalendarDays
<1>4. pending = {} /\ IsFiniteSet(pending)
  BY FS_EmptySet DEF AtCutover
<1>5. count \in Counts
  <2>1. count = [events |-> 0, ops |-> 0, fails |-> 0]
    BY DEF AtCutover
  <2>2. 0 \in 0..MaxEvents /\ 0 \in 0..MaxOps /\ 0 \in 0..MaxFails
    BY Bounds
  <2> QED BY <2>1, <2>2 DEF Counts
<1>6. phase = "day" /\ plan = None
  BY DEF AtCutover
<1>7. Around
  BY <1>1, <1>2, <1>3, <1>4, <1>5, <1>6 DEF Around, EventsTyped
<1>8. Legal(db) /\ PlanTyped
  BY <1>1, <1>2, <1>6 DEF Legal, PlanTyped
<1> QED BY <1>7, <1>8, TypedIs

(* What happens at the vendor touches no row. *)
LEMMA MarketTyped ==
  ASSUME UniverseTyped, MarketStep
  PROVE  UniverseTyped' /\ db' = db
<1>a. Around /\ Legal(db) /\ PlanTyped
  BY TypedIs
<1>1. ASSUME NEW rows, NEW listing \in Listing, NEW k \in Keys, Market(rows, listing, k),
             rows \subseteq Event, IsFiniteSet(rows), \A e \in rows : Named(e)
      PROVE  UniverseTyped' /\ db' = db
  <2>1. vendorSec' \in [Keys -> Listing]
    BY <1>1, <1>a DEF Market, Around
  <2>2. pending' \subseteq Event /\ IsFiniteSet(pending') /\ \A e \in pending' : Named(e)
    <3>1. pending' = pending \cup rows
      BY <1>1 DEF Market
    <3>2. IsFiniteSet(pending \cup rows)
      BY <1>1, <1>a, FS_Union DEF Around
    <3> QED BY <3>1, <3>2, <1>1, <1>a DEF Around
  <2>3. count' \in Counts
    BY <1>1, <1>a, Counted DEF Market, Around
  <2>4. today' = today /\ phase' = "market" /\ events' = events /\ anchor' = anchor
        /\ db' = db /\ plan' = plan
    BY <1>1 DEF Market
  <2>5. Around'
    BY <2>1, <2>2, <2>3, <2>4, <1>a DEF Around, EventsTyped
  <2>6. Legal(db)' /\ PlanTyped'
    BY <2>4, <1>a, PlanStays
  <2> QED BY <2>4, <2>5, <2>6, TypedIs, PTL
<1>2. \A k \in Keys, act \in {"from", "to", "listed", "delisted"}, t \in Tickers \cup {None} :
        Told(k, act, t) \in Event /\ (act \in {"from", "to"} => t # None) => Named(Told(k, act, t))
  BY NoneIsNone DEF Told, Event, Named
<1>3. \A k \in Keys, act \in {"from", "to", "listed", "delisted"}, t \in Tickers \cup {None} :
        Told(k, act, t) \in Event
  BY <1>a DEF Told, Event, Around
<1>4. \A k \in Keys : vendorSec[k] \in Listing /\ vendorSec[k].tick \in Tickers
  BY <1>a DEF Around, Listing
<1>5. today \in 0..MaxDay /\ 0 \in 0..MaxDay
  <2>1. MaxDay \in Nat /\ today \in 1..MaxDay
    BY Bounds, <1>a DEF Around, CalendarDays
  <2> QED BY <2>1
<1>6. ASSUME NEW k \in Keys, NEW t \in Tickers, Renames(k, t) PROVE UniverseTyped' /\ db' = db
  <2> DEFINE rows == {Told(k, "from", vendorSec[k].tick), Told(k, "to", t)}
             listing == [vendorSec[k] EXCEPT !.tick = t]
  <2>1. Market(rows, listing, k)
    BY <1>6 DEF Renames
  <2>2. listing \in Listing
    BY <1>4 DEF Listing
  <2>3. rows \subseteq Event /\ \A e \in rows : Named(e)
    BY <1>2, <1>3, <1>4, NoneIsNone
  <2>4. IsFiniteSet(rows)
    <3>1. rows = {Told(k, "from", vendorSec[k].tick)} \cup {Told(k, "to", t)}
      OBVIOUS
    <3> HIDE DEF rows
    <3> QED BY <3>1, FS_Singleton, FS_Union
  <2> HIDE DEF rows, listing
  <2> QED BY <2>1, <2>2, <2>3, <2>4, <1>1
<1>7. ASSUME NEW k \in Keys, NEW t \in Tickers, Lists(k, t) PROVE UniverseTyped' /\ db' = db
  <2> DEFINE rows == {Told(k, "listed", None)}
             listing == [tick |-> t, first |-> today, until |-> 0]
  <2>1. Market(rows, listing, k)
    BY <1>7 DEF Lists
  <2>2. listing \in Listing
    BY <1>5 DEF Listing
  <2>3. rows \subseteq Event /\ \A e \in rows : Named(e)
    BY <1>2, <1>3
  <2>4. IsFiniteSet(rows)
    BY FS_Singleton
  <2> HIDE DEF rows, listing
  <2> QED BY <2>1, <2>2, <2>3, <2>4, <1>1
<1>8. ASSUME NEW k \in Keys, Delists(k) PROVE UniverseTyped' /\ db' = db
  <2> DEFINE rows == {Told(k, "delisted", None)}
             listing == [vendorSec[k] EXCEPT !.until = today]
  <2>1. Market(rows, listing, k)
    BY <1>8 DEF Delists
  <2>2. listing \in Listing
    BY <1>4, <1>5 DEF Listing
  <2>3. rows \subseteq Event /\ \A e \in rows : Named(e)
    BY <1>2, <1>3
  <2>4. IsFiniteSet(rows)
    BY FS_Singleton
  <2> HIDE DEF rows, listing
  <2> QED BY <2>1, <2>2, <2>3, <2>4, <1>1
<1>9. ASSUME NEW k \in Keys, Relists(k) PROVE UniverseTyped' /\ db' = db
  <2> DEFINE rows == {Told(k, "listed", None)}
             listing == [vendorSec[k] EXCEPT !.until = 0]
  <2>1. Market(rows, listing, k)
    BY <1>9 DEF Relists
  <2>2. listing \in Listing
    BY <1>4, <1>5 DEF Listing
  <2>3. rows \subseteq Event /\ \A e \in rows : Named(e)
    BY <1>2, <1>3
  <2>4. IsFiniteSet(rows)
    BY FS_Singleton
  <2> HIDE DEF rows, listing
  <2> QED BY <2>1, <2>2, <2>3, <2>4, <1>1
<1> QED BY <1>6, <1>7, <1>8, <1>9 DEF MarketStep


(* The master files an event under the ticker of its key. *)
LEMMA MasterTyped ==
  ASSUME UniverseTyped, NEW posted \in SUBSET pending, LoadMaster(posted)
  PROVE  UniverseTyped' /\ db' = db
<1>a. Around /\ Legal(db) /\ PlanTyped
  BY TypedIs
<1> DEFINE Filed(e) == [e EXCEPT !.filed = vendorSec[e.key].tick]
           filed == [e \in posted |-> Filed(e)]
           more == {filed[e] : e \in posted}
<1>1. IsFiniteSet(posted) /\ posted \subseteq Event /\ \A e \in posted : Named(e)
  BY <1>a, FS_Subset DEF Around
<1>2. IsFiniteSet(more)
  <2>1. filed \in Surjection(posted, more)
    BY DEF Surjection
  <2> HIDE DEF filed, more
  <2> QED BY <1>1, <2>1, FS_Surjection
<1>3. \A e \in posted : Filed(e) \in Event /\ Named(Filed(e)) /\ Filed(e).filed \in Tickers
  <2>1. TAKE e \in posted
  <2>2. e \in Event /\ Named(e)
    BY <1>1
  <2>3. vendorSec[e.key].tick \in Tickers
    BY <2>2, <1>a DEF Event, Around, Listing
  <2> QED BY <2>2, <2>3 DEF Event, Named
<1>4. \A e \in more : e \in Event /\ Named(e) /\ e.filed \in Tickers
  <2> HIDE DEF Filed
  <2> QED BY <1>3
<1>5. events' = events \cup more
  BY DEF LoadMaster
<1> HIDE DEF more
<1>6. EventsTyped(events)'
  <2>1. IsFiniteSet(events \cup more)
    BY <1>2, <1>a, FS_Union DEF Around, EventsTyped
  <2> QED BY <2>1, <1>4, <1>5, <1>a DEF Around, EventsTyped
<1>7. pending' \subseteq Event /\ IsFiniteSet(pending') /\ \A e \in pending' : Named(e)
  <2>1. pending' = pending \ posted
    BY DEF LoadMaster
  <2>2. IsFiniteSet(pending \ posted)
    BY <1>a, FS_Subset DEF Around
  <2> QED BY <2>1, <2>2, <1>a DEF Around
<1>8. today' = today /\ vendorSec' = vendorSec /\ db' = db /\ anchor' = anchor /\ plan' = plan
      /\ count' = count /\ phase' = "universe"
  BY DEF LoadMaster
<1>9. Around'
  BY <1>6, <1>7, <1>8, <1>a DEF Around
<1>10. Legal(db)' /\ PlanTyped'
  BY <1>8, <1>a, PlanStays
<1> QED BY <1>8, <1>9, <1>10, TypedIs, PTL

(* A step of the warehouse that carries leaves everything typed. *)
LEMMA WriteTyped ==
  ASSUME PlanTyped, Around', Legal(db'), Unfed(db') \subseteq Unfed(db), plan' = plan
  PROVE  UniverseTyped'
<1>1. PlanTyped'
  BY PlanStays
<1>2. Legal(db)'
  OBVIOUS
<1> QED BY <1>1, <1>2, TypedIs, PTL

(* A step of the night carries. *)
LEMMA NightTyped ==
  ASSUME UniverseTyped, NightStep
  PROVE  UniverseTyped' /\ Carries(db, db')
<1>a. Around /\ Legal(db) /\ PlanTyped
  BY TypedIs
<1>b. Carries(db, db)
  BY <1>a, CarriesItself
<1>1. ASSUME NEW posted \in SUBSET pending, LoadMaster(posted)
      PROVE  UniverseTyped' /\ Carries(db, db')
  BY <1>1, <1>b, MasterTyped
<1>2. CASE UniverseRun
  <2>1. db' = AfterRun
    BY <1>2 DEF UniverseRun
  <2>2. Carries(db, AfterRun)
    BY <1>a, AfterRunCarries DEF Around
  <2>3. Carries(db, db')
    BY <2>1, <2>2
  <2>4. Around' /\ plan' = plan
    BY <1>2, <1>a DEF UniverseRun, Around, EventsTyped
  <2>5. Legal(db') /\ Unfed(db') \subseteq Unfed(db)
    BY <2>3 DEF Carries
  <2> QED BY <2>3, <2>4, <2>5, <1>a, WriteTyped
<1>3. CASE RunFails
  <2>1. db' = db /\ plan' = plan
    BY <1>3 DEF RunFails
  <2>2. count' \in Counts
    BY <1>3, <1>a, Counted DEF RunFails, Around
  <2>3. Around'
    BY <1>3, <2>2, <1>a DEF RunFails, Around, EventsTyped
  <2> QED BY <2>1, <2>3, <1>a, <1>b, WriteTyped
<1>4. CASE LoadPrices
  <2>1. Carries(db, db')
    BY <1>4, <1>a, LoadPricesCarries DEF Around
  <2>2. Around' /\ plan' = plan
    BY <1>4, <1>a DEF LoadPrices, Around, EventsTyped
  <2>3. Legal(db') /\ Unfed(db') \subseteq Unfed(db)
    BY <2>1 DEF Carries
  <2> QED BY <2>1, <2>2, <2>3, <1>a, WriteTyped
<1>5. CASE PricesFail
  <2>1. db' = db /\ plan' = plan
    BY <1>5 DEF PricesFail
  <2>2. count' \in Counts
    BY <1>5, <1>a, Counted DEF PricesFail, Around
  <2>3. Around'
    BY <1>5, <2>2, <1>a DEF PricesFail, Around, EventsTyped
  <2> QED BY <2>1, <2>3, <1>a, <1>b, WriteTyped
<1>6. CASE Tomorrow
  <2>1. db' = db /\ plan' = plan
    BY <1>6 DEF Tomorrow
  <2>2. today' \in CalendarDays
    <3>1. MaxDay \in Nat
      BY Bounds
    <3> QED BY <1>6, <1>a, <3>1 DEF Tomorrow, Around, CalendarDays
  <2>3. Around'
    BY <1>6, <2>2, <1>a DEF Tomorrow, Around, EventsTyped
  <2> QED BY <2>1, <2>3, <1>a, <1>b, WriteTyped
<1> QED BY <1>1, <1>2, <1>3, <1>4, <1>5, <1>6 DEF NightStep

(* A command is counted, nothing around the warehouse moves. *)
LEMMA OperatesTyped ==
  ASSUME Around, Operates
  PROVE  Around'
<1>1. count' \in Counts
  BY Counted DEF Operates, Around
<1> QED BY <1>1 DEF Operates, Around, EventsTyped

(* What a confirmed plan leaves. *)
LEMMA ConfirmHolds ==
  ASSUME UniverseTyped, Confirm
  PROVE  Legal(db') /\ HeldSomewhere(db, db') /\ Unfed(db') \subseteq Unfed(db)
<1>a. Around /\ Legal(db) /\ PlanTyped
  BY TypedIs
<1> DEFINE after == IF plan.of = "relist" THEN Relisted(db, plan) ELSE MergedAcross(db, plan)
<1>1. plan # None /\ db' = IF after = None THEN db ELSE after
  BY DEF Confirm
<1>2. Asked /\ plan \in RelistPlans \cup MergePlans
  BY <1>1, <1>a DEF PlanTyped
<1>3. CASE db' = db
  <2>1. Carries(db, db)
    BY <1>a, CarriesItself
  <2> QED BY <1>3, <1>a, <2>1, CarriesHolds
<1>4. CASE db' # db /\ plan.of = "relist"
  <2>1. plan \in RelistPlans
    BY <1>2, <1>4 DEF MergePlans
  <2>2. plan.sec \notin plan.folds /\ (plan.old # plan.new => plan.day # None)
    BY <1>2, <1>4 DEF Asked
  <2>3. db' = Relisted(db, plan) /\ Relisted(db, plan) # None
    BY <1>1, <1>4
  <2>4. Carries(db, Relisted(db, plan))
    BY <1>a, <2>1, <2>2, <2>3, RelistedCarries
  <2>5. Carries(db, db')
    BY <2>3, <2>4
  <2> QED BY <2>5, CarriesHolds DEF Carries
<1>5. CASE db' # db /\ plan.of # "relist"
  <2>1. plan \in MergePlans /\ plan.of = "merge"
    BY <1>2, <1>5 DEF RelistPlans, MergePlans
  <2>2. plan.victim # plan.sec /\ plan.sec \notin Unfed(db)
    BY <1>2, <2>1 DEF Asked
  <2>3. db' = MergedAcross(db, plan) /\ MergedAcross(db, plan) # None
    BY <1>1, <1>5
  <2>4. LET b == MergedAcross(db, plan)
        IN Legal(b) /\ HeldSomewhere(db, b) /\ Unfed(b) \subseteq Unfed(db)
    BY <1>a, <2>1, <2>2, <2>3, MergedAcrossHolds DEF Around
  <2> QED BY <2>3, <2>4
<1> QED BY <1>3, <1>4, <1>5

(* A command of the operator leaves all typed, and but for descope the bars. *)
LEMMA OperatorTyped ==
  ASSUME UniverseTyped, OperatorStep
  PROVE  UniverseTyped' /\ (~Descope => HeldSomewhere(db, db'))
<1>a. Around /\ Legal(db) /\ PlanTyped
  BY TypedIs
<1>b. Carries(db, db) /\ HeldSomewhere(db, db)
  BY <1>a, CarriesItself, CarriesHolds
<1>1. ASSUME NEW p, Ask(p), p \in RelistPlans \cup MergePlans,
             p.of = "relist" => p.sec \notin p.folds /\ (p.old # p.new => p.day # None),
             p.of = "merge" => p.victim # p.sec /\ p.sec \notin Unfed(db)
      PROVE  UniverseTyped' /\ HeldSomewhere(db, db')
  <2>1. Operates /\ plan' = p /\ db' = db
    BY <1>1 DEF Ask
  <2>2. Around'
    BY <2>1, <1>a, OperatesTyped
  <2>3. PlanTyped'
    BY <1>1, <2>1 DEF PlanTyped, Asked
  <2>4. Legal(db)'
    BY <1>a, <2>1
  <2>5. UniverseTyped'
    BY <2>2, <2>3, <2>4, TypedIs, PTL
  <2> QED BY <1>b, <2>1, <2>5
<1>2. ASSUME NEW s \in Ids, NEW given \in {None, today}, AskRelist(s, given)
      PROVE  UniverseTyped' /\ HeldSomewhere(db, db')
  <2> DEFINE p == RelistPlan(db, s, given)
  <2>1. s \in Rows(db) /\ FedBy(db, s) # {} /\ Ask(p)
    BY <1>2 DEF AskRelist
  <2>2. given \in CalendarDays \cup {None}
    BY <1>a DEF Around
  <2>3. /\ p \in RelistPlans /\ p.sec \notin p.folds /\ p.of = "relist"
        /\ (p.allowed /\ p.old # p.new) => p.day # None
    BY <1>a, <2>1, <2>2, RelistPlanTyped DEF Around
  <2>4. p.allowed
    BY <2>1 DEF Ask
  <2> HIDE DEF p
  <2> QED BY <2>1, <2>3, <2>4, <1>1
<1>3. ASSUME NEW v \in Ids, NEW s \in Ids, AskMerge(v, s)
      PROVE  UniverseTyped' /\ HeldSomewhere(db, db')
  <2> DEFINE p == MergePlan(db, v, s)
  <2>1. v # s /\ s \in Rows(db) /\ Ask(p)
    BY <1>3 DEF AskMerge
  <2>2. p.of = "merge" /\ p.victim = v /\ p.sec = s /\ (p.allowed => FedBy(db, s) # {})
        /\ p.allowed \in BOOLEAN
    BY DEF MergePlan
  <2>3. p \in MergePlans
    BY <2>2 DEF MergePlan, MergePlans
  <2>4. s \notin Unfed(db)
    BY <2>1, <2>2 DEF Ask, Unfed
  <2> HIDE DEF p
  <2> QED BY <2>1, <2>2, <2>3, <2>4, <1>1
<1>4. CASE Confirm
  <2>1. Legal(db') /\ HeldSomewhere(db, db')
    BY <1>4, ConfirmHolds
  <2>2. Around' /\ plan' = None
    BY <1>4, <1>a DEF Confirm, Around, EventsTyped
  <2>3. PlanTyped' /\ Legal(db)'
    BY <2>1, <2>2 DEF PlanTyped
  <2>4. UniverseTyped'
    BY <2>2, <2>3, TypedIs, PTL
  <2> QED BY <2>1, <2>4
<1>5. CASE Decline
  <2>1. db' = db /\ plan' = None /\ Around'
    BY <1>5, <1>a DEF Decline, Around, EventsTyped
  <2>2. PlanTyped' /\ Legal(db)'
    BY <2>1, <1>a DEF PlanTyped
  <2>3. UniverseTyped'
    BY <2>1, <2>2, TypedIs, PTL
  <2> QED BY <1>b, <2>1, <2>3
<1>6. ASSUME Operates, plan' = plan, Legal(db'), Unfed(db') \subseteq Unfed(db) PROVE UniverseTyped'
  <2>1. Around'
    BY <1>6, <1>a, OperatesTyped
  <2> QED BY <1>6, <1>a, <2>1, WriteTyped
<1>7. ASSUME Operates, plan' = plan, Carries(db, db') PROVE UniverseTyped' /\ HeldSomewhere(db, db')
  <2>1. Legal(db') /\ Unfed(db') \subseteq Unfed(db)
    BY <1>7 DEF Carries
  <2> QED BY <1>6, <1>7, <2>1, CarriesHolds
<1>8. ASSUME NEW t \in Tickers, Dedupe(t) PROVE UniverseTyped' /\ HeldSomewhere(db, db')
  <2>1. Operates /\ plan' = plan
    BY <1>8 DEF Dedupe
  <2>2. Carries(db, db')
    BY <1>8, <1>a, DedupeCarries
  <2> QED BY <2>1, <2>2, <1>7
<1>9. ASSUME NEW t \in Declarable, TrackAdd(t) PROVE UniverseTyped' /\ HeldSomewhere(db, db')
  <2>1. Operates /\ plan' = plan
    BY <1>9 DEF TrackAdd
  <2>2. Carries(db, db')
    BY <1>9, <1>a, TrackAddCarries
  <2> QED BY <2>1, <2>2, <1>7
<1>10. ASSUME NEW t \in Declarable, NEW closed \in {None, today}, TrackRm(t, closed)
       PROVE  UniverseTyped' /\ HeldSomewhere(db, db')
  <2>1. Operates /\ plan' = plan
    BY <1>10 DEF TrackRm
  <2>2. Carries(db, db')
    BY <1>10, <1>a, TrackRmCarries DEF Around
  <2> QED BY <2>1, <2>2, <1>7
<1>11. ASSUME Descope PROVE UniverseTyped'
  <2>1. Operates /\ plan' = plan /\ db' = Purged(db, OutOfScope(db))
    BY <1>11 DEF Descope
  <2>2. OutOfScope(db) \subseteq Rows(db)
    BY DEF OutOfScope
  <2>3. Legal(db') /\ Unfed(db') \subseteq Unfed(db)
    BY <1>a, <2>1, <2>2, PurgedLegal
  <2> QED BY <2>1, <2>3, <1>6
<1> QED BY <1>2, <1>3, <1>4, <1>5, <1>8, <1>9, <1>10, <1>11 DEF OperatorStep

(* Every state of the universe is typed: the ids of the rows are given in order, an open *)
(* link is a row's, a row without a first bar holds none, what the operator is asked     *)
(* can be written, and a row to merge into has not lost its feed meanwhile.              *)
THEOREM UniverseTypeCorrect == UniverseSpec => []UniverseTyped
<1>1. AtCutover => UniverseTyped
  BY InitTyped
<1>2. UniverseTyped /\ [UniverseNext]_everything => UniverseTyped'
  <2> SUFFICES ASSUME UniverseTyped, [UniverseNext]_everything PROVE UniverseTyped'
    OBVIOUS
  <2>1. CASE MarketStep
    BY <2>1, MarketTyped
  <2>2. CASE NightStep
    BY <2>2, NightTyped
  <2>3. CASE OperatorStep
    BY <2>3, OperatorTyped
  <2>4. CASE UNCHANGED everything
    <3>1. db' = db /\ plan' = plan
      BY <2>4 DEF everything
    <3>2. Around'
      BY <2>4, TypedIs DEF everything, Around, EventsTyped
    <3> QED BY <3>1, <3>2, TypedIs, WriteTyped
  <2> QED BY <2>1, <2>2, <2>3, <2>4 DEF UniverseNext
<1> QED BY <1>1, <1>2, PTL DEF UniverseSpec

(* The bars of a company are never deleted but by descope (BarsKept), whatever the vendor *)
(* tells and in which order the nights, the failures and the commands come.               *)
THEOREM BarsStay == UniverseSpec => BarsKept
<1>1. UniverseTyped /\ [UniverseNext]_everything /\ ~Descope => HeldSomewhere(db, db')
  <2> SUFFICES ASSUME UniverseTyped, [UniverseNext]_everything, ~Descope
               PROVE  HeldSomewhere(db, db')
    OBVIOUS
  <2>0. HeldSomewhere(db, db)
    BY TypedIs, CarriesItself, CarriesHolds
  <2>1. CASE MarketStep
    BY <2>0, <2>1, MarketTyped
  <2>2. CASE NightStep
    BY <2>2, NightTyped, CarriesHolds
  <2>3. CASE OperatorStep
    BY <2>3, OperatorTyped
  <2>4. CASE UNCHANGED everything
    BY <2>0, <2>4 DEF everything
  <2> QED BY <2>1, <2>2, <2>3, <2>4 DEF UniverseNext
<1>2. UniverseTyped /\ [UniverseNext]_everything =>
        [~Descope => \A s \in Rows(db) : db.secs[s].of # {} =>
           \E v \in Rows(db') : /\ db.secs[s].of \subseteq db'.secs[v].of
                                /\ db'.secs[s] # None => v = s]_everything
  BY <1>1 DEF HeldSomewhere
<1> QED BY <1>2, UniverseTypeCorrect, PTL DEF UniverseSpec, BarsKept

-----------------------------------------------------------------------------
(* Who holds a ticker: in a warehouse no index refused and where no claim met a closed *)
(* period, the tickers' open periods are one each and the listed rows hold theirs.    *)
OnePeriod(d) == \A p, q \in d.xref : (p.sym = q.sym /\ p.to = Open /\ q.to = Open) => p = q
Trusted(d)   == d.sound /\ d.opened
HeldBut(d, S) == Trusted(d) => OnePeriod(d) /\ \A w \in Listed(d) \ S : Holds(d, w)
Apart(d) == HeldBut(d, {})

(* A row that held its ticker and lost no open period holds it still. *)
LEMMA HoldsOn ==
  ASSUME NEW a, NEW b, NEW S, NEW T, HeldBut(a, S),
         Trusted(b) =>
           /\ Trusted(a) /\ OnePeriod(b)
           /\ \A w \in Listed(b) \ T :
                \/ Holds(b, w)
                \/ /\ w \in Listed(a) \ S /\ b.secs[w].sym = a.secs[w].sym
                   /\ \A p \in a.xref : (p.sec = w /\ p.to = Open) => p \in b.xref
  PROVE  HeldBut(b, T)
BY DEF HeldBut, Holds, OpenOn

(* Writes that touch neither periods nor names keep the holders. *)
LEMMA SameHolders ==
  ASSUME NEW a, NEW b, NEW S, HeldBut(a, S),
         b.xref = a.xref, b.sound = a.sound, b.opened = a.opened,
         \A w \in Listed(b) : w \in Listed(a) /\ b.secs[w].sym = a.secs[w].sym
  PROVE  HeldBut(b, S)
BY DEF HeldBut, Holds, OpenOn, Trusted, OnePeriod

(* Once the indexes were looked at, a ticker has one open period. *)
LEMMA WrittenFields ==
  ASSUME NEW d \in Warehouse
  PROVE  LET b == Written(d)
         IN /\ b.secs = d.secs /\ b.xref = d.xref /\ b.opened = d.opened
            /\ b.sound => d.sound /\ OnePeriod(d)
<1> DEFINE ok == d.sound /\ Sound(d)
<1>1. Written(d) = [d EXCEPT !.sound = ok]
  BY DEF Written, Warehouse
<1>2. ok => d.sound /\ OnePeriod(d)
  BY DEF Sound, OnePeriod
<1> HIDE DEF ok
<1>3. /\ [d EXCEPT !.sound = ok].secs = d.secs /\ [d EXCEPT !.sound = ok].xref = d.xref
      /\ [d EXCEPT !.sound = ok].opened = d.opened /\ [d EXCEPT !.sound = ok].sound = ok
  BY DEF Warehouse
<1> QED BY <1>1, <1>2, <1>3

(* A closed period is not open, and only the row's own are closed. *)
LEMMA ClosedHolds ==
  ASSUME NEW x, x \subseteq Period, NEW s, NEW ts, NEW on \in 0..MaxDay
  PROVE  /\ \A p \in Closed(x, s, ts, on) : p.to = Open => p \in x
         /\ \A p \in x : p.sec # s => p \in Closed(x, s, ts, on)
<1>1. ASSUME NEW p \in x PROVE [p EXCEPT !.to = Later(p.from, on)].to # Open
  <2>1. Later(p.from, on) \in 0..MaxDay
    BY LaterIs DEF Period
  <2>2. [p EXCEPT !.to = Later(p.from, on)].to = Later(p.from, on)
    BY DEF Period
  <2>3. -1 \notin 0..MaxDay
    BY Bounds
  <2> QED BY <2>1, <2>2, <2>3 DEF Open
<1> QED BY <1>1 DEF Closed

(* A claim that meets no closed period gives the claimant the ticker, and takes no other *)
(* ticker from anyone (upsert_symbol_xref). *)
LEMMA ClaimedHolds ==
  ASSUME NEW x, x \subseteq Period, NEW s, NEW t, NEW from, Claimable(x, t, from)
  PROVE  /\ \E p \in Claimed(x, s, t, from) : p.sec = s /\ p.sym = t /\ p.to = Open
         /\ \A p \in x : p.sym # t \/ p.to # Open => p \in Claimed(x, s, t, from)
<1> DEFINE at == {p \in x : p.sym = t /\ p.from = from}
           c == [sym |-> t, sec |-> s, from |-> from, to |-> Open]
<1>1. CASE at = {}
  <2>1. Claimed(x, s, t, from) = x \cup {c}
    BY <1>1 DEF Claimed
  <2>2. c.sec = s /\ c.sym = t /\ c.to = Open
    OBVIOUS
  <2> QED BY <2>1, <2>2
<1>2. CASE at # {}
  <2>1. Claimed(x, s, t, from)
          = {IF p \in at /\ p.to = Open THEN [p EXCEPT !.sec = s] ELSE p : p \in x}
    BY <1>2 DEF Claimed
  <2>2. PICK p \in at : TRUE
    BY <1>2
  <2>3. p \in x /\ p.sym = t /\ p.to = Open /\ p \in Period
    BY <2>2 DEF Claimable
  <2>4. [p EXCEPT !.sec = s].sec = s /\ [p EXCEPT !.sec = s].sym = t
        /\ [p EXCEPT !.sec = s].to = Open
    BY <2>3 DEF Period
  <2>5. [p EXCEPT !.sec = s] \in Claimed(x, s, t, from)
    BY <2>1, <2>2, <2>3
  <2>6. \A q \in x : q.sym # t \/ q.to # Open => q \in Claimed(x, s, t, from)
    BY <2>1
  <2> QED BY <2>4, <2>5, <2>6
<1> QED BY <1>1, <1>2

(* What a row written anew leaves as it was. *)
LEMMA RewrittenFields ==
  ASSUME NEW e \in Warehouse, NEW s, NEW row, NEW x
  PROVE  LET b == Rewritten(e, s, row, x)
         IN /\ b.secs = [e.secs EXCEPT ![s] = row] /\ b.xref = x
            /\ b.sound = e.sound /\ b.opened = e.opened
BY DEF Rewritten, Warehouse

(* A row that is delisted holds nothing, and needs nothing (mark_delisted). *)
LEMMA MarkDelistedHolds ==
  ASSUME NEW d, Legal(d), NEW s \in Rows(d), NEW on \in CalendarDays, Apart(d)
  PROVE  LET b == MarkDelisted(d, s, on) IN Apart(b) /\ b.sound = d.sound
<1> DEFINE row == [d.secs[s] EXCEPT !.off = on, !.act = FALSE]
           x == Closed(d.xref, s, Tickers, on)
           b == Rewritten(d, s, row, x)
<1>1. on \in 0..MaxDay /\ on # 0 /\ d \in Warehouse /\ s \in Ids /\ d.secs[s] \in SecurityRow
      /\ d.xref \subseteq Period /\ d.secs \in [Ids -> SecurityRow \cup {None}]
  BY Bounds, RowFields, Fields DEF CalendarDays, Legal
<1>2. row.off = on
  BY <1>1 DEF SecurityRow
<1>3. /\ \A p \in x : p.to = Open => p \in d.xref
      /\ \A p \in d.xref : p.sec # s => p \in x
  BY <1>1, ClosedHolds
<1>4. MarkDelisted(d, s, on) = b
  BY <1>1, Fields DEF MarkDelisted, Warehouse, Rewritten
<1>5. b.secs = [d.secs EXCEPT ![s] = row] /\ b.xref = x /\ b.sound = d.sound /\ b.opened = d.opened
  BY <1>1, RewrittenFields
<1> HIDE DEF row, x, b
<1>6. \A w \in Listed(b) : w # s /\ w \in Listed(d) /\ b.secs[w] = d.secs[w]
  BY <1>1, <1>2, <1>5 DEF Listed, Rows
<1>7. Trusted(b) => Trusted(d) /\ OnePeriod(b)
  BY <1>3, <1>5 DEF Trusted, OnePeriod, Apart, HeldBut
<1>8. \A w \in Listed(b) \ {} :
        /\ w \in Listed(d) \ {} /\ b.secs[w].sym = d.secs[w].sym
        /\ \A p \in d.xref : (p.sec = w /\ p.to = Open) => p \in b.xref
  BY <1>3, <1>5, <1>6
<1>9. HeldBut(b, {})
  BY <1>7, <1>8, HoldsOn DEF Apart
<1> QED BY <1>4, <1>5, <1>9 DEF Apart

(* The fields of a warehouse that a row is deleted from. *)
LEMMA GoneFields ==
  ASSUME NEW d \in Warehouse, NEW v, NEW s
  PROVE  LET b == Gone(d, v, s)
         IN /\ b.secs = [d.secs EXCEPT ![v] = None] /\ b.xref = {p \in d.xref : p.sec # v}
            /\ b.sound = d.sound /\ b.opened = d.opened
BY DEF Gone, Warehouse

(* A row that is deleted takes its own periods only (fold_empty_security). *)
LEMMA GoneHolds ==
  ASSUME NEW d \in Warehouse, NEW v, NEW s, NEW S, HeldBut(d, S)
  PROVE  LET b == Gone(d, v, s) IN HeldBut(b, S) /\ b.sound = d.sound
<1> DEFINE b == Gone(d, v, s)
<1>1. /\ b.secs = [d.secs EXCEPT ![v] = None] /\ b.xref = {p \in d.xref : p.sec # v}
      /\ b.sound = d.sound /\ b.opened = d.opened
  BY GoneFields
<1>2. d.secs \in [Ids -> SecurityRow \cup {None}]
  BY Fields
<1> HIDE DEF b
<1>3. \A w \in Listed(b) : w # v /\ w \in Listed(d) /\ b.secs[w] = d.secs[w]
  BY <1>1, <1>2 DEF Listed, Rows
<1>4. Trusted(b) => Trusted(d) /\ OnePeriod(b)
  BY <1>1 DEF Trusted, OnePeriod, HeldBut
<1>5. \A w \in Listed(b) \ S :
        /\ w \in Listed(d) \ S /\ b.secs[w].sym = d.secs[w].sym
        /\ \A p \in d.xref : (p.sec = w /\ p.to = Open) => p \in b.xref
  BY <1>1, <1>3
<1>6. HeldBut(b, S)
  BY <1>4, <1>5, HoldsOn
<1> QED BY <1>1, <1>6 DEF b

(* Where a ticker has one open period, the listed row that holds it is the one the    *)
(* ticker is live on (active_security_for_symbol). *)
LEMMA HolderIsActive ==
  ASSUME NEW d, OnePeriod(d), NEW w \in Listed(d), NEW q \in d.xref, q.sec = w, q.to = Open
  PROVE  Active(d, q.sym) = w
<1> DEFINE held == OpenHolders(d, q.sym) \cap Listed(d)
<1>1. q \in OpenOn(d, q.sym)
  BY DEF OpenOn
<1>2. \A p \in OpenOn(d, q.sym) : p = q
  BY DEF OpenOn, OnePeriod
<1>3. OpenHolders(d, q.sym) = {w}
  BY <1>1, <1>2 DEF OpenHolders
<1>4. held = {w}
  BY <1>3
<1>5. Active(d, q.sym) = Min(held)
  BY <1>4 DEF Active
<1>6. {w} \subseteq Nat
  BY DEF Listed, Rows, Ids
<1>7. Min({w}) \in {w}
  BY <1>6, MinIsOne
<1> QED BY <1>4, <1>5, <1>7

(* What a rename leaves: who was folded, whose period was closed, what was claimed. *)
LEMMA RenamedIs ==
  ASSUME NEW d, Legal(d), NEW s \in Rows(d), NEW old \in Tickers, NEW new \in Tickers,
         NEW on \in CalendarDays
  PROVE  LET v  == Active(d, new)
             e  == IF v \in {None, s} THEN d ELSE Gone(d, v, s)
             y  == Closed(e.xref, s, {old}, on - 1)
             to == IF e.secs[s].off = 0 THEN new ELSE e.secs[s].sym
             b  == Renamed(d, s, old, new, on)
         IN /\ Legal(e) /\ s \in Rows(e) /\ y \subseteq Period
            /\ b.secs = [e.secs EXCEPT ![s] = [e.secs[s] EXCEPT !.sym = to]]
            /\ b.xref = Claimed(y, s, new, on)
            /\ b.opened = (e.opened /\ Claimable(y, new, on))
            /\ b.sound => e.sound /\ OnePeriod(b)
<1> DEFINE v == Active(d, new)
           e == IF v \in {None, s} THEN d ELSE Gone(d, v, s)
           y == Closed(e.xref, s, {old}, on - 1)
           x == Claimed(y, s, new, on)
           o == e.opened /\ Claimable(y, new, on)
           to == IF e.secs[s].off = 0 THEN new ELSE e.secs[s].sym
           row == [e.secs[s] EXCEPT !.sym = to]
           b == [e EXCEPT !.xref = x, !.opened = o, !.secs = [e.secs EXCEPT ![s] = row]]
<1>1. Legal(e) /\ s \in Rows(e)
  <2>1. CASE v \in {None, s}
    BY <2>1
  <2>2. CASE v \notin {None, s}
    <3>1. v \in Ids
      BY <2>2, ActiveIs DEF Listed, Rows
    <3>2. Legal(Gone(d, v, s)) /\ Rows(Gone(d, v, s)) = Rows(d) \ {v}
      BY <2>2, <3>1, GoneLegal
    <3> QED BY <2>2, <3>2
  <2> QED BY <2>1, <2>2
<1> HIDE DEF e, v
<1>2. e \in Warehouse /\ s \in Ids /\ e.secs[s] \in SecurityRow /\ e.opened \in BOOLEAN
      /\ e.secs \in [Ids -> SecurityRow \cup {None}] /\ e.xref \subseteq Period
  BY <1>1, RowFields, Fields DEF Legal
<1>3. on \in 0..MaxDay /\ on - 1 \in 0..MaxDay
  BY Bounds DEF CalendarDays
<1>4. y \subseteq Period
  BY <1>2, <1>3, ClosedTyped
<1>5. x \subseteq Period
  <2> HIDE DEF y
  <2> QED BY <1>2, <1>3, <1>4, ClaimedTyped
<1>6. row \in SecurityRow
  <2>1. to \in Tickers
    BY <1>2 DEF SecurityRow
  <2> HIDE DEF to
  <2> QED BY <1>2, <2>1 DEF SecurityRow
<1>7. o \in BOOLEAN
  BY <1>2 DEF Claimable
<1>8. Renamed(d, s, old, new, on) = Written(b)
  <2>1. b = [e EXCEPT !.xref = x, !.opened = o, !.secs[s].sym = to]
    BY <1>2 DEF Warehouse
  <2>2. b = [e EXCEPT !.xref = x, !.opened = @ /\ Claimable(y, new, on),
                      !.secs[s].sym = IF e.secs[s].off = 0 THEN new ELSE @]
    <3> HIDE DEF x, y
    <3> QED BY <2>1, <1>2
  <2>3. b = [e EXCEPT !.xref = Claimed(y, s, new, on), !.opened = @ /\ Claimable(y, new, on),
                      !.secs[s].sym = IF e.secs[s].off = 0 THEN new ELSE @]
    BY <2>2 DEF x
  <2> HIDE DEF b, o, to, x, row
  <2> QED BY <2>3, Zenon DEF Renamed, y, e, v
<1> DEFINE ss == [e.secs EXCEPT ![s] = row]
<1>9. ss \in [Ids -> SecurityRow \cup {None}]
  BY <1>2, <1>6
<1>10. b = [e EXCEPT !.xref = x, !.opened = o, !.secs = ss]
  OBVIOUS
<1> HIDE DEF b, o, x, row, ss
<1>11. b \in Warehouse /\ b.secs = ss /\ b.xref = x /\ b.opened = o /\ b.sound = e.sound
  BY <1>2, <1>5, <1>7, <1>9, <1>10 DEF Warehouse
<1> DEFINE w == Written(b)
<1>12. w.secs = ss /\ w.xref = x /\ w.opened = o /\ (w.sound => e.sound /\ OnePeriod(b))
  BY <1>11, WrittenFields
<1>13. OnePeriod(b) => OnePeriod(w)
  BY <1>11, <1>12 DEF OnePeriod
<1> HIDE DEF w
<1>14. w = Renamed(d, s, old, new, on)
  BY <1>8 DEF w
<1> QED BY <1>1, <1>4, <1>12, <1>13, <1>14 DEF e, v, o, x, row, ss

(* A rename robs no listed row: a listed row that holds the new ticker is the one the  *)
(* ticker is live on, and is folded.  The row that is renamed holds the new one.       *)
LEMMA RenamedHolds ==
  ASSUME NEW d, Legal(d), NEW s \in Rows(d), NEW old \in Tickers, NEW new \in Tickers,
         NEW on \in CalendarDays, HeldBut(d, {s})
  PROVE  LET b == Renamed(d, s, old, new, on) IN Apart(b) /\ (b.sound => d.sound)
<1> DEFINE v == Active(d, new)
           e == IF v \in {None, s} THEN d ELSE Gone(d, v, s)
           y == Closed(e.xref, s, {old}, on - 1)
           to == IF e.secs[s].off = 0 THEN new ELSE e.secs[s].sym
           b == Renamed(d, s, old, new, on)
<1>1. /\ Legal(e) /\ s \in Rows(e) /\ y \subseteq Period
      /\ b.secs = [e.secs EXCEPT ![s] = [e.secs[s] EXCEPT !.sym = to]]
      /\ b.xref = Claimed(y, s, new, on)
      /\ b.opened = (e.opened /\ Claimable(y, new, on))
      /\ b.sound => e.sound /\ OnePeriod(b)
  BY RenamedIs
<1>2. d \in Warehouse /\ d.secs \in [Ids -> SecurityRow \cup {None}]
  BY Fields DEF Legal
<1>3. e.sound = d.sound /\ e.opened = d.opened /\ e.xref \subseteq d.xref /\ HeldBut(e, {s})
      /\ \A w \in Listed(e) : w \in Listed(d) /\ (w = v => w = s)
  <2>1. CASE v \in {None, s}
    <3>1. e = d
      BY <2>1
    <3>2. \A w \in Listed(d) : w # None
      BY NoneIsNone DEF Listed, Rows
    <3> QED BY <2>1, <3>1, <3>2
  <2>2. CASE v \notin {None, s}
    <3>1. e = Gone(d, v, s)
      BY <2>2
    <3>2. /\ e.secs = [d.secs EXCEPT ![v] = None] /\ e.xref = {p \in d.xref : p.sec # v}
          /\ e.sound = d.sound /\ e.opened = d.opened
      <4> DEFINE g == Gone(d, v, s)
      <4>1. /\ g.secs = [d.secs EXCEPT ![v] = None] /\ g.xref = {p \in d.xref : p.sec # v}
            /\ g.sound = d.sound /\ g.opened = d.opened
        <5> HIDE DEF v, e
        <5> QED BY <1>2, GoneFields
      <4>2. e = g
        BY <3>1
      <4> HIDE DEF e, g
      <4> QED BY <4>1, <4>2
    <3>3. HeldBut(e, {s})
      <4> HIDE DEF e, v
      <4> QED BY <1>2, <3>1, GoneHolds
    <3> HIDE DEF e
    <3>4. \A w \in Listed(e) : w # v /\ w \in Listed(d)
      BY <1>2, <3>2 DEF Listed, Rows
    <3> QED BY <3>2, <3>3, <3>4
  <2> QED BY <2>1, <2>2
<1> HIDE DEF b, to
<1>4. /\ e.secs \in [Ids -> SecurityRow \cup {None}] /\ e.xref \subseteq Period
      /\ on - 1 \in 0..MaxDay /\ s \in Ids /\ e.secs[s] \in SecurityRow
  <2>1. on - 1 \in 0..MaxDay
    BY Bounds DEF CalendarDays
  <2> HIDE DEF e
  <2> QED BY <1>1, <2>1, Fields, RowFields DEF Legal
<1>5. \A p \in e.xref : p.sec # s => p \in y
  BY <1>4, ClosedHolds
<1> HIDE DEF e, y
<1>6. \A w \in Listed(b) : w \in Listed(e) /\ (w # s => b.secs[w] = e.secs[w])
                           /\ (w = s => b.secs[w].sym = new)
  <2>1. ASSUME NEW w \in Listed(b), w # s
        PROVE  w \in Listed(e) /\ b.secs[w] = e.secs[w]
    BY <1>1, <1>4, <2>1 DEF Listed, Rows
  <2>2. ASSUME s \in Listed(b) PROVE s \in Listed(e) /\ b.secs[s].sym = new
    <3>1. b.secs[s] = [e.secs[s] EXCEPT !.sym = to]
      BY <1>1, <1>4
    <3>2. b.secs[s].off = e.secs[s].off /\ b.secs[s].sym = to
      BY <1>4, <3>1 DEF SecurityRow
    <3>3. e.secs[s].off = 0
      BY <2>2, <3>2 DEF Listed
    <3> QED BY <1>1, <3>2, <3>3 DEF Listed, to
  <2> QED BY <2>1, <2>2
<1>7. SUFFICES ASSUME Trusted(b) PROVE OnePeriod(b) /\ \A w \in Listed(b) : Holds(b, w)
  <2>1. b.sound => d.sound
    BY <1>1, <1>3
  <2> QED BY <1>7, <2>1 DEF Apart, HeldBut, b
<1>8. OnePeriod(b) /\ Trusted(d) /\ Trusted(e) /\ Claimable(y, new, on)
  BY <1>1, <1>3, <1>7 DEF Trusted
<1>9. /\ \E p \in b.xref : p.sec = s /\ p.sym = new /\ p.to = Open
      /\ \A p \in y : p.sym # new \/ p.to # Open => p \in b.xref
  BY <1>1, <1>8, ClaimedHolds
<1>10. ASSUME NEW w \in Listed(b) PROVE Holds(b, w)
  <2>1. CASE w = s
    BY <1>6, <1>9, <2>1 DEF Holds, OpenOn
  <2>2. CASE w # s
    <3>1. w \in Listed(e) /\ w \in Listed(d) /\ b.secs[w] = e.secs[w] /\ w # v
      BY <1>3, <1>6, <2>2
    <3>2. PICK p \in e.xref : p.sec = w /\ p.sym = e.secs[w].sym /\ p.to = Open
      BY <1>3, <1>8, <2>2, <3>1 DEF HeldBut, Holds, OpenOn
    <3>3. p.sym # new
      <4>1. OnePeriod(d)
        BY <1>8 DEF HeldBut
      <4>2. Active(d, p.sym) = w
        BY <1>3, <3>1, <3>2, <4>1, HolderIsActive
      <4> QED BY <3>1, <4>2 DEF v
    <3>4. p \in b.xref
      BY <1>5, <1>9, <2>2, <3>2, <3>3
    <3> QED BY <3>1, <3>2, <3>4 DEF Holds, OpenOn
  <2> QED BY <2>1, <2>2
<1> QED BY <1>8, <1>10

(* A rename recorded moves no name (record_symbol_change). *)
LEMMA RecordHolds ==
  ASSUME NEW d \in Warehouse, NEW on, NEW old, NEW new, NEW status, NEW s, NEW S, HeldBut(d, S)
  PROVE  LET b == Record(d, on, old, new, status, s)
         IN HeldBut(b, S) /\ b.sound = d.sound
<1> DEFINE b == Record(d, on, old, new, status, s)
<1>1. b.secs = d.secs /\ b.xref = d.xref /\ b.sound = d.sound /\ b.opened = d.opened
  BY DEF Record, Warehouse
<1> HIDE DEF b
<1>2. \A w \in Listed(b) : w \in Listed(d) /\ b.secs[w].sym = d.secs[w].sym
  BY <1>1 DEF Listed, Rows
<1>3. HeldBut(b, S)
  BY <1>1, <1>2, SameHolders
<1> QED BY <1>1, <1>3 DEF b

(* One rename of a run (_apply_renames). *)
LEMMA SweepRenameHolds ==
  ASSUME NEW d, Legal(d), Apart(d), NEW r \in Rename
  PROVE  Apart(SweepRename(d, r))
<1> DEFINE s == d.link[r.key].sec
           b == SweepRename(d, r)
<1>1. /\ r.key \in Keys /\ r.day \in CalendarDays /\ r.old \in Tickers /\ r.new \in Tickers
      /\ d \in Warehouse
  BY DEF Rename, Legal
<1>2. CASE d.link[r.key] = None
  BY <1>2 DEF SweepRename
<1>3. CASE d.link[r.key] # None
  <2>1. s \in Rows(d) /\ s \in Ids
    BY <1>1, <1>3, LinkFields DEF Rows
  <2>2. \A status : Apart(Record(d, r.day, r.old, r.new, status, s))
    BY <1>1, RecordHolds DEF Apart
  <2>3. ASSUME Renamable(d, s, r.old, r.new)
        PROVE  LET e == [Renamed(d, s, r.old, r.new, r.day) EXCEPT !.names[s] = r.new]
               IN Apart(Record(e, r.day, r.old, r.new, "applied", s))
    <3> DEFINE c == Renamed(d, s, r.old, r.new, r.day)
               e == [c EXCEPT !.names[s] = r.new]
    <3>1. Apart(c)
      <4>1. HeldBut(d, {s})
        BY DEF Apart, HeldBut
      <4> HIDE DEF s
      <4> QED BY <1>1, <2>1, <4>1, RenamedHolds
    <3>2. c \in Warehouse
      <4> HIDE DEF s
      <4> QED BY <1>1, <2>1, <2>3, RenamedCarries DEF Carries, Legal
    <3> HIDE DEF c
    <3>3. [c.names EXCEPT ![s] = r.new] \in [Ids -> Tickers \cup {None}]
      BY <1>1, <3>2, Fields
    <3>4. /\ e \in Warehouse /\ e.secs = c.secs /\ e.xref = c.xref
          /\ e.sound = c.sound /\ e.opened = c.opened
      BY <3>2, <3>3 DEF Warehouse
    <3> HIDE DEF e
    <3>5. \A w \in Listed(e) : w \in Listed(c) /\ e.secs[w].sym = c.secs[w].sym
      BY <3>4 DEF Listed, Rows
    <3>6. HeldBut(e, {})
      BY <3>1, <3>4, <3>5, SameHolders DEF Apart
    <3>7. Apart(Record(e, r.day, r.old, r.new, "applied", s))
      <4> HIDE DEF s
      <4> QED BY <3>4, <3>6, RecordHolds DEF Apart
    <3> QED BY <3>7 DEF e, c
  <2> QED BY <1>3, <2>2, <2>3 DEF SweepRename
<1> QED BY <1>2, <1>3

(* One delisting of a run (_apply_delistings). *)
LEMMA SweepDelistingHolds ==
  ASSUME NEW d, Legal(d), Apart(d), NEW k \in Keys, EventsTyped(events)
  PROVE  Apart(SweepDelisting(d, k))
<1> DEFINE own  == {e \in Window : e.key = k}
           days == {e.day : e \in {f \in own : f.act = "delisted"}}
           on   == Max(days)
           s    == d.link[k].sec
           at   == <<s, d.secs[s].sym, on>>
           b    == SweepDelisting(d, k)
<1>1. days \subseteq CalendarDays
  BY DEF EventsTyped, Window, Event
<1>2. CASE b = d
  BY <1>2
<1>3. CASE b # d
  <2>1. days # {} /\ d.link[k] # None
    BY <1>3, Zenon DEF SweepDelisting
  <2>2. b = [d EXCEPT !.judged = @ \cup {at}] \/ b = MarkDelisted(d, s, on)
    BY <1>3, Zenon DEF SweepDelisting
  <2> HIDE DEF b
  <2>3. on \in CalendarDays
    <3> HIDE DEF days
    <3> QED BY <1>1, <2>1, LatestDay
  <2>4. s \in Rows(d)
    BY <2>1, LinkFields
  <2> HIDE DEF on, s, at
  <2>5. Apart(MarkDelisted(d, s, on))
    BY <2>3, <2>4, MarkDelistedHolds
  <2>6. Apart([d EXCEPT !.judged = @ \cup {at}])
    <3> DEFINE c == [d EXCEPT !.judged = @ \cup {at}]
    <3>1. c.secs = d.secs /\ c.xref = d.xref /\ c.sound = d.sound /\ c.opened = d.opened
      BY DEF Legal, Warehouse
    <3> HIDE DEF c
    <3>2. \A w \in Listed(c) : w \in Listed(d) /\ c.secs[w].sym = d.secs[w].sym
      BY <3>1 DEF Listed, Rows
    <3>3. HeldBut(c, {})
      BY <3>1, <3>2, SameHolders DEF Apart
    <3> QED BY <3>3 DEF Apart, c
  <2>7. Apart(b)
    BY <2>2, <2>5, <2>6
  <2> QED BY <2>7 DEF b
<1> QED BY <1>2, <1>3

(* One listing of a run: nobody listed holds the ticker of the row it mints            *)
(* (_apply_listings, _mint_listing). *)
LEMMA SweepListingHolds ==
  ASSUME NEW d, Legal(d), Apart(d), NEW k \in Keys, vendorSec \in [Keys -> Listing]
  PROVE  Apart(SweepListing(d, k))
<1>1. CASE SweepListing(d, k) = d
  BY <1>1
<1>2. CASE SweepListing(d, k) # d
  <2>1. /\ d.minted # MaxSec /\ SweepListing(d, k) = Minted(d, k)
        /\ Active(d, vendorSec[k].tick) = None
    BY <1>2, Zenon DEF SweepListing
  <2> DEFINE s == d.minted + 1
             v == vendorSec[k]
             row == [sym |-> v.tick, src |-> "sharadar", act |-> TRUE, off |-> 0,
                     name |-> k, of |-> {}, first |-> 0, last |-> 0]
             ln == [sec |-> s, from |-> v.first]
             x == Claimed(d.xref, s, v.tick, v.first)
             o == d.opened /\ Claimable(d.xref, v.tick, v.first)
             ss == [d.secs EXCEPT ![s] = row]
             ls == [d.link EXCEPT ![k] = ln]
             c == [d EXCEPT !.minted = s, !.secs = ss, !.xref = x, !.opened = o, !.link = ls]
             b == Written(c)
  <2>2. d \in Warehouse
    BY DEF Legal
  <2>3. s \in Ids /\ s \in 0..MaxSec
    <3>1. d.minted \in 0..MaxSec /\ MaxSec \in Nat
      BY <2>2, Fields, Bounds
    <3> QED BY <2>1, <3>1 DEF Ids
  <2>4. v.tick \in Tickers /\ v.first \in 0..MaxDay
    BY DEF Listing
  <2>5. row \in SecurityRow /\ ln \in Link /\ row.sym = v.tick
    <3>1. 0 \in 0..MaxDay
      BY Bounds
    <3> QED BY <2>3, <2>4, <3>1 DEF SecurityRow, Link
  <2>6. x \subseteq Period /\ d.xref \subseteq Period
    BY <2>2, <2>3, <2>4, Fields, ClaimedTyped
  <2>7. d.secs \in [Ids -> SecurityRow \cup {None}] /\ d.link \in [Keys -> Link \cup {None}]
    BY <2>2, Fields
  <2>8. Minted(d, k) = b
    <3>1. c = [d EXCEPT !.minted = s, !.secs[s] = row, !.xref = x,
                        !.opened = @ /\ Claimable(d.xref, v.tick, v.first), !.link[k] = ln]
      <4> HIDE DEF row, ln, x, s
      <4> QED BY <2>2 DEF Warehouse
    <3>2. c = [d EXCEPT !.minted = s, !.secs[s] = row, !.xref = Claimed(@, s, v.tick, v.first),
                        !.opened = @ /\ Claimable(d.xref, v.tick, v.first), !.link[k] = ln]
      <4> HIDE DEF row, ln, s
      <4> QED BY <3>1, <2>2 DEF Warehouse
    <3> HIDE DEF c
    <3> QED BY <3>2, Zenon DEF Minted
  <2>9. ss \in [Ids -> SecurityRow \cup {None}] /\ ls \in [Keys -> Link \cup {None}]
    <3> HIDE DEF row, ln, s
    <3> QED BY <2>5, <2>7
  <2>10. o \in BOOLEAN
    BY <2>2, Fields DEF Claimable
  <2> HIDE DEF row, ln, x, s, o, v
  <2>11. ss[s] = row /\ \A w \in Ids : w # s => ss[w] = d.secs[w]
    BY <2>3, <2>7
  <2> HIDE DEF ss, ls
  <2>12. /\ c \in Warehouse /\ c.secs = ss /\ c.xref = x /\ c.opened = o /\ c.sound = d.sound
    BY <2>2, <2>3, <2>6, <2>9, <2>10 DEF Warehouse
  <2> HIDE DEF c
  <2>13. b.secs = ss /\ b.xref = x /\ b.opened = o /\ (b.sound => d.sound /\ OnePeriod(c))
    BY <2>12, WrittenFields
  <2> HIDE DEF b
  <2>14. \A w \in Listed(b) : w # s => w \in Listed(d) /\ b.secs[w] = d.secs[w]
    BY <2>11, <2>13 DEF Listed, Rows
  <2>15. SUFFICES ASSUME Trusted(b) PROVE OnePeriod(b) /\ \A w \in Listed(b) : Holds(b, w)
    BY <2>1, <2>8, <2>15 DEF Apart, HeldBut
  <2>16. Trusted(d) /\ OnePeriod(b) /\ Claimable(d.xref, v.tick, v.first)
    BY <2>12, <2>13, <2>15 DEF Trusted, OnePeriod, o
  <2>17. /\ \E p \in b.xref : p.sec = s /\ p.sym = v.tick /\ p.to = Open
         /\ \A p \in d.xref : p.sym # v.tick \/ p.to # Open => p \in b.xref
    BY <2>6, <2>13, <2>16, ClaimedHolds DEF x
  <2>18. ASSUME NEW w \in Listed(b) PROVE Holds(b, w)
    <3>1. CASE w = s
      BY <2>5, <2>11, <2>13, <2>17, <3>1 DEF Holds, OpenOn
    <3>2. CASE w # s
      <4>1. w \in Listed(d) /\ b.secs[w] = d.secs[w]
        BY <2>14, <3>2
      <4>2. PICK p \in d.xref : p.sec = w /\ p.sym = d.secs[w].sym /\ p.to = Open
        BY <2>16, <4>1 DEF Apart, HeldBut, Holds, OpenOn
      <4>3. p.sym # v.tick
        <5>1. OnePeriod(d)
          BY <2>16 DEF Apart, HeldBut
        <5>2. Active(d, p.sym) = w /\ w # None
          BY <4>1, <4>2, <5>1, HolderIsActive, NoneIsNone DEF Listed, Rows
        <5> QED BY <2>1, <5>2 DEF v
      <4> QED BY <2>17, <4>1, <4>2, <4>3 DEF Holds, OpenOn
    <3> QED BY <3>1, <3>2
  <2> QED BY <2>16, <2>18
<1> QED BY <1>1, <1>2

(* What the sweeps of a run leave. *)
LEMMA AfterRunHolds ==
  ASSUME Legal(db), Apart(db), EventsTyped(events), vendorSec \in [Keys -> Listing]
  PROVE  Apart(AfterRun)
<1> DEFINE ns == [s \in Ids |-> IF db.secs[s] = None THEN None ELSE db.secs[s].sym]
           a == [db EXCEPT !.names = ns]
           X == {e \in Warehouse : Legal(e) /\ Apart(e)}
           r == SweepRenames(a)
           t == SweepDelistings(r)
           l == SweepListings(t)
           f == FlagInactive(l)
<1>1. db \in Warehouse
  BY DEF Legal
<1>2. ns \in [Ids -> Tickers \cup {None}]
  <2>1. \A s \in Ids : db.secs[s] # None => db.secs[s].sym \in Tickers
    BY <1>1, RowFields DEF Rows
  <2> QED BY <2>1
<1>3. ASSUME NEW e, NEW g, Legal(e), Apart(e), Legal(g), g.secs = e.secs, g.xref = e.xref,
             g.sound = e.sound, g.opened = e.opened
      PROVE  Apart(g)
  <2>1. \A w \in Listed(g) : w \in Listed(e) /\ g.secs[w].sym = e.secs[w].sym
    BY <1>3 DEF Listed, Rows
  <2> QED BY <1>3, <2>1, SameHolders DEF Apart
<1>4. a \in X
  <2> HIDE DEF ns
  <2>1. /\ a \in Warehouse /\ a.secs = db.secs /\ a.link = db.link /\ a.minted = db.minted
        /\ a.xref = db.xref /\ a.sound = db.sound /\ a.opened = db.opened
    BY <1>1, <1>2 DEF Warehouse
  <2> HIDE DEF a
  <2>2. Legal(a)
    BY <2>1, SameRows DEF Carries
  <2> QED BY <1>3, <2>1, <2>2
<1>5. \A e : e \in X <=> Legal(e) /\ Apart(e)
  BY DEF Legal
<1> HIDE DEF X
<1>6. \A q \in Rename, e \in X : SweepRename(e, q) \in X
  BY <1>5, SweepRenameCarries, SweepRenameHolds DEF Carries
<1>7. r \in X
  <2> HIDE DEF a
  <2> QED BY <1>4, <1>6, RenamesStay
<1>8. \A k \in Keys, e \in X : SweepDelisting(e, k) \in X
  BY <1>5, SweepDelistingCarries, SweepDelistingHolds DEF Carries
<1>9. t \in X
  <2> HIDE DEF r
  <2> QED BY <1>7, <1>8, DelistingsStay
<1>10. \A k \in Keys, e \in X : SweepListing(e, k) \in X
  BY <1>5, SweepListingCarries, SweepListingHolds DEF Carries
<1>11. l \in X
  <2> HIDE DEF t
  <2> QED BY <1>9, <1>10, ListingsStay
<1>12. Legal(f) /\ Apart(f)
  <2> HIDE DEF l
  <2>1. Legal(l) /\ Apart(l) /\ l \in Warehouse
    BY <1>5, <1>11 DEF Legal
  <2>2. Legal(f)
    BY <2>1, FlagInactiveCarries DEF Carries
  <2>3. f.secs = l.secs /\ f.xref = l.xref /\ f.sound = l.sound /\ f.opened = l.opened
    BY <2>1 DEF FlagInactive, Warehouse
  <2> HIDE DEF f
  <2> QED BY <1>3, <2>1, <2>2, <2>3
<1>13. AfterRun = [f EXCEPT !.names = db.names]
  BY Zenon DEF AfterRun
<1> HIDE DEF f
<1> DEFINE b == [f EXCEPT !.names = db.names]
<1>14. Legal(AfterRun)
  BY AfterRunCarries DEF Carries
<1>15. b.secs = f.secs /\ b.xref = f.xref /\ b.sound = f.sound /\ b.opened = f.opened
  BY <1>12 DEF Legal, Warehouse
<1> HIDE DEF b
<1>16. Apart(b)
  BY <1>3, <1>12, <1>13, <1>14, <1>15 DEF b
<1> QED BY <1>13, <1>16 DEF b

(* A relisting under the name the row has reopens the period of that name. *)
PlanHolds(p) ==
  (p.allowed /\ p.new = p.old /\ p.off # 0) =>
    /\ \A q \in p.periods : q.sec = p.sec
    /\ \E q \in p.periods : q.sym = p.new

(* ... as plan_relist sees to it. *)
LEMMA RelistPlanHolds ==
  ASSUME NEW d, NEW s, NEW given
  PROVE  PlanHolds(RelistPlan(d, s, given))
<1> DEFINE p == RelistPlan(d, s, given)
           row == d.secs[s]
           t == vendorSec[Min(FedBy(d, s))].tick
           periods == ClosedByDelisting(d, s)
<1>1. /\ p.new = t /\ p.old = row.sym /\ p.off = row.off /\ p.sec = s
      /\ p.periods = (IF t = row.sym /\ row.off # 0 THEN periods ELSE {})
  BY DEF RelistPlan
<1>2. p.allowed /\ t = row.sym /\ row.off # 0 => \E q \in periods : q.sym = t
  BY DEF RelistPlan
<1>3. \A q \in periods : q.sec = s
  BY DEF ClosedByDelisting
<1> HIDE DEF p, t, periods
<1> QED BY <1>1, <1>2, <1>3 DEF PlanHolds, p

(* A delisting that is reversed takes no open period from anyone (reverse_delisting). *)
LEMMA ReversedHolds ==
  ASSUME NEW d, Legal(d), Apart(d), NEW p \in RelistPlans, p.sec \in Rows(d), CanReverse(d, p)
  PROVE  LET b == Written(Reversed(d, p))
         IN /\ HeldBut(b, {p.sec}) /\ (b.sound => d.sound)
            /\ PlanHolds(p) /\ p.allowed /\ p.new = p.old /\ p.off # 0 => Apart(b)
<1> DEFINE s == p.sec
           row == [d.secs[s] EXCEPT !.off = 0, !.act = TRUE, !.sym = p.new]
           x == (d.xref \ p.periods) \cup {[q EXCEPT !.to = Open] : q \in p.periods}
           c == Reversed(d, p)
           b == Written(c)
<1>1. /\ d \in Warehouse /\ s \in Ids /\ d.secs[s] \in SecurityRow /\ p.periods \subseteq Period
      /\ d.secs \in [Ids -> SecurityRow \cup {None}]
  BY RowFields, Fields DEF Legal, RelistPlans
<1>2. row.sym = p.new
  BY <1>1 DEF SecurityRow
<1>3. c = Rewritten(d, s, row, x)
  BY <1>1, Fields DEF Reversed, Warehouse, Rewritten
<1>4. c \in Warehouse
  BY ReversedCarries DEF Carries, Legal
<1> HIDE DEF row, x, c
<1>5. c.secs = [d.secs EXCEPT ![s] = row] /\ c.xref = x /\ c.sound = d.sound /\ c.opened = d.opened
  BY <1>1, <1>3, RewrittenFields
<1>6. b.secs = c.secs /\ b.xref = x /\ b.opened = d.opened /\ (b.sound => d.sound /\ OnePeriod(c))
  BY <1>4, <1>5, WrittenFields
<1> HIDE DEF b
<1>7. Trusted(b) => Trusted(d) /\ OnePeriod(b)
  BY <1>5, <1>6 DEF Trusted, OnePeriod
<1>8. \A w \in Listed(b) : w # s => w \in Listed(d) /\ b.secs[w] = d.secs[w]
  BY <1>1, <1>5, <1>6 DEF Listed, Rows
<1>9. \A q \in d.xref : q.to = Open => q \in b.xref
  <2>1. TAKE q \in d.xref
  <2>2. HAVE q.to = Open
  <2>3. q \notin p.periods
    BY <2>2 DEF CanReverse, OpenOn
  <2> QED BY <2>3, <1>6 DEF x
<1>10. \A w \in Listed(b) \ {s} :
         /\ w \in Listed(d) \ {} /\ b.secs[w].sym = d.secs[w].sym
         /\ \A q \in d.xref : (q.sec = w /\ q.to = Open) => q \in b.xref
  BY <1>8, <1>9
<1>11. HeldBut(b, {s})
  BY <1>7, <1>10, HoldsOn DEF Apart
<1>12. ASSUME PlanHolds(p), p.allowed, p.new = p.old, p.off # 0 PROVE Apart(b)
  <2>1. PICK q \in p.periods : q.sym = p.new /\ q.sec = s
    BY <1>12 DEF PlanHolds
  <2> DEFINE r == [q EXCEPT !.to = Open]
  <2>2. r \in b.xref
    BY <1>6 DEF x
  <2>3. r.sec = s /\ r.sym = p.new /\ r.to = Open
    BY <1>1, <2>1 DEF Period
  <2>4. b.secs[s].sym = p.new
    BY <1>1, <1>2, <1>5, <1>6
  <2> HIDE DEF r
  <2>5. Holds(b, s)
    BY <2>2, <2>3, <2>4 DEF Holds, OpenOn
  <2> QED BY <1>11, <2>5 DEF Apart, HeldBut
<1> QED BY <1>6, <1>11, <1>12 DEF b, c

(* The periods a rename ends were not open (end_periods_before_rename). *)
LEMMA EndedBeforeHolds ==
  ASSUME NEW d, Legal(d), NEW p \in RelistPlans, p.day \in CalendarDays, HeldBut(d, {p.sec})
  PROVE  LET b == EndedBefore(d, p) IN HeldBut(b, {p.sec}) /\ b.sound = d.sound
<1> DEFINE y(q) == [q EXCEPT !.to = Later(q.from, p.day - 1)]
           x == {IF /\ q.sec = p.sec /\ q.sym = p.old /\ q.to = Later(q.from, p.off)
                    /\ q.to > Later(q.from, p.day - 1)
                 THEN y(q) ELSE q : q \in d.xref}
           b == [d EXCEPT !.xref = x]
<1>1. d \in Warehouse /\ d.xref \subseteq Period
  BY Fields DEF Legal
<1>2. \A q \in d.xref : y(q).to # Open
  <2>1. TAKE q \in d.xref
  <2>2. q \in Period /\ q.from \in 0..MaxDay
    BY <1>1 DEF Period
  <2>3. p.day - 1 \in 0..MaxDay
    BY Bounds DEF CalendarDays
  <2>4. Later(q.from, p.day - 1) \in 0..MaxDay
    BY <2>2, <2>3, LaterIs
  <2>5. y(q).to = Later(q.from, p.day - 1)
    BY <2>2 DEF Period
  <2>6. -1 \notin 0..MaxDay
    BY Bounds
  <2> HIDE DEF y
  <2> QED BY <2>4, <2>5, <2>6 DEF Open
<1>3. EndedBefore(d, p) = b
  BY <1>1 DEF EndedBefore, Warehouse
<1>4. b.secs = d.secs /\ b.xref = x /\ b.sound = d.sound /\ b.opened = d.opened
  BY <1>1 DEF Warehouse
<1>5. (\A q \in x : q.to = Open => q \in d.xref) /\ \A q \in d.xref : q.sec # p.sec => q \in x
  <2> HIDE DEF y
  <2> QED BY <1>2
<1> HIDE DEF x, b
<1>6. Trusted(b) => Trusted(d) /\ OnePeriod(b)
  BY <1>4, <1>5 DEF Trusted, OnePeriod, HeldBut
<1>7. \A w \in Listed(b) \ {p.sec} :
        /\ w \in Listed(d) \ {p.sec} /\ b.secs[w].sym = d.secs[w].sym
        /\ \A q \in d.xref : (q.sec = w /\ q.to = Open) => q \in b.xref
  BY <1>4, <1>5 DEF Listed, Rows
<1>8. HeldBut(b, {p.sec})
  BY <1>6, <1>7, HoldsOn
<1> QED BY <1>3, <1>4, <1>8

(* What a relisting that goes through leaves (apply_relist). *)
LEMMA RelistedHolds ==
  ASSUME NEW d, Legal(d), Apart(d), NEW p \in RelistPlans, p.sec \notin p.folds,
         p.old # p.new => p.day # None, PlanHolds(p), Relisted(d, p) # None
  PROVE  Apart(Relisted(d, p)) /\ Relisted(d, p).sound
<1> DEFINE f == IF p.off # 0 /\ p.new # p.old /\ p.folds # {}
                THEN Gone(d, CHOOSE v \in p.folds : TRUE, p.sec) ELSE d
           e == IF p.off # 0 THEN Written(Reversed(f, p))
                ELSE [d EXCEPT !.secs[p.sec].act = @ \/ ~p.act]
           g == IF p.off # 0 THEN EndedBefore(e, p) ELSE e
           h == IF p.new = p.old THEN e
                ELSE Record(Renamed(g, p.sec, p.old, p.new, p.day),
                            p.day, p.old, p.new, "applied", p.sec)
<1>1. /\ p.sec \in Ids /\ p.off \in 0..MaxDay /\ p.old \in Tickers
      /\ p.new \in Tickers /\ p.folds \subseteq Ids
      /\ p.new # p.old => p.day \in CalendarDays
  BY DEF RelistPlans
<1>2. /\ d.secs[p.sec] # None /\ p.allowed
      /\ (p.off # 0 /\ p.new # p.old) => \A v \in p.folds : Foldable(d, v, p.sec)
      /\ p.off # 0 => CanReverse(f, p)
      /\ p.new # p.old => Renamable(g, p.sec, p.old, p.new)
      /\ h.sound
      /\ Relisted(d, p) = [h EXCEPT !.inactive = {j \in @ : j[1] # p.sec}]
  BY Zenon DEF Relisted
<1>3. p.sec \in Rows(d) /\ d \in Warehouse
  BY <1>1, <1>2 DEF Rows, Legal
<1>4. Legal(f) /\ p.sec \in Rows(f) /\ Apart(f) /\ f \in Warehouse
  <2>1. CASE p.off # 0 /\ p.new # p.old /\ p.folds # {}
    <3>1. PICK v \in p.folds : v = CHOOSE w \in p.folds : TRUE
      BY <2>1
    <3>2. f = Gone(d, v, p.sec)
      BY <2>1, <3>1
    <3>3. v \in Ids /\ v # p.sec
      BY <1>1
    <3> HIDE DEF f
    <3>4. Legal(Gone(d, v, p.sec)) /\ Rows(Gone(d, v, p.sec)) = Rows(d) \ {v}
      BY <1>3, <3>3, GoneLegal
    <3>5. Apart(Gone(d, v, p.sec))
      BY <1>3, GoneHolds DEF Apart
    <3> QED BY <1>3, <3>2, <3>3, <3>4, <3>5 DEF Legal
  <2>2. CASE ~(p.off # 0 /\ p.new # p.old /\ p.folds # {})
    BY <2>2, <1>3
  <2> QED BY <2>1, <2>2
<1> HIDE DEF f
<1>5. Legal(e) /\ p.sec \in Rows(e) /\ HeldBut(e, {p.sec}) /\ (p.new = p.old => Apart(e))
  <2>1. CASE p.off # 0
    <3>1. e = Written(Reversed(f, p))
      BY <2>1
    <3>2. Legal(Reversed(f, p)) /\ Rows(Reversed(f, p)) = Rows(f)
      BY <1>4, ReversedCarries DEF Carries
    <3> HIDE DEF e
    <3>3. Legal(e) /\ Rows(e) = Rows(f)
      BY <3>1, <3>2, WrittenCarries DEF Carries
    <3>4. HeldBut(e, {p.sec}) /\ (p.new = p.old => Apart(e))
      BY <1>2, <1>4, <2>1, <3>1, ReversedHolds
    <3> QED BY <1>4, <3>3, <3>4
  <2>2. CASE p.off = 0
    <3> DEFINE act == d.secs[p.sec].act \/ ~p.act
               row == [d.secs[p.sec] EXCEPT !.act = act]
    <3>1. d.secs[p.sec] \in SecurityRow /\ act \in BOOLEAN /\ d.xref \subseteq Period
          /\ d.secs \in [Ids -> SecurityRow \cup {None}]
      BY <1>3, RowFields, Fields DEF Legal, RelistPlans
    <3>2. /\ row \in SecurityRow /\ row.of = d.secs[p.sec].of /\ row.first = d.secs[p.sec].first
          /\ row.off = d.secs[p.sec].off /\ row.sym = d.secs[p.sec].sym
      <4> HIDE DEF act
      <4> QED BY <3>1 DEF SecurityRow
    <3>3. e = [d EXCEPT !.secs[p.sec].act = @ \/ ~p.act]
      BY <2>2
    <3>4. e = [d EXCEPT !.secs = [d.secs EXCEPT ![p.sec] =
                                    [d.secs[p.sec] EXCEPT !.act = d.secs[p.sec].act \/ ~p.act]]]
      BY <3>3, <3>1, <1>1, <1>3, Fields, Zenon
    <3> HIDE DEF e
    <3>5. e = [d EXCEPT !.secs = [d.secs EXCEPT ![p.sec] = row]]
      BY <3>4, Zenon
    <3> HIDE DEF row
    <3>6. e = Rewritten(d, p.sec, row, d.xref)
      BY <3>5, <3>1, <1>3 DEF Rewritten, Warehouse
    <3>7. Legal(e) /\ p.sec \in Rows(e)
      BY <1>3, <3>1, <3>2, <3>6, RowRewritten DEF Carries
    <3>8. /\ e.secs = [d.secs EXCEPT ![p.sec] = row] /\ e.xref = d.xref
          /\ e.sound = d.sound /\ e.opened = d.opened
      BY <1>3, <3>6 DEF Rewritten, Warehouse
    <3>9. \A w \in Listed(e) : w \in Listed(d) /\ e.secs[w].sym = d.secs[w].sym
      BY <1>1, <1>3, <3>1, <3>2, <3>8 DEF Listed, Rows
    <3>10. Apart(e)
      BY <3>8, <3>9, SameHolders DEF Apart
    <3> QED BY <3>7, <3>10 DEF Apart, HeldBut
  <2> QED BY <2>1, <2>2
<1> HIDE DEF e
<1>6. Apart(h) /\ h \in Warehouse
  <2>1. CASE p.new = p.old
    BY <1>5, <2>1 DEF Legal
  <2>2. CASE p.new # p.old
    <3>1. Legal(g) /\ p.sec \in Rows(g) /\ HeldBut(g, {p.sec})
      <4>1. CASE p.off = 0
        BY <4>1, <1>5
      <4>2. CASE p.off # 0
        <5>1. p.day \in CalendarDays
          BY <2>2, <1>1
        <5>2. Legal(EndedBefore(e, p)) /\ Rows(EndedBefore(e, p)) = Rows(e)
          BY <1>5, <5>1, EndedBeforeCarries DEF Carries
        <5>3. HeldBut(EndedBefore(e, p), {p.sec})
          BY <1>5, <5>1, EndedBeforeHolds
        <5>4. g = EndedBefore(e, p)
          BY <4>2
        <5> HIDE DEF g
        <5> QED BY <1>5, <5>2, <5>3, <5>4
      <4> QED BY <4>1, <4>2
    <3>2. Renamable(g, p.sec, p.old, p.new) /\ p.day \in CalendarDays
      BY <2>2, <1>1, <1>2
    <3> HIDE DEF g
    <3> DEFINE c == Renamed(g, p.sec, p.old, p.new, p.day)
               k == Record(c, p.day, p.old, p.new, "applied", p.sec)
    <3>3. Legal(c) /\ Apart(c) /\ c \in Warehouse
      BY <1>1, <3>1, <3>2, RenamedCarries, RenamedHolds DEF Carries, Legal
    <3> HIDE DEF c
    <3>4. Apart(k) /\ Legal(k)
      <4>1. Apart(k)
        BY <3>3, RecordHolds DEF Apart
      <4>2. Legal(k)
        BY <1>1, <3>2, <3>3, RecordCarries DEF Carries
      <4> QED BY <4>1, <4>2
    <3>5. h = k
      BY <2>2 DEF c
    <3> HIDE DEF k, h
    <3> QED BY <3>4, <3>5 DEF Legal
  <2> QED BY <2>1, <2>2
<1>7. h.sound
  BY <1>2
<1> HIDE DEF h
<1> DEFINE b == [h EXCEPT !.inactive = {j \in h.inactive : j[1] # p.sec}]
<1>8. Relisted(d, p) = b
  BY <1>2, <1>6 DEF Warehouse
<1>9. b.secs = h.secs /\ b.xref = h.xref /\ b.sound = h.sound /\ b.opened = h.opened
  BY <1>6 DEF Warehouse
<1> HIDE DEF b
<1>10. \A w \in Listed(b) : w \in Listed(h) /\ b.secs[w].sym = h.secs[w].sym
  BY <1>9 DEF Listed, Rows
<1>11. Apart(b)
  BY <1>6, <1>9, <1>10, SameHolders DEF Apart
<1> QED BY <1>7, <1>8, <1>9, <1>11

(* The row a merge leaves. *)
MergedRow(own, row) ==
  [own EXCEPT !.of = @ \cup row.of, !.name = row.name,
              !.first = Earlier(@, row.first), !.last = Later(@, row.last)]

(* A merge writes the survivor's row, then deletes the other one (merge_security). *)
LEMMA MergedIntoGone ==
  ASSUME NEW d, Legal(d), NEW s \in Rows(d), NEW v \in Rows(d)
  PROVE  /\ MergedInto(d, v, s)
              = Gone(Rewritten(d, s, MergedRow(d.secs[s], d.secs[v]), d.xref), v, s)
         /\ MergedRow(d.secs[s], d.secs[v]) \in SecurityRow
<1> DEFINE row == d.secs[v]
           own == d.secs[s]
           new == MergedRow(own, row)
           bars  == own.of \cup row.of
           first == Earlier(own.first, row.first)
           last  == Later(own.last, row.last)
           f1 == [d.secs EXCEPT ![s].of = bars]
           f2 == [f1 EXCEPT ![s].name = row.name]
           f3 == [f2 EXCEPT ![s].first = first]
           f4 == [f3 EXCEPT ![s].last = last]
<1>1. /\ d \in Warehouse /\ s \in Ids /\ v \in Ids /\ own \in SecurityRow /\ row \in SecurityRow
      /\ own.of \subseteq Keys /\ row.of \subseteq Keys /\ row.name \in Keys
      /\ own.first \in 0..MaxDay /\ row.first \in 0..MaxDay
      /\ own.last \in 0..MaxDay /\ row.last \in 0..MaxDay
      /\ d.secs \in [Ids -> SecurityRow \cup {None}]
  BY RowFields, Fields DEF Legal
<1>2. first \in 0..MaxDay /\ last \in 0..MaxDay /\ bars \subseteq Keys
  BY <1>1, LaterIs DEF Earlier
<1>3. new = [own EXCEPT !.of = bars, !.name = row.name, !.first = first, !.last = last]
  BY <1>1 DEF SecurityRow, MergedRow
<1>4. new \in SecurityRow
  <2> HIDE DEF new, bars, first, last
  <2> QED BY <1>1, <1>2, <1>3 DEF SecurityRow
<1>5. MergedInto(d, v, s) = Gone([d EXCEPT !.secs = f4], v, s)
  <2>1. [d EXCEPT !.secs[s].of = @ \cup row.of, !.secs[s].name = row.name,
                  !.secs[s].first = Earlier(@, row.first),
                  !.secs[s].last = Later(@, row.last)] = [d EXCEPT !.secs = f4]
    <3> HIDE DEF bars, first, last
    <3>1. [d EXCEPT !.secs[s].of = own.of \cup row.of, !.secs[s].name = row.name,
                    !.secs[s].first = Earlier(own.first, row.first),
                    !.secs[s].last = Later(own.last, row.last)] = [d EXCEPT !.secs = f4]
      BY <1>1 DEF Warehouse, SecurityRow, bars, first, last
    <3> QED BY <3>1, <1>1 DEF SecurityRow, Warehouse
  <2> QED BY <2>1 DEF MergedInto
<1>6. f4 = [d.secs EXCEPT ![s] = new]
  <2> HIDE DEF bars, first, last, new
  <2>1. f1 = [d.secs EXCEPT ![s] = [own EXCEPT !.of = bars]]
    BY <1>1
  <2> QED BY <2>1, <1>1, <1>3
<1>7. Rewritten(d, s, new, d.xref) = [d EXCEPT !.secs = f4]
  <2> HIDE DEF f4, new
  <2> QED BY <1>1, <1>6 DEF Rewritten, Warehouse
<1> QED BY <1>4, <1>5, <1>7

(* The survivor keeps its name and its ticker. *)
LEMMA MergedIntoHolds ==
  ASSUME NEW d, Legal(d), Apart(d), NEW s \in Rows(d), NEW v \in Rows(d)
  PROVE  LET b == MergedInto(d, v, s) IN Apart(b) /\ b.sound = d.sound
<1> DEFINE new == MergedRow(d.secs[s], d.secs[v])
           e == Rewritten(d, s, new, d.xref)
           b == MergedInto(d, v, s)
<1>1. /\ d \in Warehouse /\ s \in Ids /\ d.secs[s] \in SecurityRow /\ d.xref \subseteq Period
      /\ d.secs \in [Ids -> SecurityRow \cup {None}]
  BY RowFields, Fields DEF Legal
<1>2. b = Gone(e, v, s) /\ new \in SecurityRow
  BY MergedIntoGone
<1>3. new.off = d.secs[s].off /\ new.sym = d.secs[s].sym
  BY <1>1 DEF MergedRow, SecurityRow
<1> HIDE DEF new
<1>4. /\ e.secs = [d.secs EXCEPT ![s] = new] /\ e.xref = d.xref
      /\ e.sound = d.sound /\ e.opened = d.opened
  BY <1>1 DEF Rewritten, Warehouse
<1>5. e \in Warehouse
  BY <1>1, <1>2 DEF Rewritten, Warehouse
<1> HIDE DEF e, b
<1>6. \A w \in Listed(e) : w \in Listed(d) /\ e.secs[w].sym = d.secs[w].sym
  BY <1>1, <1>3, <1>4 DEF Listed, Rows
<1>7. Apart(e)
  BY <1>4, <1>6, SameHolders DEF Apart
<1>8. LET c == Gone(e, v, s) IN Apart(c) /\ c.sound = e.sound
  BY <1>5, <1>7, GoneHolds DEF Apart
<1> QED BY <1>2, <1>4, <1>8 DEF b

(* A merge across vendors that goes through (apply_cross_vendor_merge). *)
LEMMA MergedAcrossHeld ==
  ASSUME NEW d, Legal(d), Apart(d), d.sound, NEW p \in MergePlans, p.victim # p.sec,
         p.sec \notin Unfed(d),
         EventsTyped(events), vendorSec \in [Keys -> Listing], MergedAcross(d, p) # None
  PROVE  Apart(MergedAcross(d, p)) /\ MergedAcross(d, p).sound
<1> DEFINE v == p.victim
           s == p.sec
           e == MergedInto(d, v, s)
           r == RelistPlan(e, s, None)
           b == MergedAcross(d, p)
<1>1. v \in Ids /\ s \in Ids
  BY DEF MergePlans
<1>2. /\ d.secs[s] # None /\ d.secs[v] # None
      /\ b = e \/ (b = Relisted(e, r) /\ Relisted(e, r) # None)
  BY DEF MergedAcross
<1>3. s \in Rows(d) /\ v \in Rows(d)
  BY <1>1, <1>2 DEF Rows
<1>4. Legal(e) /\ Rows(e) = Rows(d) \ {v} /\ Unfed(e) \subseteq Unfed(d)
  BY <1>3, MergedIntoIs
<1>5. Apart(e) /\ e.sound
  BY <1>3, MergedIntoHolds
<1> HIDE DEF e
<1>6. s \in Rows(e) /\ FedBy(e, s) # {}
  BY <1>3, <1>4 DEF Unfed
<1>7. CASE b = e
  BY <1>5, <1>7
<1>8. CASE b = Relisted(e, r) /\ Relisted(e, r) # None
  <2>1. r \in RelistPlans /\ r.sec \notin r.folds /\ (r.allowed /\ r.old # r.new => r.day # None)
    BY <1>4, <1>6, RelistPlanTyped
  <2>2. PlanHolds(r)
    <3> HIDE DEF s
    <3> QED BY RelistPlanHolds
  <2> HIDE DEF r
  <2>3. r.allowed
    BY <1>8, Zenon DEF Relisted
  <2>4. Apart(Relisted(e, r)) /\ Relisted(e, r).sound
    BY <1>4, <1>5, <1>8, <2>1, <2>2, <2>3, RelistedHolds
  <2>5. b = Relisted(e, r)
    BY <1>8
  <2> HIDE DEF b
  <2> QED BY <2>4, <2>5 DEF b
<1> QED BY <1>2, <1>7, <1>8

(* A period that is reopened was nobody's (reopen_symbol_period). *)
LEMMA ReopenedHolds ==
  ASSUME NEW d, Legal(d), Apart(d), NEW s, NEW t
  PROVE  Apart(Reopened(d, s, t))
<1> DEFINE own == {p \in d.xref : p.sec = s /\ p.sym = t /\ p.to # Open}
           x == {IF p \in own /\ p.to = Max({q.to : q \in own}) THEN [p EXCEPT !.to = Open] ELSE p
                 : p \in d.xref}
           c == [d EXCEPT !.xref = x]
           b == Written(c)
<1>1. d \in Warehouse /\ d.xref \subseteq Period
  BY Fields DEF Legal
<1>2. x \subseteq Period
  <2>1. \A p \in Period : [p EXCEPT !.to = Open] \in Period
    BY DEF Period
  <2> QED BY <1>1, <2>1
<1>3. Reopened(d, s, t) = d \/ Reopened(d, s, t) = b
  BY <1>1 DEF Reopened, Warehouse
<1>4. \A p \in d.xref : p.to = Open => p \in x
  OBVIOUS
<1> HIDE DEF x
<1>5. c \in Warehouse /\ c.secs = d.secs /\ c.xref = x /\ c.sound = d.sound /\ c.opened = d.opened
  BY <1>1, <1>2 DEF Warehouse
<1> HIDE DEF c
<1>6. b.secs = d.secs /\ b.xref = x /\ b.opened = d.opened /\ (b.sound => d.sound /\ OnePeriod(c))
  BY <1>5, WrittenFields
<1> HIDE DEF b
<1>7. Trusted(b) => Trusted(d) /\ OnePeriod(b)
  BY <1>5, <1>6 DEF Trusted, OnePeriod
<1>8. \A w \in Listed(b) \ {} :
        /\ w \in Listed(d) \ {} /\ b.secs[w].sym = d.secs[w].sym
        /\ \A p \in d.xref : (p.sec = w /\ p.to = Open) => p \in b.xref
  BY <1>4, <1>6 DEF Listed, Rows
<1>9. HeldBut(b, {})
  BY <1>7, <1>8, HoldsOn DEF Apart
<1> QED BY <1>3, <1>9 DEF Apart

(* The rows a dedupe folds (fold_empty_security). *)
LEMMA FoldedIntoHolds ==
  ASSUME NEW d, Legal(d), Apart(d), NEW keep \in Rows(d), NEW V, V \subseteq Rows(d) \ {keep}
  PROVE  Apart(FoldedInto(d, V, keep)) /\ Legal(FoldedInto(d, V, keep))
<1> DEFINE X == {e \in Warehouse : Legal(e) /\ keep \in Rows(e) /\ Apart(e)}
<1>1. V \subseteq Ids /\ keep \notin V
  BY DEF Rows
<1>2. IsFiniteSet(V)
  BY <1>1, IdsFinite, FS_Subset
<1>3. d \in X
  BY DEF Legal
<1>4. ASSUME NEW v \in V, NEW e \in X PROVE Gone(e, v, keep) \in X
  <2> DEFINE g == Gone(e, v, keep)
  <2>1. e \in Warehouse /\ Legal(e) /\ keep \in Rows(e) /\ Apart(e)
    OBVIOUS
  <2> HIDE DEF X
  <2>2. v \in Ids /\ v # keep
    BY <1>1
  <2>3. Legal(g) /\ Rows(g) = Rows(e) \ {v}
    BY <2>1, <2>2, GoneLegal
  <2>4. Apart(g)
    BY <2>1, GoneHolds DEF Apart
  <2> HIDE DEF g
  <2>5. g \in Warehouse
    BY <2>3 DEF Legal
  <2> QED BY <2>1, <2>2, <2>3, <2>4, <2>5 DEF X, g
<1> HIDE DEF X
<1>5. FoldedInto(d, V, keep) \in X
  BY <1>2, <1>3, <1>4, GoneStay
<1> QED BY <1>5 DEF X

(* `security dedupe` *)
LEMMA DedupeHolds ==
  ASSUME NEW t, Legal(db), Apart(db), Dedupe(t)
  PROVE  Apart(db') /\ db'.sound
<1> DEFINE D == Duplicates(t)
           keep == CHOOSE s \in D : ~Empty(db, s)
           V == {v \in D \ {keep} : Foldable(db, v, keep)}
           f == FoldedInto(db, V, keep)
<1>1. D # {} /\ db' = Reopened(f, keep, t) /\ db'.sound
  BY Zenon DEF Dedupe
<1>2. D \subseteq Rows(db) /\ \E s \in D : ~Empty(db, s)
  <2> DEFINE group == {s \in Rows(db) : db.secs[s].src = "fmp" /\ db.secs[s].sym = t}
  <2>1. D = group /\ Cardinality({s \in group : ~Empty(db, s)}) = 1
    BY <1>1 DEF Duplicates
  <2>2. {s \in group : ~Empty(db, s)} # {}
    BY <2>1, FS_EmptySet
  <2> QED BY <2>1, <2>2
<1> HIDE DEF D
<1>3. keep \in D
  BY <1>2
<1> HIDE DEF keep
<1>4. Apart(f) /\ Legal(f)
  <2>1. V \subseteq Rows(db) \ {keep}
    BY <1>2
  <2>2. keep \in Rows(db)
    BY <1>2, <1>3
  <2> HIDE DEF V
  <2> QED BY <2>1, <2>2, FoldedIntoHolds
<1> HIDE DEF f
<1>5. Apart(Reopened(f, keep, t))
  BY <1>4, ReopenedHolds
<1> QED BY <1>1, <1>5

(* What descope leaves: the rows it deletes take their own periods only. *)
LEMMA PurgedHolds ==
  ASSUME NEW d, Legal(d), Apart(d), NEW ids
  PROVE  LET b == Purged(d, ids) IN Apart(b) /\ b.sound = d.sound
<1> DEFINE b == Purged(d, ids)
<1>1. d \in Warehouse /\ d.secs \in [Ids -> SecurityRow \cup {None}]
  BY Fields DEF Legal
<1>2. /\ b.secs = [s \in Ids |-> IF s \in ids THEN None ELSE d.secs[s]]
      /\ b.xref = {p \in d.xref : p.sec \notin ids}
      /\ b.sound = d.sound /\ b.opened = d.opened
  BY <1>1 DEF Purged, Warehouse
<1> HIDE DEF b
<1>3. \A w \in Listed(b) : w \notin ids /\ w \in Listed(d) /\ b.secs[w] = d.secs[w]
  BY <1>1, <1>2 DEF Listed, Rows
<1>4. Trusted(b) => Trusted(d) /\ OnePeriod(b)
  BY <1>2 DEF Trusted, OnePeriod, Apart, HeldBut
<1>5. \A w \in Listed(b) \ {} :
        /\ w \in Listed(d) \ {} /\ b.secs[w].sym = d.secs[w].sym
        /\ \A p \in d.xref : (p.sec = w /\ p.to = Open) => p \in b.xref
  BY <1>2, <1>3
<1>6. HeldBut(b, {})
  BY <1>4, <1>5, HoldsOn DEF Apart
<1> QED BY <1>2, <1>6 DEF b, Apart

(* The inductive invariant: the warehouse is as the indexes want it, its listed rows    *)
(* hold their tickers, and the plan that waits reopens the period of the name it keeps. *)
HoldInv ==
  /\ UniverseTyped
  /\ db.sound /\ Apart(db)
  /\ (plan # None /\ plan.of = "relist") => PlanHolds(plan)

(* `track rm` takes the ticker from the row it is live on, if a day is given. *)
LEMMA TrackHolds ==
  ASSUME HoldInv, today \in CalendarDays,
         NEW t \in Declarable,
         TrackAdd(t) \/ \E closed \in {None, today} : TrackRm(t, closed)
  PROVE  db'.sound /\ Apart(db')
<1>1. Legal(db) /\ db \in Warehouse /\ db.sound /\ Apart(db)
  BY TypedIs DEF HoldInv, Legal
<1>2. ASSUME NEW ts, ts \subseteq Tickers
      PROVE  LET b == [db EXCEPT !.declared = ts]
             IN b.sound /\ Apart(b) /\ Legal(b) /\ Rows(b) = Rows(db)
  <2> DEFINE b == [db EXCEPT !.declared = ts]
  <2>1. b.secs = db.secs /\ b.xref = db.xref /\ b.sound = db.sound /\ b.opened = db.opened
    BY <1>1 DEF Warehouse
  <2>2. Legal(b)
    BY <1>1, <1>2, DeclaredCarries DEF Carries
  <2> HIDE DEF b
  <2>3. \A w \in Listed(b) : w \in Listed(db) /\ b.secs[w].sym = db.secs[w].sym
    BY <2>1 DEF Listed, Rows
  <2>4. Apart(b)
    BY <1>1, <2>1, <2>3, SameHolders DEF Apart
  <2>5. Rows(b) = Rows(db)
    BY <2>1 DEF Rows
  <2> QED BY <1>1, <2>1, <2>2, <2>4, <2>5 DEF b
<1>3. CASE TrackAdd(t)
  <2>1. db.declared \cup {t} \subseteq Tickers
    BY <1>1, Bounds, Fields
  <2>2. db' = [db EXCEPT !.declared = db.declared \cup {t}]
    BY <1>1, <1>3 DEF TrackAdd, Warehouse
  <2> QED BY <1>2, <2>1, <2>2
<1>4. ASSUME NEW closed \in {None, today}, TrackRm(t, closed) PROVE db'.sound /\ Apart(db')
  <2> DEFINE s == Active(db, t)
             d == [db EXCEPT !.declared = db.declared \ {t}]
  <2>1. db.declared \ {t} \subseteq Tickers
    BY <1>1, Fields
  <2>2. [db EXCEPT !.declared = @ \ {t}] = d
    BY <1>1 DEF Warehouse
  <2>3. d.sound /\ Apart(d) /\ Legal(d) /\ Rows(d) = Rows(db)
    BY <1>2, <2>1
  <2> HIDE DEF d
  <2>4. CASE closed = None
    <3>1. db' = d
      BY <1>4, <2>2, <2>4 DEF TrackRm
    <3> QED BY <2>3, <3>1
  <2>5. CASE closed # None
    <3>1. db' = MarkDelisted(d, s, closed) /\ s # None /\ closed \in CalendarDays
      BY <1>4, <2>2, <2>5 DEF TrackRm
    <3>2. s \in Rows(d)
      BY <2>3, <3>1, ActiveIs DEF Listed
    <3> HIDE DEF s
    <3>3. LET b == MarkDelisted(d, s, closed) IN Apart(b) /\ b.sound = d.sound
      BY <2>3, <3>1, <3>2, MarkDelistedHolds
    <3> QED BY <2>3, <3>1, <3>3
  <2> QED BY <2>4, <2>5
<1> QED BY <1>3, <1>4

(* The price load touches no name and no period. *)
LEMMA LoadPricesHolds ==
  ASSUME HoldInv, LoadPrices
  PROVE  db'.sound /\ Apart(db')
<1> DEFINE ss == [s \in Ids |-> Loaded(s)]
           b == [db EXCEPT !.secs = ss]
<1>1. Legal(db) /\ db \in Warehouse /\ db.sound /\ Apart(db)
  BY TypedIs DEF HoldInv, Legal
<1>2. db' = b
  BY DEF LoadPrices
<1>3. \A s \in Rows(db) : Loaded(s).sym = db.secs[s].sym /\ Loaded(s).off = db.secs[s].off
  <2>1. TAKE s \in Rows(db)
  <2>2. db.secs[s] \in SecurityRow
    BY <1>1, RowFields
  <2> QED BY <2>2 DEF Loaded, SecurityRow
<1>4. \A s \in Ids : db.secs[s] = None => Loaded(s) = None
  BY DEF Loaded
<1>5. \A s \in Ids : ss[s] = Loaded(s)
  OBVIOUS
<1> HIDE DEF ss
<1>6. b.secs = ss /\ b.xref = db.xref /\ b.sound = db.sound /\ b.opened = db.opened
  BY <1>1 DEF Warehouse
<1> HIDE DEF b
<1>7. \A w \in Listed(b) : w \in Listed(db) /\ b.secs[w].sym = db.secs[w].sym
  BY <1>3, <1>4, <1>5, <1>6 DEF Listed, Rows
<1>8. Apart(b)
  BY <1>1, <1>6, <1>7, SameHolders DEF Apart
<1> QED BY <1>1, <1>2, <1>6, <1>8

(* What a confirmed plan leaves. *)
LEMMA ConfirmHeld ==
  ASSUME HoldInv, Confirm
  PROVE  db'.sound /\ Apart(db')
<1>a. Around /\ Legal(db) /\ PlanTyped /\ db.sound /\ Apart(db)
  BY TypedIs DEF HoldInv
<1> DEFINE after == IF plan.of = "relist" THEN Relisted(db, plan) ELSE MergedAcross(db, plan)
<1>1. plan # None /\ db' = IF after = None THEN db ELSE after
  BY DEF Confirm
<1>2. Asked /\ plan \in RelistPlans \cup MergePlans
  BY <1>1, <1>a DEF PlanTyped
<1>3. CASE after = None
  BY <1>1, <1>3, <1>a
<1>4. CASE after # None /\ plan.of = "relist"
  <2>1. plan \in RelistPlans
    BY <1>2, <1>4 DEF MergePlans
  <2>2. plan.sec \notin plan.folds /\ (plan.old # plan.new => plan.day # None)
    BY <1>2, <1>4 DEF Asked
  <2>3. db' = Relisted(db, plan) /\ Relisted(db, plan) # None
    BY <1>1, <1>4
  <2>4. PlanHolds(plan)
    BY <1>1, <1>4 DEF HoldInv
  <2>5. Apart(Relisted(db, plan)) /\ Relisted(db, plan).sound
    BY <1>a, <2>1, <2>2, <2>3, <2>4, RelistedHolds
  <2> QED BY <2>3, <2>5
<1>5. CASE after # None /\ plan.of # "relist"
  <2>1. plan \in MergePlans /\ plan.of = "merge"
    BY <1>2, <1>5 DEF RelistPlans, MergePlans
  <2>2. plan.victim # plan.sec /\ plan.sec \notin Unfed(db)
    BY <1>2, <2>1 DEF Asked
  <2>3. db' = MergedAcross(db, plan) /\ MergedAcross(db, plan) # None
    BY <1>1, <1>5
  <2>4. Apart(MergedAcross(db, plan)) /\ MergedAcross(db, plan).sound
    BY <1>a, <2>1, <2>2, <2>3, MergedAcrossHeld DEF Around
  <2> QED BY <2>3, <2>4
<1> QED BY <1>3, <1>4, <1>5

(* A step leaves the holders, and a plan that was made holds what it reopens. *)
LEMMA HoldStep ==
  ASSUME HoldInv, UniverseNext \/ UNCHANGED everything
  PROVE  /\ db'.sound /\ Apart(db')
         /\ (plan' # None /\ plan'.of = "relist") => PlanHolds(plan')
<1>a. Around /\ Legal(db) /\ PlanTyped /\ db.sound /\ Apart(db) /\ UniverseTyped
      /\ ((plan # None /\ plan.of = "relist") => PlanHolds(plan))
  BY TypedIs DEF HoldInv
<1>1. CASE db' = db /\ plan' = plan
  BY <1>1, <1>a
<1>2. CASE MarketStep
  <2>1. db' = db /\ plan' = plan
    <3>1. ASSUME NEW rows, NEW listing, NEW k, Market(rows, listing, k)
          PROVE  db' = db /\ plan' = plan
      BY <3>1 DEF Market
    <3> QED BY <1>2, <3>1 DEF MarketStep, Renames, Lists, Delists, Relists
  <2> QED BY <1>1, <2>1
<1>3. CASE NightStep
  <2>1. ASSUME NEW posted, LoadMaster(posted) PROVE db' = db /\ plan' = plan
    BY <2>1 DEF LoadMaster
  <2>2. RunFails \/ PricesFail \/ Tomorrow => db' = db /\ plan' = plan
    BY DEF RunFails, PricesFail, Tomorrow
  <2>3. CASE UniverseRun
    <3>1. db' = AfterRun /\ db'.sound /\ plan' = plan
      BY <2>3 DEF UniverseRun
    <3>2. Apart(AfterRun)
      BY <1>a, AfterRunHolds DEF Around
    <3> QED BY <1>a, <3>1, <3>2
  <2>4. CASE LoadPrices
    <3>1. plan' = plan
      BY <2>4 DEF LoadPrices
    <3> QED BY <1>a, <2>4, <3>1, LoadPricesHolds
  <2> QED BY <1>1, <1>3, <2>1, <2>2, <2>3, <2>4 DEF NightStep
<1>4. CASE OperatorStep
  <2>1. ASSUME NEW s \in Ids, NEW given, AskRelist(s, given)
        PROVE  db' = db /\ PlanHolds(plan')
    <3>1. db' = db /\ plan' = RelistPlan(db, s, given)
      BY <2>1 DEF AskRelist, Ask
    <3> QED BY <3>1, RelistPlanHolds
  <2>2. ASSUME NEW v \in Ids, NEW s \in Ids, AskMerge(v, s)
        PROVE  db' = db /\ plan'.of = "merge"
    BY <2>2 DEF AskMerge, Ask, MergePlan
  <2>3. Decline => db' = db /\ plan' = None
    BY DEF Decline
  <2>4. CASE Confirm
    <3>1. plan' = None
      BY <2>4 DEF Confirm
    <3> QED BY <2>4, <3>1, ConfirmHeld
  <2>5. ASSUME NEW t \in Tickers, Dedupe(t) PROVE db'.sound /\ Apart(db') /\ plan' = plan
    <3>1. plan' = plan
      BY <2>5 DEF Dedupe
    <3> QED BY <1>a, <2>5, <3>1, DedupeHolds
  <2>6. ASSUME NEW t \in Declarable, TrackAdd(t) \/ \E closed \in {None, today} : TrackRm(t, closed)
        PROVE  db'.sound /\ Apart(db') /\ plan' = plan
    <3>1. plan' = plan
      BY <2>6 DEF TrackAdd, TrackRm
    <3>2. today \in CalendarDays
      BY <1>a DEF Around
    <3> QED BY <2>6, <3>1, <3>2, TrackHolds
  <2>7. CASE Descope
    <3>1. db' = Purged(db, OutOfScope(db)) /\ plan' = plan
      BY <2>7 DEF Descope
    <3> DEFINE ids == OutOfScope(db)
    <3>2. LET b == Purged(db, ids) IN Apart(b) /\ b.sound = db.sound
      <4> HIDE DEF ids
      <4> QED BY <1>a, PurgedHolds
    <3> QED BY <1>a, <3>1, <3>2
  <2> QED BY <1>a, <1>4, <2>1, <2>2, <2>3, <2>4, <2>5, <2>6, <2>7 DEF OperatorStep
<1>5. CASE UNCHANGED everything
  BY <1>1, <1>5 DEF everything
<1> QED BY <1>2, <1>3, <1>4, <1>5 DEF UniverseNext

(* While no claim of a ticker met a closed period, a ticker names one listed security at *)
(* most (OneHolder), of either vendor, through renames, mints, relists of old plans,     *)
(* merges and dedupes in any order.                                                      *)
THEOREM OneHolderStands == UniverseSpec => []OneHolder
<1>1. AtCutover => HoldInv
  <2> SUFFICES ASSUME AtCutover PROVE HoldInv
    OBVIOUS
  <2>1. PICK c \in Cutover : db = c.db
    BY DEF AtCutover
  <2>2. c.db.sound /\ Sound(c.db) /\ (c.db.opened => Housed(c.db))
    BY UniverseAssumption
  <2>3. db.sound /\ Apart(db)
    BY <2>1, <2>2 DEF Apart, HeldBut, Trusted, Sound, OnePeriod, Housed
  <2>4. plan = None
    BY DEF AtCutover
  <2> QED BY <2>3, <2>4, InitTyped DEF HoldInv
<1>2. UniverseTyped' /\ HoldInv /\ [UniverseNext]_everything => HoldInv'
  <2> SUFFICES ASSUME UniverseTyped', HoldInv, [UniverseNext]_everything PROVE HoldInv'
    OBVIOUS
  <2>1. /\ db'.sound /\ Apart(db')
        /\ (plan' # None /\ plan'.of = "relist") => PlanHolds(plan')
    BY HoldStep
  <2>2. /\ (db.sound)' /\ Apart(db)'
        /\ ((plan # None /\ plan.of = "relist") => PlanHolds(plan))'
    BY <2>1
  <2> QED BY <2>2 DEF HoldInv
<1>3. HoldInv => OneHolder
  <2> SUFFICES ASSUME HoldInv, db.opened, NEW s \in Listed(db), NEW v \in Listed(db),
                      db.secs[s].sym = db.secs[v].sym
               PROVE  s = v
    BY DEF OneHolder, NamedOnce
  <2>1. OnePeriod(db) /\ Holds(db, s) /\ Holds(db, v)
    BY DEF HoldInv, Apart, HeldBut, Trusted
  <2> QED BY <2>1 DEF Holds, OpenOn, OnePeriod
<1> QED BY <1>1, <1>2, <1>3, UniverseTypeCorrect, PTL DEF UniverseSpec

=============================================================================
