------------------------- MODULE SearchQueueProofs -------------------------
(***************************************************************************)
(* The safety properties of SearchQueue for any number of requirements,    *)
(* part numbers, listings and workers, and what the deployment adds: with  *)
(* one worker per marketplace no row is ever contested.                    *)
(***************************************************************************)
EXTENDS SearchQueue, TLAPS

\* What is a sighting was added once.
StoredIsKnown == \A q \in Requirements : Stored(q) \subseteq ever[q]

\* The keys a worker compares with were in the table of its row's requirement.
SeenIsKnown ==
  \A w \in Workers : pc[w] = "results" => seen[w] \subseteq ever[item[w][1]]

\* A worker past its save has what it will be counted for in the table.
FoundIsBacked ==
  \A w \in Workers : pc[w] = "saved" =>
    \A x \in found[w] \ Nameless : Backed(item[w][1], x)

QueueInv ==
  /\ TypeOK
  /\ ExclusiveClaim
  /\ CompletedMeansSaved
  /\ StoredIsKnown
  /\ SeenIsKnown
  /\ FoundIsBacked

\* Type correctness holds at first.
LEMMA TypeInit == Init => TypeOK
  BY NoRowAssumption, BoundsAssumption, ListingsAssumption
     DEF Init, TypeOK, Rows, Active, Settled, Holding, Rewriting

\* Every step keeps the types.
LEMMA TypeStep == TypeOK /\ [Next]_vars => TypeOK'
<1> SUFFICES ASSUME TypeOK, [Next]_vars PROVE TypeOK' OBVIOUS
<1> USE NoRowAssumption, BoundsAssumption DEF TypeOK, historyVars, Active, Settled, Holding, Rewriting
<1>1. ASSUME NEW r \in Rows, Insert(r) PROVE TypeOK'
  BY <1>1 DEF Insert, workerVars
<1>2. ASSUME NEW r \in Rows, SearchAges(r) PROVE TypeOK'
  BY <1>2 DEF SearchAges, Fault, workerVars
<1>3. ASSUME NEW r \in Rows, NEW s \in Rows, CloneFrom(r, s) PROVE TypeOK'
  <2>1. \A x \in Listings : Linked(s, x) \in Nat
    BY DEF Linked, Rows
  <2>2. r[1] \in Requirements
    BY DEF Rows
  <2>3. [x \in Listings |-> sightings[r[1]][x] + Linked(s, x)] \in [Listings -> Nat]
    BY <2>1, <2>2
  <2>4. sightings' \in [Requirements -> [Listings -> Nat]]
    BY <1>3, <2>2, <2>3 DEF CloneFrom
  <2>5. ever' \in [Requirements -> SUBSET Listings] /\ cloned' \in [Requirements -> SUBSET Listings]
    BY <1>3, <2>2 DEF CloneFrom
  <2> QED BY <1>3, <2>4, <2>5 DEF CloneFrom, workerVars
<1>4. ASSUME NEW q \in Requirements, SearchWithoutSource(q) \/ MergeFresh(q) PROVE TypeOK'
  <2>1. PICK gone : DeleteSightings(q, gone)
    BY <1>4 DEF SearchWithoutSource, MergeFresh
  <2>2. [x \in Listings |-> IF x \in gone THEN 0 ELSE sightings[q][x]] \in [Listings -> Nat]
    OBVIOUS
  <2>3. sightings' \in [Requirements -> [Listings -> Nat]]
    BY <2>1, <2>2 DEF DeleteSightings
  <2> QED BY <2>1, <2>3 DEF DeleteSightings, workerVars
<1>5. ASSUME NEW w \in Workers, NEW rows \in SUBSET Rows, NEW next \in Rewriting,
             pc[w] \notin Holding, Load(w, rows, next)
      PROVE  TypeOK'
  BY <1>5 DEF Load, queueVars
<1>6. ASSUME NEW w \in Workers, NEW new \in [Rows -> {"queued", "gated_out"}], NEW exp,
             NEW next \in {"loop", "claim"}, pc[w] \notin Holding,
             Rewrite(w, new, exp, next)
      PROVE  TypeOK'
  BY <1>6 DEF Rewrite
<1>a. ASSUME NEW w \in Workers, NEW new \in Created(w), item[w] \in Rows,
             AddSightings(item[w][1], new)
      PROVE  /\ sightings' \in [Requirements -> [Listings -> Nat]]
             /\ ever' \in [Requirements -> SUBSET Listings]
  <2> DEFINE q == item[w][1]
  <2>1. q \in Requirements /\ new \subseteq Listings
    BY <1>a DEF Created, Wanted, Rows
  <2>2. [x \in Listings |-> IF x \in new THEN sightings[q][x] + 1 ELSE sightings[q][x]]
          \in [Listings -> Nat]
    BY <2>1
  <2> QED BY <1>a, <2>1, <2>2 DEF AddSightings
<1>7. ASSUME NEW w \in Workers, LoopStep(w) PROVE TypeOK'
  <2>1. CASE StartWorker(w)
    BY <1>5, <2>1 DEF StartWorker, Searching
  <2>2. CASE RecoverStale(w) \/ ReclaimStuck(w)
    BY <1>6, <2>2 DEF RecoverStale, ReclaimStuck, AllQueued
  <2>3. CASE LoadPending(w)
    BY <1>5, <2>3 DEF LoadPending, Pending
  <2>4. CASE LoadStuck(w)
    BY <1>5, <2>4 DEF LoadStuck, Claiming, Stuck, Searching
  <2>5. CASE ProcessGate(w)
    <3>1. PICK go \in SUBSET batch[w] :
            Rewrite(w, [r \in Rows |-> Verdict(r \in go)], "pending", "claim")
      BY <2>5 DEF ProcessGate
    <3>2. [r \in Rows |-> Verdict(r \in go)] \in [Rows -> {"queued", "gated_out"}]
      BY DEF Verdict
    <3> QED BY <1>6, <2>5, <3>1, <3>2 DEF ProcessGate
  <2>6. CASE SelectNext(w)
    <3>1. UNCHANGED <<queueVars, batch, found, seen, historyVars, faults, deployed>>
      BY <2>6 DEF SelectNext
    <3>2. CASE pc' = [pc EXCEPT ![w] = "loop"] /\ UNCHANGED item
      BY <2>6, <3>1, <3>2 DEF SelectNext, Claiming, queueVars
    <3>3. CASE \E r \in Rows : item' = [item EXCEPT ![w] = r] /\ pc' = [pc EXCEPT ![w] = "locked"]
      BY <3>1, <3>3 DEF queueVars
    <3> QED BY <2>6, <3>2, <3>3 DEF SelectNext, Claimable
  <2>7. CASE Claim(w)
    BY <2>7 DEF Claim, Mark
  <2>8. CASE SearchPart(w)
    BY <2>8 DEF SearchPart, ExistingKeys, Stored, queueVars
  <2>9. CASE SaveSightings(w)
    BY <1>a, <2>9 DEF SaveSightings
  <2>10. CASE MarkCompleted(w)
    BY <2>10 DEF MarkCompleted, ReadyToComplete, Mark
  <2>11. CASE ReportStatus(w)
    BY <2>11 DEF ReportStatus, Release, queueVars
  <2>12. CASE MarkFailed(w)
    BY <1>a, <2>12 DEF MarkFailed, Mark, Release
  <2> QED BY <1>7, <2>1, <2>2, <2>3, <2>4, <2>5, <2>6, <2>7, <2>8, <2>9, <2>10, <2>11, <2>12
          DEF LoopStep
<1>8. ASSUME NEW w \in Workers, WorkerFault(w) PROVE TypeOK'
  <2>1. CASE SessionExpired(w)
    BY <2>1 DEF SessionExpired, Mark, Release, Fault
  <2>2. CASE MarkFails(w)
    BY <2>2 DEF MarkFails, Release, Fault, queueVars
  <2>3. CASE GateError(w)
    BY <2>3 DEF GateError, Fault, queueVars
  <2>4. CASE Crash(w)
    BY <2>4 DEF Crash, Release, Fault, queueVars
  <2>5. CASE GateCooldown(w)
    BY <2>5 DEF GateCooldown, Fault, queueVars
  <2> QED BY <1>8, <2>1, <2>2, <2>3, <2>4, <2>5 DEF WorkerFault
<1>9. CASE UNCHANGED vars
  BY <1>9 DEF vars, queueVars, workerVars
<1> QED BY <1>1, <1>2, <1>3, <1>4, <1>7, <1>8, <1>9 DEF Next, AppStep

\* Type correctness: the statuses are the enum's, and a worker has a row
\* exactly in the part of its loop between the claim and the report.
THEOREM TypeCorrect == Spec => []TypeOK
  BY TypeInit, TypeStep, PTL DEF Spec

-----------------------------------------------------------------------------
\* Claims stay exclusive: the select skips what another worker has locked, and
\* every other write that hits a held row contests it.
LEMMA ClaimStep ==
  ASSUME TypeOK, TypeOK', ExclusiveClaim, Next
  PROVE  ExclusiveClaim'
<1> SUFFICES ASSUME NEW v \in Workers, item'[v] # NoRow, item'[v] \notin contested'
             PROVE  /\ status'[item'[v]] = Shows(pc'[v])
                    /\ \A u \in Workers \ {v} : item'[u] # item'[v]
  BY DEF ExclusiveClaim
<1> DEFINE Kept == /\ status'[item'[v]] = Shows(pc'[v])
                   /\ \A u \in Workers \ {v} : item'[u] # item'[v]
<1> USE NoRowAssumption DEF TypeOK, ExclusiveClaim, Shows, historyVars, Holding, Rewriting
<1>1. ASSUME NEW r \in Rows, Insert(r) PROVE Kept
  BY <1>1 DEF Insert, Existing, workerVars
<1>2. ASSUME NEW r \in Rows, SearchAges(r) PROVE Kept
  BY <1>2 DEF SearchAges, workerVars
<1>3. ASSUME NEW r \in Rows, NEW s \in Rows, CloneFrom(r, s) PROVE Kept
  BY <1>3 DEF CloneFrom, workerVars
<1>4. ASSUME NEW q \in Requirements, SearchWithoutSource(q) \/ MergeFresh(q) PROVE Kept
  BY <1>4 DEF SearchWithoutSource, MergeFresh, DeleteSightings, workerVars
<1>5. ASSUME NEW w \in Workers, NEW rows, NEW next \in Rewriting,
             pc[w] \notin Holding, Load(w, rows, next)
      PROVE  Kept
  BY <1>5 DEF Load, queueVars
<1>6. ASSUME NEW w \in Workers, NEW new, NEW exp, NEW next,
             pc[w] \notin Holding, Rewrite(w, new, exp, next)
      PROVE  Kept
  <2>1. v # w /\ item[v] # NoRow /\ item[v] \notin batch[w]
    BY <1>6 DEF Rewrite, Held
  <2> QED BY <1>6, <2>1 DEF Rewrite
<1>7. ASSUME NEW w \in Workers, LoopStep(w) PROVE Kept
  <2>1. CASE StartWorker(w)
    BY <1>5, <2>1 DEF StartWorker
  <2>2. CASE RecoverStale(w) \/ ReclaimStuck(w)
    BY <1>6, <2>2 DEF RecoverStale, ReclaimStuck
  <2>3. CASE LoadPending(w)
    BY <1>5, <2>3 DEF LoadPending
  <2>4. CASE LoadStuck(w)
    BY <1>5, <2>4 DEF LoadStuck, Claiming
  <2>5. CASE ProcessGate(w)
    BY <1>6, <2>5 DEF ProcessGate
  <2>6. CASE SelectNext(w)
    <3>1. UNCHANGED <<queueVars, historyVars>>
      BY <2>6 DEF SelectNext
    <3>2. CASE pc' = [pc EXCEPT ![w] = "loop"] /\ UNCHANGED item
      BY <2>6, <3>1, <3>2 DEF SelectNext, Claiming, queueVars
    <3>3. ASSUME NEW r \in Claimable(w), item' = [item EXCEPT ![w] = r],
                 pc' = [pc EXCEPT ![w] = "locked"]
          PROVE  Kept
      <4>1. r \in Rows /\ status[r] = "queued" /\ ~LockedByOther(w, r)
        BY DEF Claimable
      <4>2. \A u \in Workers \ {w} : item[u] = r => r \in contested
        <5> SUFFICES ASSUME NEW u \in Workers \ {w}, item[u] = r, r \notin contested
                     PROVE  FALSE
          OBVIOUS
        <5>1. pc[u] \in Holding \ {"locked"}
          BY <4>1 DEF LockedByOther
        <5>2. status[r] = Shows(pc[u])
          BY <4>1
        <5> QED BY <4>1, <5>1, <5>2
      <4>3. CASE v = w
        BY <3>1, <3>3, <4>1, <4>2, <4>3 DEF queueVars
      <4>4. CASE v # w
        BY <3>1, <3>3, <4>1, <4>2, <4>4 DEF queueVars
      <4> QED BY <4>3, <4>4
    <3> QED BY <2>6, <3>2, <3>3 DEF SelectNext
  <2>7. CASE Claim(w)
    BY <2>7 DEF Claim, Mark
  <2>8. CASE SearchPart(w)
    BY <2>8 DEF SearchPart, queueVars
  <2>9. CASE SaveSightings(w)
    BY <2>9 DEF SaveSightings
  <2>10. CASE MarkCompleted(w)
    BY <2>10 DEF MarkCompleted, ReadyToComplete, Mark
  <2>11. CASE ReportStatus(w)
    BY <2>11 DEF ReportStatus, Release, queueVars
  <2>12. CASE MarkFailed(w)
    BY <2>12 DEF MarkFailed, Mark, Release
  <2> QED BY <1>7, <2>1, <2>2, <2>3, <2>4, <2>5, <2>6, <2>7, <2>8, <2>9, <2>10, <2>11, <2>12
          DEF LoopStep
<1>8. ASSUME NEW w \in Workers, WorkerFault(w) PROVE Kept
  <2>1. CASE SessionExpired(w)
    BY <2>1 DEF SessionExpired, Mark, Release
  <2>2. CASE MarkFails(w)
    BY <2>2 DEF MarkFails, Release, queueVars
  <2>3. CASE GateError(w)
    BY <2>3 DEF GateError, queueVars
  <2>4. CASE Crash(w)
    BY <2>4 DEF Crash, Release, queueVars
  <2>5. CASE GateCooldown(w)
    BY <2>5 DEF GateCooldown, queueVars
  <2> QED BY <1>8, <2>1, <2>2, <2>3, <2>4, <2>5 DEF WorkerFault
<1> QED BY <1>1, <1>2, <1>3, <1>4, <1>7, <1>8 DEF Next, AppStep

-----------------------------------------------------------------------------
\* What a step does to the sightings: nothing, or it deletes some of one
\* requirement, clones a twin's, or saves some that a worker found.
ListingMove ==
  \/ UNCHANGED <<sightings, ever, cloned>>
  \/ \E q \in Requirements, gone \in SUBSET Listings : DeleteSightings(q, gone)
  \/ \E r, s \in Rows : CloneFrom(r, s)
  \/ \E w \in Workers : /\ pc[w] = "results" /\ pc'[w] # "results" /\ cloned' = cloned
                        /\ \E new \in Created(w) : AddSightings(item[w][1], new)

\* A worker is after its search, after its save, or settles its row as a
\* completion: it came there by its own step, or nothing changed for it.
WorkerMove(w) ==
  /\ pc'[w] = "results" =>
       \/ SearchPart(w)
       \/ pc[w] = "results" /\ item'[w] = item[w] /\ seen'[w] = seen[w]
  /\ pc'[w] = "saved" =>
       \/ SaveSightings(w)
       \/ pc[w] = "saved" /\ item'[w] = item[w] /\ found'[w] = found[w]

\* Every step is one of these moves.
LEMMA Moves ==
  ASSUME TypeOK, Next
  PROVE  /\ ListingMove
         /\ \A w \in Workers : WorkerMove(w)
         /\ results' = results \/ \E w \in Workers : MarkCompleted(w)
<1> DEFINE Sorted == /\ ListingMove
                     /\ \A w \in Workers : WorkerMove(w)
                     /\ results' = results \/ \E w \in Workers : MarkCompleted(w)
<1> USE DEF TypeOK, historyVars, queueVars, workerVars
<1>1. ASSUME NEW r \in Rows, Insert(r) \/ SearchAges(r) PROVE Sorted
  BY <1>1 DEF Insert, SearchAges, ListingMove, WorkerMove
<1>2. ASSUME NEW r \in Rows, NEW s \in Rows, CloneFrom(r, s) PROVE Sorted
  <2>1. UNCHANGED <<workerVars, results>>
    BY <1>2 DEF CloneFrom
  <2> QED BY <1>2, <2>1 DEF ListingMove, WorkerMove
<1>3. ASSUME NEW q \in Requirements, SearchWithoutSource(q) \/ MergeFresh(q) PROVE Sorted
  <2>1. PICK gone \in SUBSET Listings : DeleteSightings(q, gone)
    BY <1>3 DEF SearchWithoutSource, MergeFresh, Stored
  <2>2. UNCHANGED <<workerVars, results>>
    BY <2>1 DEF DeleteSightings
  <2> QED BY <2>1, <2>2 DEF ListingMove, WorkerMove
<1>4. ASSUME NEW w \in Workers, LoopStep(w) PROVE Sorted
  <2>1. CASE StartWorker(w) \/ LoadPending(w) \/ LoadStuck(w)
    BY <2>1 DEF StartWorker, LoadPending, LoadStuck, Load, ListingMove, WorkerMove
  <2>2. CASE RecoverStale(w) \/ ReclaimStuck(w) \/ ProcessGate(w)
    BY <2>2 DEF RecoverStale, ReclaimStuck, ProcessGate, Rewrite, ListingMove, WorkerMove
  <2>3. CASE SelectNext(w)
    BY <2>3 DEF SelectNext, ListingMove, WorkerMove
  <2>4. CASE Claim(w) \/ SearchPart(w)
    BY <2>4 DEF Claim, SearchPart, ListingMove, WorkerMove
  <2>5. CASE SaveSightings(w)
    <3>1. ListingMove
      BY <2>5 DEF SaveSightings, ListingMove
    <3>2. \A v \in Workers \ {w} : /\ pc'[v] = pc[v] /\ item'[v] = item[v]
                                   /\ seen'[v] = seen[v] /\ found'[v] = found[v]
      BY <2>5 DEF SaveSightings
    <3> QED BY <2>5, <3>1, <3>2 DEF SaveSightings, WorkerMove
  <2>6. CASE MarkCompleted(w)
    <3>1. ListingMove
      BY <2>6 DEF MarkCompleted, ListingMove
    <3>2. \A v \in Workers : WorkerMove(v)
      BY <2>6 DEF MarkCompleted, WorkerMove
    <3> QED BY <2>6, <3>1, <3>2
  <2>7. CASE ReportStatus(w)
    BY <2>7 DEF ReportStatus, Release, ListingMove, WorkerMove
  <2>8. CASE MarkFailed(w)
    <3>1. PICK new \in Created(w) : AddSightings(item[w][1], new)
      BY <2>8 DEF MarkFailed
    <3>2. CASE pc[w] = "results"
      BY <2>8, <3>1, <3>2 DEF MarkFailed, Release, ListingMove, WorkerMove
    <3>3. CASE pc[w] # "results"
      <4>1. new = {}
        BY <3>3 DEF Created, Wanted
      <4>2. item[w] \in Rows
        BY <2>8 DEF MarkFailed, Holding
      <4>3. item[w][1] \in Requirements
        BY <4>2 DEF Rows
      <4>4. [x \in Listings |-> IF x \in new THEN sightings[item[w][1]][x] + 1
                                ELSE sightings[item[w][1]][x]] = sightings[item[w][1]]
        BY <4>1, <4>3
      <4>5. UNCHANGED <<sightings, ever, cloned, results>>
        BY <2>8, <3>1, <4>1, <4>3, <4>4 DEF MarkFailed, AddSightings
      <4> QED BY <2>8, <4>5 DEF MarkFailed, Release, ListingMove, WorkerMove
    <3> QED BY <3>2, <3>3
  <2> QED BY <1>4, <2>1, <2>2, <2>3, <2>4, <2>5, <2>6, <2>7, <2>8 DEF LoopStep
<1>5. ASSUME NEW w \in Workers, WorkerFault(w) PROVE Sorted
  <2>1. CASE SessionExpired(w) \/ MarkFails(w) \/ Crash(w)
    BY <2>1 DEF SessionExpired, MarkFails, Crash, Release, ListingMove, WorkerMove
  <2>2. CASE GateError(w) \/ GateCooldown(w)
    BY <2>2 DEF GateError, GateCooldown, ListingMove, WorkerMove
  <2> QED BY <1>5, <2>1, <2>2 DEF WorkerFault
<1> QED BY <1>1, <1>2, <1>3, <1>4, <1>5 DEF Next, AppStep

\* The record of sightings only grows, and holds what is in the table.
LEMMA KnownStep ==
  ASSUME TypeOK, TypeOK', StoredIsKnown, Next
  PROVE  StoredIsKnown' /\ \A q \in Requirements : ever[q] \subseteq ever'[q]
<1> DEFINE Kept == StoredIsKnown' /\ \A q \in Requirements : ever[q] \subseteq ever'[q]
<1> USE ListingsAssumption DEF TypeOK, StoredIsKnown, Stored
<1>1. CASE UNCHANGED <<sightings, ever, cloned>>
  BY <1>1
<1>2. ASSUME NEW q \in Requirements, NEW gone \in SUBSET Listings, DeleteSightings(q, gone)
      PROVE  Kept
  BY <1>2 DEF DeleteSightings, historyVars
<1>3. ASSUME NEW r \in Rows, NEW s \in Rows, CloneFrom(r, s) PROVE Kept
  <2>1. r[1] \in Requirements /\ \A x \in Listings : Linked(s, x) \in Nat
    BY DEF Rows, Linked
  <2>2. \A x \in Listings : sightings'[r[1]][x] = sightings[r[1]][x] + Linked(s, x)
    BY <1>3, <2>1 DEF CloneFrom
  <2>3. ever'[r[1]] = ever[r[1]] \cup {x \in Listings : Linked(s, x) > 0}
    BY <1>3, <2>1 DEF CloneFrom
  <2>4. \A q \in Requirements \ {r[1]} : sightings'[q] = sightings[q] /\ ever'[q] = ever[q]
    BY <1>3, <2>1 DEF CloneFrom
  <2>5. Stored(r[1])' \subseteq ever'[r[1]]
    BY <2>1, <2>2, <2>3
  <2> QED BY <2>1, <2>3, <2>4, <2>5
<1>4. ASSUME NEW w \in Workers, NEW new \in Created(w), pc[w] = "results",
             AddSightings(item[w][1], new)
      PROVE  Kept
  <2>1. item[w][1] \in Requirements
    BY <1>4 DEF Holding, Rows
  <2> QED BY <1>4, <2>1 DEF AddSightings
<1> QED BY <1>1, <1>2, <1>3, <1>4, Moves DEF ListingMove

\* What the rows and the workers say of the saved listings stays true.
LEMMA ListingStep ==
  ASSUME QueueInv, TypeOK', Next
  PROVE  CompletedMeansSaved' /\ StoredIsKnown' /\ SeenIsKnown' /\ FoundIsBacked'
<1> USE DEF QueueInv
<1>1. StoredIsKnown' /\ \A q \in Requirements : ever[q] \subseteq ever'[q]
  BY KnownStep
<1>2. \A q \in Requirements : \A x \in Listings : Backed(q, x) => Backed(q, x)'
  BY <1>1 DEF Backed
<1>3. \A w \in Workers : item[w] # NoRow => item[w] \in Rows /\ item[w][1] \in Requirements
  BY DEF TypeOK, Rows
<1>4. \A w \in Workers : pc[w] \in Holding => item[w] # NoRow
  BY DEF TypeOK
<1>5. SeenIsKnown'
  <2> SUFFICES ASSUME NEW w \in Workers, pc'[w] = "results"
               PROVE  seen'[w] \subseteq ever'[item'[w][1]]
    BY DEF SeenIsKnown
  <2>1. CASE SearchPart(w)
    <3>1. item'[w] = item[w] /\ seen'[w] = Stored(item[w][1]) /\ pc[w] = "search" /\ ever' = ever
      BY <2>1 DEF SearchPart, ExistingKeys, historyVars, TypeOK
    <3> QED BY <1>3, <1>4, <3>1 DEF StoredIsKnown, Holding
  <2>2. CASE pc[w] = "results" /\ item'[w] = item[w] /\ seen'[w] = seen[w]
    BY <1>1, <1>3, <1>4, <2>2 DEF SeenIsKnown, Holding
  <2> QED BY <2>1, <2>2, Moves DEF WorkerMove
<1>6. FoundIsBacked'
  <2> SUFFICES ASSUME NEW w \in Workers, pc'[w] = "saved", NEW x \in found'[w] \ Nameless
               PROVE  \E y \in ever'[item'[w][1]] : y = Strip[x] \/ Strip[y] = Strip[x]
    BY DEF FoundIsBacked, Backed
  <2>1. CASE SaveSightings(w)
    <3>1. PICK new \in Created(w) :
            /\ \A y \in Wanted(w) : \E z \in new : Strip[z] = Strip[y]
            /\ AddSightings(item[w][1], new)
      BY <2>1 DEF SaveSightings
    <3>2. item'[w] = item[w] /\ found' = found /\ pc[w] = "results"
      BY <2>1 DEF SaveSightings
    <3>3. item[w][1] \in Requirements
      BY <1>3, <1>4, <3>2 DEF Holding
    <3>4. ever'[item[w][1]] = ever[item[w][1]] \cup new
      BY <3>1, <3>3 DEF AddSightings, TypeOK
    <3>5. CASE x \in Wanted(w)
      BY <3>1, <3>2, <3>4, <3>5 DEF Backed
    <3>6. CASE x \notin Wanted(w)
      <4>1. Strip[x] \in seen[w]
        BY <3>2, <3>6 DEF Wanted
      <4> QED BY <3>2, <3>4, <4>1 DEF SeenIsKnown, Backed
    <3> QED BY <3>5, <3>6
  <2>2. CASE pc[w] = "saved" /\ item'[w] = item[w] /\ found'[w] = found[w]
    BY <1>1, <1>3, <1>4, <2>2 DEF FoundIsBacked, Backed, Holding
  <2> QED BY <2>1, <2>2, Moves DEF WorkerMove
<1>7. CompletedMeansSaved'
  <2> SUFFICES ASSUME NEW r \in Rows, NEW x \in results'[r] \ Nameless PROVE Backed(r[1], x)'
    BY DEF CompletedMeansSaved
  <2>1. r[1] \in Requirements /\ x \in Listings
    BY DEF Rows, TypeOK
  <2>2. Backed(r[1], x)
    <3>1. CASE results' = results
      BY <3>1 DEF CompletedMeansSaved
    <3>2. ASSUME NEW w \in Workers, MarkCompleted(w) PROVE Backed(r[1], x)
      <4>1. pc[w] = "saved" /\ results' = [results EXCEPT ![item[w]] = found[w]]
        BY <3>2 DEF MarkCompleted, ReadyToComplete
      <4> QED BY <1>3, <1>4, <4>1 DEF CompletedMeansSaved, FoundIsBacked, TypeOK
    <3> QED BY <3>1, <3>2, Moves
  <2> QED BY <1>2, <2>1, <2>2
<1> QED BY <1>1, <1>5, <1>6, <1>7

\* The inductive invariant.
LEMMA QueueInvariant == Spec => []QueueInv
<1>1. Init => QueueInv
  BY TypeInit DEF QueueInv, Init, ExclusiveClaim, CompletedMeansSaved, StoredIsKnown, Stored,
                  SeenIsKnown, FoundIsBacked
<1>2. QueueInv /\ [Next]_vars => QueueInv'
  <2> SUFFICES ASSUME QueueInv, [Next]_vars PROVE QueueInv' OBVIOUS
  <2>1. CASE Next
    BY <2>1, TypeStep, ClaimStep, ListingStep DEF QueueInv
  <2>2. CASE UNCHANGED vars
    BY <2>2 DEF vars, queueVars, workerVars, historyVars, QueueInv, TypeOK, ExclusiveClaim,
                CompletedMeansSaved, StoredIsKnown, Stored, SeenIsKnown, FoundIsBacked, Backed
  <2> QED BY <2>1, <2>2
<1> QED BY <1>1, <1>2, PTL DEF Spec

-----------------------------------------------------------------------------
\* Two workers are on one row, or a holder's row says something else, only after
\* a stale write (claim_next_queued_item and its SKIP LOCKED).
THEOREM ClaimsAreExclusive == Spec => []ExclusiveClaim
  BY QueueInvariant, PTL DEF QueueInv

\* A completion counts only listings that the save before it put in the table or
\* recognised there, those without a vendor excepted (save_ics_sightings, then
\* mark_completed), for any crashes in between, any number of workers and any
\* rule for stripping suffixes.
THEOREM CompletionIsBacked == Spec => []CompletedMeansSaved
  BY QueueInvariant, PTL DEF QueueInv

\* A step that changes a row that is settled and let go of contests it.
LEMMA SettledStep ==
  ASSUME TypeOK, Next, NEW r \in Rows, status[r] \in Settled, ~Held(r), r \notin contested'
  PROVE  status'[r] = status[r]
<1> USE NoRowAssumption DEF TypeOK, Settled, Holding, Held
<1>1. CASE AppStep
  BY <1>1 DEF AppStep, Insert, Existing, SearchAges, CloneFrom, SearchWithoutSource, MergeFresh,
              DeleteSightings
<1>2. ASSUME NEW w \in Workers, LoopStep(w) \/ WorkerFault(w)
      PROVE  status'[r] = status[r]
  <2>1. CASE WorkerFault(w)
    BY <2>1 DEF WorkerFault, SessionExpired, Mark, MarkFails, GateError, GateCooldown, Crash,
                queueVars
  <2>2. CASE SaveSightings(w) \/ MarkFailed(w) \/ MarkCompleted(w) \/ Claim(w)
    BY <2>2 DEF SaveSightings, MarkFailed, MarkCompleted, ReadyToComplete, Claim, Mark
  <2>3. CASE StartWorker(w) \/ LoadPending(w) \/ LoadStuck(w)
    BY <2>3 DEF StartWorker, LoadPending, LoadStuck, Load, queueVars
  <2>4. CASE RecoverStale(w) \/ ReclaimStuck(w) \/ ProcessGate(w)
    BY <2>4 DEF RecoverStale, ReclaimStuck, ProcessGate, Rewrite
  <2>5. CASE SelectNext(w) \/ SearchPart(w) \/ ReportStatus(w)
    BY <2>5 DEF SelectNext, SearchPart, ReportStatus, queueVars
  <2> QED BY <1>2, <2>1, <2>2, <2>3, <2>4, <2>5 DEF LoopStep
<1> QED BY <1>1, <1>2 DEF Next

\* Completed, gated out and failed rows that nobody holds are reopened by a
\* write from an outdated read and by nothing else in the code: not by a later
\* enqueue, a restart, a reclaim or a gate run that works on the row as it is.
\* (The force-search of the workers' READMEs, which would, has no handler.)
THEOREM OnlyOutdatedWritesReopen ==
  Spec => [][\A r \in Rows : status[r] \in Settled /\ ~Held(r) /\ status'[r] # status[r] =>
               r \in contested']_vars
<1>1. TypeOK /\ [Next]_vars =>
        [\A r \in Rows : status[r] \in Settled /\ ~Held(r) /\ status'[r] # status[r] =>
           r \in contested']_vars
  BY SettledStep
<1> QED BY <1>1, TypeCorrect, PTL DEF Spec

-----------------------------------------------------------------------------
(* One process per marketplace, the deployment. *)

\* A process that is not deployed does nothing.
UndeployedIsDown ==
  \A w \in Workers \ deployed : pc[w] = "down" /\ batch[w] = {}

\* What is loaded to be rewritten is still as it was.
BatchIsCurrent ==
  \A w \in Workers : \A r \in batch[w] :
    /\ pc[w] \in Rewriting
    /\ status[r] = IF pc[w] = "verdict" THEN "pending" ELSE "searching"

\* A plain listing that the writer did not see, and no clone brought, is not there.
UnseenIsNew ==
  \A w \in Workers : pc[w] = "results" =>
    \A x \in Listings \ (seen[w] \cup cloned[item[w][1]]) :
      Strip[x] = x => sightings[item[w][1]][x] = 0

SoleInv ==
  /\ UndeployedIsDown
  /\ Alone => BatchIsCurrent /\ contested = {} /\ UnseenIsNew
  /\ PlainListingOnce

\* The deployment does not change, and only a deployed process moves.
LEMMA DeployedStep ==
  ASSUME TypeOK, UndeployedIsDown, Next
  PROVE  UndeployedIsDown' /\ deployed' = deployed
<1> USE NoRowAssumption DEF TypeOK, UndeployedIsDown, Holding, Rewriting
<1>1. CASE AppStep
  BY <1>1 DEF AppStep, Insert, SearchAges, CloneFrom, SearchWithoutSource, MergeFresh,
              DeleteSightings, workerVars
<1>2. ASSUME NEW w \in Workers, LoopStep(w) \/ WorkerFault(w)
      PROVE  UndeployedIsDown' /\ deployed' = deployed
  <2>1. w \in deployed
    BY <1>2 DEF LoopStep, WorkerFault, StartWorker, RecoverStale, LoadPending, ProcessGate,
       LoadStuck, ReclaimStuck, Claiming, SelectNext, Claim, SearchPart, SaveSightings,
       MarkCompleted, ReadyToComplete, ReportStatus, MarkFailed, SessionExpired, MarkFails,
       GateError, GateCooldown, Crash
  <2>2. deployed' = deployed /\ \A v \in Workers \ {w} : pc'[v] = pc[v] /\ batch'[v] = batch[v]
    <3>1. CASE WorkerFault(w)
      BY <3>1 DEF WorkerFault, SessionExpired, MarkFails, GateError, GateCooldown, Crash, Release
    <3>2. CASE StartWorker(w) \/ LoadPending(w) \/ LoadStuck(w)
      BY <3>2 DEF StartWorker, LoadPending, LoadStuck, Load
    <3>3. CASE RecoverStale(w) \/ ReclaimStuck(w) \/ ProcessGate(w)
      BY <3>3 DEF RecoverStale, ReclaimStuck, ProcessGate, Rewrite
    <3>4. CASE SelectNext(w) \/ Claim(w) \/ SearchPart(w) \/ SaveSightings(w)
      BY <3>4 DEF SelectNext, Claim, SearchPart, SaveSightings
    <3>5. CASE MarkCompleted(w) \/ ReportStatus(w) \/ MarkFailed(w)
      BY <3>5 DEF MarkCompleted, ReportStatus, MarkFailed, Release
    <3> QED BY <1>2, <3>1, <3>2, <3>3, <3>4, <3>5 DEF LoopStep
  <2> QED BY <2>1, <2>2
<1> QED BY <1>1, <1>2 DEF Next

\* The one process finds what it loaded unchanged and held by nobody.
LEMMA BatchStep ==
  ASSUME TypeOK, TypeOK', UndeployedIsDown, Alone, BatchIsCurrent, contested = {}, Next
  PROVE  BatchIsCurrent' /\ contested' = {}
<1> DEFINE Kept == BatchIsCurrent' /\ contested' = {}
<1> USE NoRowAssumption
    DEF TypeOK, UndeployedIsDown, Alone, BatchIsCurrent, Holding, Rewriting, historyVars
<1>1. CASE AppStep
  <2>1. UNCHANGED <<pc, batch, contested>>
    BY <1>1 DEF AppStep, Insert, SearchAges, CloneFrom, SearchWithoutSource, MergeFresh,
                DeleteSightings, workerVars
  <2>2. \A r \in Rows : status[r] # "none" => status'[r] = status[r]
    BY <1>1 DEF AppStep, Insert, Existing, SearchAges, CloneFrom, SearchWithoutSource, MergeFresh,
                DeleteSightings
  <2> QED BY <2>1, <2>2
<1>2. ASSUME NEW w \in Workers, LoopStep(w) \/ WorkerFault(w), pc[w] # "down" \/ w \in deployed
      PROVE  Kept
  <2>1. w \in deployed /\ \A v \in Workers \ {w} : batch[v] = {} /\ item[v] = NoRow
    BY <1>2
  <2>2. CASE StartWorker(w) \/ LoadPending(w) \/ LoadStuck(w)
    BY <2>1, <2>2 DEF StartWorker, LoadPending, LoadStuck, Load, Searching, Stuck, Pending,
                      queueVars
  <2>3. ASSUME NEW new, NEW exp, NEW next, Rewrite(w, new, exp, next),
               \A r \in batch[w] : status[r] = exp, pc[w] \in Rewriting
        PROVE  Kept
    <3>1. \A r \in Rows : ~Held(r)
      BY <2>1, <2>3 DEF Held
    <3>2. contested' = {} /\ batch'[w] = {}
      BY <2>3, <3>1 DEF Rewrite
    <3> QED BY <2>1, <2>3, <3>2 DEF Rewrite
  <2>4. CASE RecoverStale(w) \/ ReclaimStuck(w) \/ ProcessGate(w)
    <3>1. CASE RecoverStale(w)
      BY <2>3, <3>1 DEF RecoverStale
    <3>2. CASE ReclaimStuck(w)
      BY <2>3, <3>2 DEF ReclaimStuck
    <3>3. CASE ProcessGate(w)
      BY <2>3, <3>3 DEF ProcessGate
    <3> QED BY <2>4, <3>1, <3>2, <3>3
  <2>5. CASE SelectNext(w) \/ Claim(w) \/ SearchPart(w) \/ SaveSightings(w)
    BY <2>1, <2>5 DEF SelectNext, Claiming, Claim, SearchPart, SaveSightings, queueVars
  <2>6. CASE MarkCompleted(w) \/ ReportStatus(w) \/ MarkFailed(w)
    BY <2>1, <2>6 DEF MarkCompleted, ReadyToComplete, ReportStatus, MarkFailed, Release, queueVars
  <2>7. CASE WorkerFault(w)
    BY <2>1, <2>7 DEF WorkerFault, SessionExpired, MarkFails, GateError, GateCooldown, Crash,
                      Release, queueVars
  <2> QED BY <1>2, <2>2, <2>4, <2>5, <2>6, <2>7 DEF LoopStep
<1>3. \A w \in Workers : LoopStep(w) \/ WorkerFault(w) => pc[w] # "down" \/ w \in deployed
  BY DEF LoopStep, WorkerFault, StartWorker, RecoverStale, LoadPending, ProcessGate,
     LoadStuck, ReclaimStuck, Claiming, SelectNext, Claim, SearchPart, SaveSightings,
     MarkCompleted, ReadyToComplete, ReportStatus, MarkFailed, SessionExpired, MarkFails,
     GateError, GateCooldown, Crash
<1> QED BY <1>1, <1>2, <1>3 DEF Next

\* A save adds a plain listing only where there is none.
LEMMA PlainStep ==
  ASSUME TypeOK, TypeOK', UndeployedIsDown, Alone, deployed' = deployed,
         UnseenIsNew, PlainListingOnce, Next
  PROVE  UnseenIsNew' /\ PlainListingOnce'
<1> DEFINE Count(q, x) == sightings[q][x]
<1>1. \A w \in Workers : pc[w] = "results" => item[w][1] \in Requirements
  BY DEF TypeOK, Holding, Rows
<1>2. \A v, w \in Workers : pc[v] = "results" /\ pc[w] = "results" => v = w
  BY DEF UndeployedIsDown, Alone
\* Where no clone came and nothing was saved, there is no more of it.
<1>3. \A q \in Requirements : \A x \in Listings \ cloned'[q] :
        /\ x \notin cloned[q]
        /\ \/ Count(q, x)' <= Count(q, x)
           \/ \E w \in Workers : /\ pc[w] = "results" /\ pc'[w] # "results" /\ item[w][1] = q
                                 /\ Strip[x] \notin seen[w]
                                 /\ Count(q, x)' = Count(q, x) + 1
  <2> SUFFICES ASSUME NEW q \in Requirements, NEW x \in Listings \ cloned'[q]
               PROVE  /\ x \notin cloned[q]
                      /\ \/ Count(q, x)' <= Count(q, x)
                         \/ \E w \in Workers : /\ pc[w] = "results" /\ pc'[w] # "results"
                                               /\ item[w][1] = q
                                               /\ Strip[x] \notin seen[w]
                                               /\ Count(q, x)' = Count(q, x) + 1
    OBVIOUS
  <2>0. Count(q, x) \in Nat
    BY DEF TypeOK
  <2>1. CASE UNCHANGED <<sightings, ever, cloned>>
    BY <2>0, <2>1
  <2>2. ASSUME NEW p \in Requirements, NEW gone \in SUBSET Listings, DeleteSightings(p, gone)
        PROVE  cloned' = cloned /\ Count(q, x)' <= Count(q, x)
    <3>1. Count(q, x)' = Count(q, x) \/ Count(q, x)' = 0
      BY <2>2 DEF DeleteSightings, TypeOK
    <3> QED BY <2>0, <2>2, <3>1 DEF DeleteSightings, historyVars
  <2>3. ASSUME NEW r \in Rows, NEW s \in Rows, CloneFrom(r, s)
        PROVE  x \notin cloned[q] /\ Count(q, x)' = Count(q, x)
    <3>1. r[1] \in Requirements /\ Linked(s, x) \in Nat
      BY DEF Rows, Linked, TypeOK
    <3>2. CASE q # r[1]
      BY <2>3, <3>1, <3>2 DEF CloneFrom, TypeOK
    <3>3. CASE q = r[1]
      <4>1. x \notin cloned[q] /\ ~(Linked(s, x) > 0)
        BY <2>3, <3>1, <3>3 DEF CloneFrom, TypeOK
      <4>2. Linked(s, x) = 0
        BY <3>1, <4>1
      <4>3. Count(q, x)' = Count(q, x) + Linked(s, x)
        BY <2>3, <3>1, <3>3 DEF CloneFrom, TypeOK
      <4> QED BY <2>0, <4>1, <4>2, <4>3
    <3> QED BY <3>2, <3>3
  <2>4. ASSUME NEW w \in Workers, NEW new \in Created(w), pc[w] = "results", pc'[w] # "results",
               AddSightings(item[w][1], new), cloned' = cloned
        PROVE  \/ Count(q, x)' = Count(q, x)
               \/ /\ item[w][1] = q /\ Strip[x] \notin seen[w]
                  /\ Count(q, x)' = Count(q, x) + 1
    <3>1. item[w][1] \in Requirements
      BY <1>1, <2>4
    <3>2. CASE item[w][1] = q /\ x \in new
      BY <2>4, <3>1, <3>2 DEF AddSightings, Created, Wanted, TypeOK
    <3>3. CASE ~(item[w][1] = q /\ x \in new)
      BY <2>4, <3>1, <3>3 DEF AddSightings, TypeOK
    <3> QED BY <3>2, <3>3
  <2> QED BY <2>0, <2>1, <2>2, <2>3, <2>4, Moves DEF ListingMove
<1>4. PlainListingOnce'
  <2> SUFFICES ASSUME NEW q \in Requirements, NEW x \in Listings \ cloned'[q], Strip[x] = x
               PROVE  Count(q, x)' <= 1
    BY DEF PlainListingOnce
  <2>1. Count(q, x) <= 1 /\ Count(q, x) \in Nat /\ Count(q, x)' \in Nat
    BY <1>3 DEF PlainListingOnce, TypeOK
  <2>2. ASSUME NEW w \in Workers, pc[w] = "results", item[w][1] = q, Strip[x] \notin seen[w]
        PROVE  Count(q, x) = 0
    BY <1>3, <2>2 DEF UnseenIsNew
  <2>3. \/ Count(q, x)' <= Count(q, x)
        \/ \E w \in Workers : /\ pc[w] = "results" /\ item[w][1] = q /\ Strip[x] \notin seen[w]
                              /\ Count(q, x)' = Count(q, x) + 1
    BY <1>3
  <2> QED BY <2>1, <2>2, <2>3
<1>5. UnseenIsNew'
  <2> SUFFICES ASSUME NEW w \in Workers, pc'[w] = "results",
                      NEW x \in Listings \ (seen'[w] \cup cloned'[item'[w][1]]), Strip[x] = x
               PROVE  sightings'[item'[w][1]][x] = 0
    BY DEF UnseenIsNew
  <2>1. CASE SearchPart(w)
    <3>1. /\ item'[w] = item[w] /\ seen'[w] = Stored(item[w][1])
          /\ sightings' = sightings /\ pc[w] = "search"
      BY <2>1 DEF SearchPart, ExistingKeys, queueVars, TypeOK
    <3>2. item[w][1] \in Requirements
      BY <3>1 DEF TypeOK, Holding, Rows
    <3>3. sightings[item[w][1]][x] \in Nat /\ ~(sightings[item[w][1]][x] > 0)
      BY <3>1, <3>2 DEF Stored, TypeOK
    <3> QED BY <3>1, <3>3
  <2>2. CASE pc[w] = "results" /\ item'[w] = item[w] /\ seen'[w] = seen[w]
    <3>0. PICK q : q = item[w][1]
      OBVIOUS
    <3>1. q \in Requirements
      BY <1>1, <2>2, <3>0
    <3>2. x \notin cloned[q] /\ Count(q, x)' <= Count(q, x)
      BY <1>2, <1>3, <2>2, <3>0, <3>1
    <3>3. Count(q, x) = 0
      BY <2>2, <3>0, <3>2 DEF UnseenIsNew
    <3>4. Count(q, x)' \in Nat
      BY <3>1 DEF TypeOK
    <3>5. Count(q, x)' = 0
      BY <3>2, <3>3, <3>4
    <3> QED BY <2>2, <3>0, <3>5
  <2> QED BY <2>1, <2>2, Moves DEF WorkerMove
<1> QED BY <1>4, <1>5

\* The inductive invariant of the deployment.
LEMMA SoleInvariant == Spec => []SoleInv
<1>1. Init => SoleInv
  BY DEF Init, SoleInv, UndeployedIsDown, BatchIsCurrent, UnseenIsNew, PlainListingOnce
<1>2. TypeOK /\ TypeOK' /\ SoleInv /\ [Next]_vars => SoleInv'
  <2> SUFFICES ASSUME TypeOK, TypeOK', SoleInv, [Next]_vars PROVE SoleInv' OBVIOUS
  <2>1. CASE Next
    <3>1. UndeployedIsDown' /\ deployed' = deployed
      BY <2>1, DeployedStep DEF SoleInv
    <3>2. Alone' <=> Alone
      BY <3>1 DEF Alone
    <3>3. Alone => BatchIsCurrent' /\ contested' = {}
      BY <2>1, BatchStep DEF SoleInv
    <3>4. Alone => UnseenIsNew' /\ PlainListingOnce'
      BY <2>1, <3>1, PlainStep DEF SoleInv
    <3>5. ~Alone => PlainListingOnce'
      BY <3>2 DEF PlainListingOnce
    <3> QED BY <3>1, <3>2, <3>3, <3>4, <3>5 DEF SoleInv
  <2>2. CASE UNCHANGED vars
    BY <2>2 DEF vars, queueVars, workerVars, historyVars, SoleInv, UndeployedIsDown, Alone,
                BatchIsCurrent, UnseenIsNew, PlainListingOnce
  <2> QED BY <2>1, <2>2
<1> QED BY <1>1, <1>2, TypeCorrect, PTL DEF Spec

\* With one process no write of recovery, reclaim or gate is ever late, so that
\* the exception of ClaimsAreExclusive is empty.
THEOREM SoleWorkerNeverContests == Spec => [](Alone => contested = {})
  BY SoleInvariant, PTL DEF SoleInv

\* With one process a repeated search never saves again what save_ics_sightings
\* can recognise: a listing whose part number carries nothing that is stripped.
THEOREM PlainListingsOnce == Spec => []PlainListingOnce
  BY SoleInvariant, PTL DEF SoleInv

\* With one process recovery, reclaim and gate rewrite only rows that nobody
\* works on and that still say what they were loaded for.
THEOREM SoleWorkerRewritesAbandoned == Spec => RewritesOnlyAbandoned
<1>1. TypeOK /\ SoleInv /\ [Next]_vars =>
        [Alone => \A w \in Workers : \A r \in batch[w] : status'[r] # status[r] =>
           ~Held(r) /\ status[r] = IF pc[w] = "verdict" THEN "pending" ELSE "searching"]_vars
  <2> SUFFICES ASSUME TypeOK, SoleInv, Alone, NEW w \in Workers, NEW r \in batch[w]
               PROVE  ~Held(r) /\ status[r] = IF pc[w] = "verdict" THEN "pending" ELSE "searching"
    OBVIOUS
  <2>1. pc[w] \in Rewriting /\ w \in deployed
    BY DEF SoleInv, BatchIsCurrent, UndeployedIsDown
  <2>2. \A v \in Workers : pc[v] \notin Holding
    BY <2>1 DEF SoleInv, UndeployedIsDown, Alone, Holding, Rewriting
  <2>3. ~Held(r)
    BY <2>2, NoRowAssumption DEF Held, TypeOK
  <2> QED BY <2>3 DEF SoleInv, BatchIsCurrent
<1> QED BY <1>1, TypeCorrect, SoleInvariant, PTL DEF Spec, RewritesOnlyAbandoned

-----------------------------------------------------------------------------
(* Why waiting for a row ends. *)

\* No row is locked twice: FOR UPDATE SKIP LOCKED passes over what another
\* worker has locked.
LocksExclusive ==
  \A v, w \in Workers : pc[v] = "locked" /\ pc[w] = "locked" /\ item[v] = item[w] => v = w

\* Only the select of a row takes its lock.
LEMMA LocksStep ==
  ASSUME TypeOK, LocksExclusive, Next
  PROVE  LocksExclusive'
<1> USE NoRowAssumption DEF TypeOK, Holding, Rewriting
<1>1. ASSUME AppStep PROVE LocksExclusive'
  BY <1>1 DEF AppStep, Insert, SearchAges, CloneFrom, SearchWithoutSource, MergeFresh,
              DeleteSightings, workerVars, LocksExclusive
<1>2. ASSUME NEW w \in Workers, NEW v \in Workers, LoopStep(w) \/ WorkerFault(w),
             pc'[v] = "locked"
      PROVE  \/ item'[v] = item[v] /\ pc[v] = "locked"
             \/ v = w /\ item'[v] \in Claimable(w)
  <2>1. CASE WorkerFault(w)
    BY <1>2, <2>1 DEF WorkerFault, SessionExpired, MarkFails, GateError, GateCooldown, Crash, Release
  <2>2. CASE StartWorker(w) \/ LoadPending(w) \/ LoadStuck(w)
    BY <1>2, <2>2 DEF StartWorker, LoadPending, LoadStuck, Load
  <2>3. CASE RecoverStale(w) \/ ReclaimStuck(w) \/ ProcessGate(w)
    BY <1>2, <2>3 DEF RecoverStale, ReclaimStuck, ProcessGate, Rewrite
  <2>4. CASE SelectNext(w)
    BY <1>2, <2>4 DEF SelectNext, Claimable
  <2>5. CASE Claim(w) \/ SearchPart(w) \/ SaveSightings(w)
    BY <1>2, <2>5 DEF Claim, SearchPart, SaveSightings
  <2>6. CASE MarkCompleted(w) \/ ReportStatus(w) \/ MarkFailed(w)
    BY <1>2, <2>6 DEF MarkCompleted, ReportStatus, MarkFailed, Release
  <2> QED BY <1>2, <2>1, <2>2, <2>3, <2>4, <2>5, <2>6 DEF LoopStep
<1>3. ASSUME NEW w \in Workers, LoopStep(w) \/ WorkerFault(w) PROVE LocksExclusive'
  <2>1. \A v \in Workers \ {w} : pc'[v] = "locked" => item'[v] = item[v] /\ pc[v] = "locked"
    BY <1>2, <1>3
  <2>2. \A v \in Workers \ {w} : pc[v] = "locked" => item[v] \notin Claimable(w)
    BY DEF Claimable, LockedByOther
  <2> QED BY <1>2, <1>3, <2>1, <2>2 DEF LocksExclusive
<1> QED BY <1>1, <1>3 DEF Next

\* Whoever has locked a row waits for nobody, and a row is waited for only
\* while its worker has it locked: every wait of a claim, a verdict, a mark or
\* a reclaim ends with one claim, and waits never form a circle.
THEOREM RowLocksNeverDeadlock ==
  Spec => [](\A w \in Workers : pc[w] = "locked" => ~LockedByOther(w, item[w]))
<1>1. Init => LocksExclusive
  BY DEF Init, LocksExclusive
<1>2. TypeOK /\ LocksExclusive /\ [Next]_vars => LocksExclusive'
  <2>1. LocksExclusive /\ UNCHANGED vars => LocksExclusive'
    BY DEF LocksExclusive, vars, workerVars
  <2> QED BY <2>1, LocksStep
<1>3. LocksExclusive => \A w \in Workers : pc[w] = "locked" => ~LockedByOther(w, item[w])
  BY DEF LocksExclusive, LockedByOther
<1> QED BY <1>1, <1>2, <1>3, TypeCorrect, PTL DEF Spec
=============================================================================
