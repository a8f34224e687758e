---------------------------- MODULE SearchQueue ----------------------------
(***************************************************************************)
(* The search queue of one broker marketplace (ICsource, NetComponents or  *)
(* TBF): QueueManager, the AI gate, and the worker processes that claim,   *)
(* search, save and complete.  The application enqueues (requirement, part *)
(* number) rows; a worker is a process of its own with its own sessions,   *)
(* so everything it read before a commit may be stale when it writes.      *)
(* A listing is what the writer deduplicates by: vendor, part number as    *)
(* the vendor wrote it, and quantity.  Nothing is assumed of Strip, not    *)
(* even that stripping twice is stripping once.                            *)
(***************************************************************************)
EXTENDS Naturals, FiniteSets

CONSTANTS Requirements, Mpns, Workers,
          Listings,   \* what a search may find
          Nameless,   \* listings without a vendor's name
          Strip,      \* the listing with its part number's packaging suffix stripped
          ListingsOf, \* per part number, the listings whose canonical key is the part's
          NoRow,      \* a worker that holds no queue row
          MaxFaults,  \* bound on crashes, expired sessions, failed marks, stalls, cooldowns
          MaxCopies   \* bound on what cloning may pile up on one requirement

Rows == Requirements \X Mpns    \* uq_ics_queue_requirement_mpn: one row each

ASSUME NoRowAssumption == NoRow \notin Rows
ASSUME BoundsAssumption == MaxFaults \in Nat /\ MaxCopies \in Nat
ASSUME ListingsAssumption ==
  /\ Nameless \subseteq Listings
  /\ Strip \in [Listings -> Listings]
  /\ ListingsOf \in [Mpns -> SUBSET Listings]

VARIABLES status,     \* [Rows -> "none" (no row yet) or SearchQueueStatus]
          aged,       \* rows whose updated_at is past the stuck timeout
          results,    \* what results_count counts: the listings the last completion parsed
          sightings,  \* per requirement, how often it has a listing as a Sighting
          pc, item, batch, found, seen,   \* of a worker: where it is, the row it
                      \* claimed, rows loaded to be rewritten, the listings the page
                      \* showed, and the dedup keys it read from the table
          \* history, read by no action:
          ever,       \* per requirement, the listings that were ever saved or cloned
          cloned,     \* per requirement, the listings that were ever cloned to it
          contested,  \* rows hit by a write from an outdated read
          deployed,   \* the worker processes of this deployment; it does not change
          faults

queueVars == <<status, aged, results, sightings>>
workerVars == <<pc, item, batch, found, seen>>
historyVars == <<ever, cloned, contested>>
vars == <<queueVars, workerVars, historyVars, deployed, faults>>

Active == {"pending", "queued", "searching"}
Settled == {"completed", "gated_out", "failed"}
Holding == {"locked", "search", "results", "saved", "report"}
Rewriting == {"recover", "verdict", "requeue"}

TypeOK ==
  /\ status \in [Rows -> {"none"} \cup Active \cup Settled]
  /\ aged \subseteq Rows
  /\ results \in [Rows -> SUBSET Listings]
  /\ sightings \in [Requirements -> [Listings -> Nat]]
  /\ pc \in [Workers -> {"down", "loop", "claim"} \cup Rewriting \cup Holding]
  /\ item \in [Workers -> Rows \cup {NoRow}]
  /\ batch \in [Workers -> SUBSET Rows]
  /\ found \in [Workers -> SUBSET Listings] /\ seen \in [Workers -> SUBSET Listings]
  /\ ever \in [Requirements -> SUBSET Listings]
  /\ cloned \in [Requirements -> SUBSET Listings]
  /\ contested \subseteq Rows /\ deployed \subseteq Workers
  /\ faults \in 0..MaxFaults
  /\ \A w \in Workers : item[w] # NoRow <=> pc[w] \in Holding

Init ==
  /\ status = [r \in Rows |-> "none"]
  /\ aged = {}
  /\ results = [r \in Rows |-> {}]
  /\ sightings = [q \in Requirements |-> [x \in Listings |-> 0]]
  /\ pc = [w \in Workers |-> "down"] /\ item = [w \in Workers |-> NoRow]
  /\ batch = [w \in Workers |-> {}]
  /\ found = [w \in Workers |-> {}] /\ seen = [w \in Workers |-> {}]
  /\ ever = [q \in Requirements |-> {}] /\ cloned = [q \in Requirements |-> {}]
  /\ contested = {} /\ deployed \in SUBSET Workers /\ faults = 0

Fault == faults < MaxFaults /\ faults' = faults + 1
Held(r) == \E w \in Workers : item[w] = r
LockedByOther(w, r) == \E v \in Workers \ {w} : item[v] = r /\ pc[v] = "locked"

----------------------------------------------------------------------------
(* The application: search_requirement ends by enqueueing its part number. *)

Existing(r) == status[r] # "none"
\* completed rows of other requirements for the same part
Twins(r) == {s \in Rows : s[2] = r[2] /\ status[s] = "completed"}

\* The twins, if any, were searched longer ago than the dedup window.
Insert(r) ==
  /\ ~Existing(r)
  /\ status' = [status EXCEPT ![r] = "pending"]
  /\ UNCHANGED <<aged, results, sightings, workerVars, historyVars, faults, deployed>>

\* What a clone brings: the twin's sightings of the part, each as often as it is there.
Linked(s, x) == IF x \in ListingsOf[s[2]] THEN sightings[s[1]][x] ELSE 0

\* Answered by a search inside the window: its sightings are cloned, no row is
\* made, and nothing looks at what this requirement already has.
CloneFrom(r, s) ==
  /\ ~Existing(r) /\ s \in Twins(r)
  /\ \A x \in Listings : sightings[r[1]][x] + Linked(s, x) <= MaxCopies
  /\ sightings' = [sightings EXCEPT ![r[1]] = [x \in Listings |-> @[x] + Linked(s, x)]]
  /\ LET links == {x \in Listings : Linked(s, x) > 0}
     IN  /\ ever' = [ever EXCEPT ![r[1]] = @ \cup links]
         /\ cloned' = [cloned EXCEPT ![r[1]] = @ \cup links]
  /\ UNCHANGED <<status, aged, results, workerVars, contested, faults, deployed>>

Stored(q) == {x \in Listings : sightings[q][x] > 0}

DeleteSightings(q, gone) ==
  /\ sightings' = [sightings EXCEPT ![q] =
                     [x \in Listings |-> IF x \in gone THEN 0 ELSE @[x]]]
  /\ UNCHANGED <<status, aged, results, workerVars, historyVars, faults, deployed>>

\* A connector search none of whose sources succeeded: succeeded_sources is the
\* empty set, taken for "no source info", and every sighting of the requirement
\* is deleted.
SearchWithoutSource(q) == Stored(q) # {} /\ DeleteSightings(q, Stored(q))

\* A connector search that succeeded and found some vendor's part among its own
\* results: of that vendor and part number only the fresh sighting is kept.
MergeFresh(q) == \E gone \in SUBSET Stored(q) : gone # {} /\ DeleteSightings(q, gone)

\* A held row ages only if its worker stalls (a search is capped at 150 s).
SearchAges(r) ==
  /\ status[r] = "searching" /\ r \notin aged
  /\ aged' = aged \cup {r}
  /\ IF Held(r) THEN Fault ELSE UNCHANGED faults
  /\ UNCHANGED <<status, results, sightings, workerVars, historyVars, deployed>>

----------------------------------------------------------------------------
(* Writes of rows loaded earlier: recovery at start-up, reclaim before a   *)
(* claim, and the gate's verdicts.  None looks at the row again.           *)

Searching == {r \in Rows : status[r] = "searching"}
NeverStuck == {}   \* mutant of Stuck
Stuck == Searching \cap aged
PendingOrSkipped == {r \in Rows : status[r] \in {"pending", "gated_out"}}   \* mutant of Pending
Pending == {r \in Rows : status[r] = "pending"}

Load(w, rows, next) ==
  /\ batch' = [batch EXCEPT ![w] = rows]
  /\ pc' = [pc EXCEPT ![w] = next]
  /\ UNCHANGED <<queueVars, item, found, seen, ever, cloned, contested, faults, deployed>>

Rewrite(w, new, expected, next) ==
  /\ \A r \in batch[w] : ~LockedByOther(w, r)
  /\ status' = [r \in Rows |-> IF r \in batch[w] THEN new[r] ELSE status[r]]
  /\ aged' = aged \ batch[w]
  /\ contested' = contested \cup {r \in batch[w] : status[r] # expected \/ Held(r)}
  /\ batch' = [batch EXCEPT ![w] = {}] /\ pc' = [pc EXCEPT ![w] = next]
  /\ UNCHANGED <<results, sightings, item, found, seen, ever, cloned, faults, deployed>>

AllQueued == [r \in Rows |-> "queued"]

StartWorker(w) ==
  w \in deployed /\ pc[w] = "down" /\ Load(w, Searching, "recover")

RecoverStale(w) == pc[w] = "recover" /\ Rewrite(w, AllQueued, "searching", "loop")

\* The oldest thirty at most
LoadPending(w) ==
  /\ pc[w] = "loop"
  /\ \E rows \in SUBSET Pending : rows # {} /\ Load(w, rows, "verdict")

VerdictAsDecided(search) == IF search THEN "queued" ELSE "skip"   \* mutant of Verdict
Verdict(search) == IF search THEN "queued" ELSE "gated_out"

\* An answer that is missing, malformed or an error fails open to "queued".
ProcessGate(w) ==
  /\ pc[w] = "verdict"
  /\ \E go \in SUBSET batch[w] :
       Rewrite(w, [r \in Rows |-> Verdict(r \in go)], "pending", "claim")

\* The gate is done with, or had nothing to do.
Claiming(w) == pc[w] = "claim" \/ (pc[w] = "loop" /\ Pending = {})

LoadStuck(w) ==
  /\ Claiming(w) /\ Stuck # {} /\ Load(w, Stuck, "requeue")

ReclaimStuck(w) == pc[w] = "requeue" /\ Rewrite(w, AllQueued, "searching", "claim")

----------------------------------------------------------------------------
(* Claim, search, save, complete.                                          *)

ClaimableUnlocked(w) == {r \in Rows : status[r] = "queued"}   \* mutant of Claimable
\* SELECT ... FOR UPDATE SKIP LOCKED
Claimable(w) == {r \in Rows : status[r] = "queued" /\ ~LockedByOther(w, r)}

SelectNext(w) ==
  /\ Claiming(w) /\ Stuck = {}
  /\ \/ Claimable(w) = {} /\ pc' = [pc EXCEPT ![w] = "loop"] /\ UNCHANGED item
     \/ \E r \in Claimable(w) :
          item' = [item EXCEPT ![w] = r] /\ pc' = [pc EXCEPT ![w] = "locked"]
  /\ UNCHANGED <<queueVars, batch, found, seen, historyVars, faults, deployed>>

\* queue_item.status = new; commit -- by primary key, whatever the row says now
Mark(w, new) ==
  /\ ~LockedByOther(w, item[w])
  /\ status' = [status EXCEPT ![item[w]] = new]
  /\ aged' = aged \ {item[w]}

\* The next turn of the loop, or the next process, starts from nothing.
Release(w, next) ==
  /\ pc' = [pc EXCEPT ![w] = next] /\ item' = [item EXCEPT ![w] = NoRow]
  /\ found' = [found EXCEPT ![w] = {}] /\ seen' = [seen EXCEPT ![w] = {}]

Claim(w) ==
  /\ pc[w] = "locked" /\ Mark(w, "searching")
  /\ pc' = [pc EXCEPT ![w] = "search"]
  /\ UNCHANGED <<results, sightings, item, batch, found, seen, historyVars, faults, deployed>>

NoKeys(q) == {}   \* mutant of ExistingKeys
\* Of all sightings of the requirement, the part number as it is stored: raw
ExistingKeys(q) == Stored(q)

\* The search itself, and the first read of the writer
SearchPart(w) ==
  /\ pc[w] = "search"
  /\ \E hits \in SUBSET Listings : found' = [found EXCEPT ![w] = hits]
  /\ seen' = [seen EXCEPT ![w] = ExistingKeys(item[w][1])]
  /\ pc' = [pc EXCEPT ![w] = "results"]
  /\ UNCHANGED <<queueVars, item, batch, historyVars, faults, deployed>>

\* What the writer does not skip: it looks for the stripped key among the raw ones.
Wanted(w) ==
  {x \in found[w] \ Nameless : pc[w] = "results" /\ Strip[x] \notin seen[w]}

\* Some of it, one of each stripped key
Created(w) ==
  {new \in SUBSET Wanted(w) : \A x, y \in new : Strip[x] = Strip[y] => x = y}

AddSightings(q, new) ==
  /\ sightings' = [sightings EXCEPT ![q] =
                     [x \in Listings |-> IF x \in new THEN @[x] + 1 ELSE @[x]]]
  /\ ever' = [ever EXCEPT ![q] = @ \cup new]

SaveSightings(w) ==
  /\ pc[w] = "results"
  /\ \E new \in Created(w) :
       /\ \A x \in Wanted(w) : \E y \in new : Strip[y] = Strip[x]
       /\ AddSightings(item[w][1], new)
  /\ pc' = [pc EXCEPT ![w] = "saved"] /\ seen' = [seen EXCEPT ![w] = {}]
  /\ UNCHANGED <<status, aged, results, item, batch, found, cloned, contested, faults, deployed>>

ReadyOnceFound(w) == pc[w] \in {"results", "saved"}   \* mutant of ReadyToComplete
ReadyToComplete(w) == pc[w] = "saved"

MarkCompleted(w) ==
  /\ ReadyToComplete(w) /\ Mark(w, "completed")
  /\ results' = [results EXCEPT ![item[w]] = found[w]]
  /\ pc' = [pc EXCEPT ![w] = "report"] /\ found' = [found EXCEPT ![w] = {}]
  /\ UNCHANGED <<sightings, item, batch, seen, historyVars, faults, deployed>>

ReportStatus(w) ==
  /\ pc[w] = "report" /\ Release(w, "loop")
  /\ UNCHANGED <<queueVars, batch, historyVars, faults, deployed>>

\* Login lost, timeout, breaker or any exception: FAILED, which nothing retries.
\* What save_ics_sightings had added to the session goes out with the commit.
MarkFailed(w) ==
  /\ pc[w] \in Holding \ {"locked"} /\ Mark(w, "failed") /\ Release(w, "loop")
  /\ \E new \in Created(w) : AddSightings(item[w][1], new)
  /\ UNCHANGED <<results, batch, cloned, contested, faults, deployed>>

SessionExpired(w) ==
  /\ pc[w] = "search" /\ Fault /\ Mark(w, "queued") /\ Release(w, "loop")
  /\ UNCHANGED <<results, sightings, batch, historyVars, deployed>>

\* The exception handler's own mark_status fails and is swallowed: the row stays.
MarkFails(w) ==
  /\ pc[w] \in Holding \ {"locked"} /\ Fault /\ Release(w, "loop")
  /\ UNCHANGED <<queueVars, batch, historyVars, deployed>>

\* process_ai_gate raises: the loop goes on to the claim, the rows stay pending.
GateError(w) ==
  /\ pc[w] = "verdict" /\ Fault
  /\ pc' = [pc EXCEPT ![w] = "claim"] /\ batch' = [batch EXCEPT ![w] = {}]
  /\ UNCHANGED <<queueVars, item, found, seen, historyVars, deployed>>

\* The five minutes after a classifier failure, in which the gate returns at once
GateCooldown(w) ==
  /\ pc[w] = "loop" /\ Pending # {} /\ Fault
  /\ pc' = [pc EXCEPT ![w] = "claim"]
  /\ UNCHANGED <<queueVars, item, batch, found, seen, historyVars, deployed>>

Crash(w) ==
  /\ pc[w] # "down" /\ Fault /\ Release(w, "down")
  /\ batch' = [batch EXCEPT ![w] = {}]
  /\ UNCHANGED <<queueVars, historyVars, deployed>>

----------------------------------------------------------------------------
AppStep ==
  \/ \E r \in Rows : Insert(r) \/ SearchAges(r)
  \/ \E r, s \in Rows : CloneFrom(r, s)
  \/ \E q \in Requirements : SearchWithoutSource(q) \/ MergeFresh(q)

\* One turn of the worker's main loop
LoopStep(w) ==
  \/ StartWorker(w) \/ RecoverStale(w) \/ LoadPending(w) \/ ProcessGate(w)
  \/ LoadStuck(w) \/ ReclaimStuck(w) \/ SelectNext(w) \/ Claim(w)
  \/ SearchPart(w) \/ SaveSightings(w) \/ MarkCompleted(w) \/ ReportStatus(w)
  \/ MarkFailed(w)

WorkerFault(w) ==
  SessionExpired(w) \/ MarkFails(w) \/ GateError(w) \/ GateCooldown(w) \/ Crash(w)

Next == AppStep \/ \E w \in Workers : LoopStep(w) \/ WorkerFault(w)

Spec == Init /\ [][Next]_vars

\* The worker loops for ever, systemd restarts it, and time passes.
Fairness ==
  /\ \A w \in Workers : WF_vars(LoopStep(w))
  /\ \A r \in Rows : WF_vars(SearchAges(r))

----------------------------------------------------------------------------
\* What the row of a worker at this place of its loop should say
Shows(place) ==
  CASE place = "locked" -> "queued"
    [] place = "report" -> "completed"
    [] OTHER -> "searching"

\* Two workers are never on one row, and the row says what its holder does,
\* unless a stale write (recovery, reclaim or gate) took it from under a holder
\* (claim_next_queued_item: "concurrent workers never grab the same row").
ExclusiveClaim ==
  \A w \in Workers : item[w] # NoRow /\ item[w] \notin contested =>
    /\ status[item[w]] = Shows(pc[w])
    /\ \A v \in Workers \ {w} : item[v] # item[w]

\* The listing, another of the same stripped key, or that key itself was a sighting
Backed(q, x) == \E y \in ever[q] : y = Strip[x] \/ Strip[y] = Strip[x]

\* Whatever crashed, was repeated or was written by two at once: every listing
\* behind a completion's results_found was, with its vendor's name, in the table
\* before the completion: it was added or its key was there.  Nothing is said of
\* listings without a vendor (counted, not saved) or of what connector searches
\* deleted since.
CompletedMeansSaved ==
  \A r \in Rows : \A x \in results[r] \ Nameless : Backed(r[1], x)

\* One process per marketplace, as deployed; it may crash and come back.
Alone == \A v, w \in deployed : v = w

\* With one process, a search that is done again (crash after the save, reclaim,
\* expired session, second part number) saves no listing twice whose part number is
\* its own key: those of a clone and those with a packaging suffix do pile up.
PlainListingOnce ==
  Alone => \A q \in Requirements : \A x \in Listings \ cloned[q] :
             Strip[x] = x => sightings[q][x] <= 1

\* With one process, what recovery, reclaim and gate loaded is untouched until
\* they write: a row nobody works on, still searching or still without verdict
\* (recover_stale_searches: "stuck in 'searching' status (from a previous crash)").
\* So no restart, reclaim or gate run reopens a row that was settled.
RewritesOnlyAbandoned ==
  [][Alone => \A w \in Workers : \A r \in batch[w] : status'[r] # status[r] =>
       ~Held(r) /\ status[r] = IF pc[w] = "verdict" THEN "pending" ELSE "searching"]_vars

\* Every enqueued search ends completed, gated out or failed, whatever crashes,
\* failed marks and expired sessions (finitely many) hit on the way.
EverySearchSettles ==
  \A r \in Rows : status[r] \in Active ~> status[r] \in Settled

\* What a docstring says and the code does not keep (save_ics_sightings:
\* "Deduplicates by vendor_name + mpn + quantity combo to avoid duplicate
\* records"): with one process, no listing is saved twice to a requirement.
NoListingTwice ==
  Alone => \A q \in Requirements : \A x \in Listings \ cloned[q] : sightings[q][x] <= 1
=============================================================================
