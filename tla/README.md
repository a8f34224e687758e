# AVAIL — a TLA+ model of its deals: buy plans, approvals, resale and the search queue

AVAIL is a FastAPI application for brokers of electronic parts: requisitions are
sourced, offers are quoted to customers, a won quote becomes a *buy plan* whose
lines turn into purchase orders, vendors are paid in advance by wire, and an
*approval engine* puts a human decision in front of plans, payments and quality
plans. Customers' surplus stock is posted as *excess lists* on which brokers bid, and
three broker marketplaces without an API are searched by browser workers that share a
queue with the application. This directory models the parts where money and promises
move or where processes meet: the life of a buy plan with its prepayments, the approval
engine as its callers interleave, the outbox that tells people about decisions, the
award and reversal of bids on an excess list, and the search queue with its workers.
Paths below are relative to `src/app/`.

## 1. The system

| component | state it keeps | operations | talks to |
|---|---|---|---|
| buy-plan workflow (`services/buyplan_workflow/`, `routers/htmx/buy_plans.py`) | `BuyPlan.status`, `so_status`, `approved_at`, `is_stock_sale`; per `BuyPlanLine` its status, `po_number`, `po_confirmed_at`, `received_at` | submit, approve, reject, resubmit, reset, halt, resume, cancel, confirm / verify / reject a PO, flag / resolve an issue, re-source, claim, receive, add / edit / remove lines | opens and closes requests of the approval engine; sweeps prepayments |
| prepayments (`services/prepayment_service.py`, `routers/prepayments.py`, `prepayment_confirm.py`) | `Prepayment.status`, `pay_token`, `buy_plan_line_id`, and the `ApprovalRequest` of each | create, decide (page, JSON route), mark paid (button, e-mailed link), reverse a payment | guards read the plan and the line; plan handlers void its wires |
| jobs and startup (`jobs/inventory_jobs.py`, `startup.py`) | none of their own | complete stock sales each hour; sweep plans that should have completed | write the plan |
| approval engine (`services/approvals/`, `routers/approvals.py`) | `ApprovalRequest`, `ApprovalStep`, `ApprovalStepRecipient` ("slot") rows | create and route, decide, cancel, reassign | its callers run effects on the gated object; enqueues the outbox |
| approval outbox (`jobs/approval_outbox.py`, `services/approvals/notifications.py`, `utils/graph_client.py`) | `ApprovalOutbox` rows (`sent_at`, `fail_count`) | enqueue, drain each minute | writes notifications, calls the Graph mail API |
| search queue and workers (`services/search_worker_base/`, `ics_worker`, `nc_worker`, `tbf_worker`) | one row per requirement and part number with `status`, `updated_at`, `results_count`; the `Sighting` rows the workers write | enqueue with deduplication and cloning, AI gate, claim, search, save, complete, fail, recover stale, reclaim stuck | the application enqueues; workers are processes of their own, started by systemd; browsers of three sites |
| resell (`services/excess_service.py`, `excess_mirror.py`, `resell_outreach_service.py`, `jobs/resell_jobs.py`) | `ExcessList.status`, `close_at`; lines with status and best-bid rollup; `ExcessOffer.status` with its lines; mirrored `Sighting` rows | draft, publish, bid by form, upload or mail reply, assign, withdraw, award, unaward, close, expire each night | list row lock in the database; the mirror feeds the search board |
| prospects and ownership (`services/prospect_claim.py`, `ownership_service.py`) | claims, owners, caps | claim, release, reclaim | company rows |
| requisition states, quotes, CRM, search, AI, mail, materials, auth, UI | rows edited by one request at a time, or outside services | – | – |

`PROJECT.json` lists every component with its sources, its status and the reason
when it is left out.

### How it runs

* One process with one worker (`docker-compose.yml:92`). `async` routes are coroutines of
  one event loop and call the database *synchronously*: from one `await` to the next a
  handler is atomic with respect to other coroutines. Most handlers await only the form
  before they touch a row.
* Plain `def` routes run in a thread pool and do interleave with everything: the JSON
  decision, reassign and cancel routes (`routers/approvals.py:118-191`) and the JSON
  creation of prepayments (`routers/prepayments.py:80-125`).
* PostgreSQL at READ COMMITTED; sessions have `autoflush=False`; `lock_timeout` is 5 s and
  `statement_timeout` 30 s (`database.py:71-83`).
* The scheduler runs one instance of a job at a time and coalesces missed runs
  (`scheduler.py:41-47`).

### What is hard about it

1. **Long sequences of legal calls.** About twenty-five handlers write the same four
   tables. Every path out of a payable state (halt, cancel, complete, re-source, reset)
   must close the open request and void the wires that have not gone out; every path back
   (resume, resubmit, reversal of a payment) must not undo that.
2. **Two records of one fact.** The duplicate guard of prepayments reads *approval
   requests*, the money follows *prepayments*, and they are written by different
   transactions.
3. **Row locks with stale sessions.** `SELECT … FOR UPDATE` serialises deciders, but a row
   already in the session is not refreshed; reassign takes its locks in the opposite order
   to decide.
4. **Failures between side effect and commit.** The outbox sends mail inside a loop with
   one transaction per row, a retrying client that reports some failures as values, and a
   cap on failures.
5. **Undo.** Reversing an award must restore what the award changed on *other* bids, from
   columns that do not say what they were: a lost bid comes back open or late, or stays
   lost, and rollups, the list's status and the public mirror have to follow.
6. **Processes without a common lock.** A browser worker holds its claim for minutes with no
   lock; start-up recovery, the reclaim and the AI gate load rows in one statement and write
   them in another, after an `await` in the case of the gate, without looking again.

The full list, each at its line with the properties that would catch it, is under
`hazards` in `PROJECT.json`.

## 2. The modules

```
WireLedger         abstract: what the accountant who wires money may rely on
  BuyPlan          the plan, its lines, its requests and its prepayments
    BuyPlanProofs  theorems about BuyPlan
    MCBuyPlan      instances for TLC
ApprovalGate       abstract: what one approval request promises
  ApprovalEngine   the locking statements of decide, cancel, reassign
    ApprovalEngineProofs
    MCApprovalEngine
NoticeBoard        abstract: what the owner of a decided request is told, and how often
  ApprovalOutbox   the drain of the notification outbox
    ApprovalOutboxProofs
    MCApprovalOutbox
LotSale            abstract: lines sold in lots, taken back whole, until the list is dead
  ResellAward      an excess list with its bids, awards, rollups and mirror
    ResellAwardProofs
    MCResellAward
SearchQueue        the queue of one marketplace, its producers and its workers
  SearchQueueProofs
  MCSearchQueue
```

### BuyPlan

One plan with everything its life touches. Variables are the columns named in the table
above, `gate` (the status of each of the plan's own requests) and `wired`, a history
variable that remembers that a prepayment was once recorded as paid. One action is one
route handler or job run up to its commit, with every call it makes: `Halt` is `halt_plan`
*and* the closing of the open request *and* the teardown of prepayments; `ApprovePO` is
`verify_po` *and* the completion check behind it; `SaveLines` is the bulk editor that adds,
edits and removes any set of lines and then checks completion.

| actions | code |
|---|---|
| `Submit`, `ResubmitPlan`, `DecidePlan`, `DecidePlanLegacy`, `CancelPlanRequest` | `submit_buy_plan`, `resubmit_buy_plan`, the plan page's decision, `approve_buy_plan`, the JSON cancel route |
| `Halt`, `Resume`, `ResetToDraft`, `CancelPlan` | the handlers of those names in `buyplan_approval.py` |
| `StockAutocomplete`, `StartupSweep` | the hourly job, the sweep at startup |
| `ConfirmPO`, `ApprovePO`, `RejectPO`, `EditPONumber`, `FlagIssue`, `ResolveIssue`, `Resource`, `Claim`, `MarkReceived`, `AddLine`, `SaveLines` | `buyplan_po.py`, `buyplan_lines.py` |
| `CreatePrepayment`, `DecidePrepayment`, `SettlePrepayRequestOnly`, `MarkPaid`, `UnmarkPaid` | `create_prepayment`, the prepayment page's decision, the JSON decision (which leaves the prepayment behind) or a death between the two commits of the page, `mark_prepayment_paid`, the reversal |

Left out: who acts (every role guard is met by somebody), quantities, prices, offers,
vendors, wording. The `line_edits` that `submit_buy_plan` takes (vendor and note changes) are left
out too: its one route never passes them. `INBOUND` is in the status enumeration and never entered, so it is not
in the model. `verify_po_sent` only detects sent mail. `resubmit_buy_plan` has no route
today; it is modelled because it is part of the service. A prepayment whose line is deleted
loses its link (`ON DELETE SET NULL`): `Unlink`.

`WireLedger` is the same life seen by whoever sends the wires, without plans' statuses,
requests or purchase orders: a line has one wire on its way at most; nothing is asked for or
authorised once the plan is dead, and the plan dies together with every wire still to be sent;
what went out comes back only by a correction. `BuyPlan` implements it with the map `wire`:
authorised and paid are the prepayment's own status, while a prepayment still `requested` is
asked for as long as its request is open and off when the request was settled without it, by
the JSON route or by a death between two commits. `Correct` is the reversal of a payment and is
not guarded by `dead`, because the code's is not: `wire_unmarked_on_dead_plan` is about that.
A halted plan's lines may be edited, so `Drop` is not guarded by it either.

### ApprovalGate and ApprovalEngine

`ApprovalGate` is what one request promises to a caller who knows nothing of threads: it is
resolved once, by the holder of a pending slot or by a cancellation; slots change hands only
while it is open; two notices go out for its decision. `HandOver` admits what the unlocked
read of `reassign` allows: two hand-overs of one slot.

`ApprovalEngine` has the statements: `Begin`, `Preload` (a page loads the request before it
calls the service), `ReadSlot`, `FlushReassign` (slot rows written and locked), `LockRequest`
(`FOR UPDATE` and the guards behind it, evaluated on the *session's* copy), `WriteSlot`,
`Commit`, and `GiveUp` (`lock_timeout`, or the victim of a deadlock). `req` and `slot` are
the committed rows; writes appear at commit. `Threads` are callers with an empty session,
`Pages` callers with the request already loaded; pages do not reassign.

### ApprovalOutbox

A committed decision adds an in-app row and an email row. The job reads the pending rows,
takes them in id order, and commits each by itself: `WriteInApp` (notification and `sent_at`
together, or rollback and a failure record), `BeginMail`, `Try` (accepted, refused, gone,
busy, or broken after the mail may have left), `CommitSent`. `Crash` is the death of the
process, or a database that refuses even the failure record. `delivered` is a history
variable: what the recipient got. The retry loop of the mail client is the external
service's only appearance: its answers are a nondeterministic choice over the branches of
`_request_with_retry`.

`NoticeBoard` is what the owner of the request may rely on, without drains, retries and deaths:
the notice and the mail of a decision go up together, the notice is seen at the moment it is
ticked off, a mail may come again but only until it is ticked off, and an item is given up after
`Cap` failures. A mail can be ticked off without having come, which is the refusal of
`refused_mail_marked_sent`. `Box` maps a row to the board: absent, open or sent.

### LotSale and ResellAward

`LotSale` is the promise of the resale desk about one posted list: a lot of unsold lines goes
to one buyer, a sale is taken back whole, and when the list is dead (closed without a bid,
expired, deleted) nothing is sold or taken back. `ResellAward` is the code under it: a line is
sold to the won bid whose scope holds it.

| actions | code |
|---|---|
| `AddLines`, `DeleteLine`, `SetDeadline`, `DeleteList`, `PublishList` | the draft: `add_line` / `confirm_import`, `delete_line`, `update_excess_list`, `delete_excess_list`, `publish_list` |
| `SubmitTakeAll`, `SubmitPerLine`, `LinkReply`, `UploadBid` | `submit_offer` (both scopes), `_link_inbound_offer` of the outreach, `upload_bids`, one action per bidder of the sheet |
| `AssignOfferLine`, `WithdrawOffer`, `AwardOffer`, `UnawardOffer` | the functions of those names, with the competitors they close or reopen, the rollups they recompute and the sync of the mirror |
| `CloseList`, `CloseListWithoutBid`, `Expire`, `DeadlinePasses` | `_end_posting_window` with its two targets, the nightly sweep, the clock |

A call is one action: the routes do not await between their reads and their writes, the
application is one process, and every writer of a posted list takes the row lock of the list
with `populate_existing`. `closeAt` is abstracted to none, future or past, and `after` is the
set of bids whose `created_at` is later than `close_at`; closing sets `close_at` to now, which
empties it. `counted` is the set behind `offer_count`, `mirrored` the lines with a live mirror
row. Left out: quantities, prices (which of the counted bids is best), buyer scores, queued
rows that match no line, and the editing of a line's fields; the line statuses `bidding` and
`withdrawn` have no writer. The mirror is taken for lines whose part number resolves. A list whose
expiry raises is rolled back and retried the next night, which is a step that changes nothing.

### SearchQueue

One marketplace. `status` of a row is `SearchQueueStatus` or "none"; `sightings` counts how often
a requirement has each listing; a worker is at a place (`pc`) of its loop with the
`item` it holds, the `batch` of rows it loaded to rewrite, the listings the page showed (`found`)
and the dedup keys its writer read (`seen`).

A *listing* is what the writer deduplicates by: vendor, part number, quantity. The writer takes the
existing keys from the part numbers as they are stored, raw (`ExistingKeys`,
`sighting_writer.py:42-51`, `:75`), and looks among them for the part number without packaging
suffix (`Strip`, `:60-65`), so that a listing with a suffix does not recognise itself. `Strip` is a constant
function of which nothing is assumed. Within one run of the writer the keys it adds are stripped ones,
hence one listing of each key is created (`Created`). Listings of `Nameless` have no vendor: the writer
skips them, and `mark_completed` counts them, because `results_found` is the number of
listings parsed.

| actions | code |
|---|---|
| `Insert`, `CloneFrom` | `enqueue_search`: a new row, or the sightings of another requirement's recent search copied (those whose canonical key is the part's, `ListingsOf`) and no row made |
| `StartWorker` / `RecoverStale`, `LoadPending` / `ProcessGate`, `LoadStuck` / `ReclaimStuck` | the read and the write of `recover_stale_searches`, `process_ai_gate` (thirty rows at most: any subset), `reclaim_stuck_searches` |
| `SelectNext` / `Claim` | `SELECT … FOR UPDATE SKIP LOCKED`, and the commit that marks the row |
| `SearchPart`, `SaveSightings`, `MarkCompleted`, `ReportStatus` | the body of the loop (`ics_worker/worker.py:258-332`) with the commits in it |
| `MarkFailed`, `SessionExpired`, `MarkFails`, `GateError`, `GateCooldown`, `Crash` | every other way out of the loop's body, an exception in the handler of exceptions, a failing gate, the five minutes in which the gate returns at once, the death of the process |
| `SearchAges` | thirty minutes pass |
| `SearchWithoutSource`, `MergeFresh` | what a connector search deletes of the workers' sightings: all of them when no source succeeded, those of a vendor and part it found itself when one did (`search_service.py:2354-2372`; which ones is any choice) |

The login, timeout, breaker and exception paths all end in the same mark and are one action;
when the exception comes out of the save, the sightings added to the session go out with the
mark's commit (`MarkFailed` from `results`); when it comes out of the rebuild of the vendor summaries,
behind the save's commit, it is `MarkFailed` from `saved`. `update_worker_status` can raise after the
completion has committed, and the handler then marks the completed row failed, from `report`.
An enqueue is atomic: the unique constraint settles the race of two inserts, and a stale answer of
the cross-requirement check only makes one more row, which `Insert` allows because the
deduplication window may have lapsed. A requirement without a material card changes nothing
when it is deduplicated. Gate and reclaim runs that find no row are part of the next step.
`deployed` is the set of worker processes that run at all, chosen at the start; each marketplace
has one service unit, which is the case `Alone` of the properties. Three variables are history and read by no
action: `ever`, the listings a requirement ever had; `cloned`, those among them that came by a clone;
`contested`, the rows that a write from an outdated read hit while somebody else had changed or
held them. The NetComponents and TBF workers have the same loop, queue classes and writer. Left
out: the pacing of searches, the daily cap (a counter in memory), the breaker's counters,
priorities, and the deletion of requirements (a cascade removes the rows, and the writer returns 0 for a requirement that is gone).

## 3. Model checking

| run | instance | shows | size |
|---|---|---|---|
| `buy_plan` | 2 lines, 2 requests, 2 prepayments, one pair at a time | type, one open request, no unsent wire on a dead plan, token follows authorisation, no undecided PO on an ended plan, completed deals are closed, awaiting lines are clean, never two authorised or paid prepayments on a line; no paid wire voided, the last line ends the plan, wires voided only for cause; implements `WireLedger` | 1,817,678 states |
| `approval_engine` | 2 users, 2 threads, 1 page | type, notices match decisions, slots open only on open requests, deciders hold their slot; every call ends | 88,752 |
| `approval_engine_refines_gate` | 3 users, 2 threads | the statements implement `ApprovalGate` | 5,628 |
| `resell_award` | 2 lines, 3 bids, 1 bidder that uploads | type, one winner a line, lost bids cannot win, rollups, mirror, no expiry of a sale, late and withdrawn stay so, overdue lists are resolved; implements `LotSale` | 312,438 |
| `search_queue` | 2 requirements of 1 part, 1 or 2 workers, 3 listings (plain, with suffix, nameless), 1 fault, 2 copies | type, exclusive claims, completions backed by saved listings; one worker saves a plain listing once and rewrites abandoned rows only; every row settles | 359,021 |
| `approval_outbox` | 2 decisions (4 rows), cap 2, 2 tries per mail, 2 crashes | type, in-app notices exactly once, mails bounded, settled rows stay settled; implements `NoticeBoard`; every row settles | 85,425 |

**Why these bounds are enough.** A handler of `BuyPlan` reads at most its own line and "all
the other lines"; with two lines each quantifier over lines has a true and a false instance,
so a sibling can block completion, survive a re-sourcing or be removed. Two requests are
needed to submit again after a rejection, reset or halt; when no request id is left the
model can still submit without a request, which is the code's behaviour when nobody may
approve. Two prepayments are needed for a duplicate. `OnePairAtATime` keeps the product of
the two questions out: either one prepayment is used, with two lines and two requests, or two
are, with one line and one request (a stock sale, which is signed off like any other plan, also has one line when
it has two requests); the theorems of section 4 remove the bounds altogether. In `ApprovalEngine` a lock cycle needs two callers and two users; three
users let a slot be handed over twice. In the outbox, two crashes allow a crash during the
recovery from a crash, and a cap of two separates "failed once" from "retired". An excess list needs two lines for a
partial award and three bids for a winner, a competitor on its line and one that spans both;
one bidder uploads again and again, while the bids of others are those without a bidder. The queue needs two workers for
a contested row, two requirements of one part for a clone, and one fault: each kind of fault can
happen anywhere, and the theorems hold for any number of them. A second listing that strips to the first is
what separates a raw key from a stripped one, a third has no vendor. `TwoSeeLess` gives all of that to
one process, and to two the plain listing, without clones and deletions: two are there for the rows they
take from one another. `MaxOffers`, `MaxFaults` and
`MaxCopies` are bounds of the model. `Decisions`
and `MaxCrashes` are bounds of the model; `MaxFail` and `MaxAttempts` are smaller values of
the code's constants.

**Symmetry** is used for safety on ids that are only compared for equality, never in a run
with a liveness property.

**Deadlock** is not checked for `BuyPlan`, where a cancelled plan with its wires paid has nothing
left to do, nor for `ResellAward`, where a deleted list has nothing left to do and a closed or expired
one only replies to receive, as many as there are bids. In the other modules it is checked.

**Fairness.** `FairEngineSpec`: weak fairness of each caller's next step, because a
coroutine or thread that was started is scheduled again and the database grants a free lock;
a blocked caller is always able to take `GiveUp`, since the session sets `lock_timeout`.
Nobody is obliged to *begin* a call. `FairSpec` of the outbox: weak fairness of `Drain`,
because the interval job fires every minute and a run that started goes on; decisions and
crashes are not fair, and crashes are finitely many. `FairSpec` of `ResellAward`: weak fairness
of the nightly sweep alone, a cron job of the scheduler; no owner is obliged to award or close.
`Fairness` of `SearchQueue` (part of `MCSpec`): weak fairness of each worker's loop, which is `while True` in a
service with `Restart=always`, and of the passing of time that makes an abandoned row old; faults are finitely
many (systemd gives up after five restarts in an hour), and nobody is obliged to enqueue.

Every property is paired in `PROJECT.json` with a plausible mistake in a modelled operator
(an operator marked as a mutant in the module, not used by the specification) under which TLC
finds it violated.

## 4. Proofs

Five modules prove every safety property that a passing run checks for every number of lines, requests,
prepayments, rows, tries, crashes, users, callers, bids, bidders, requirements, parts,
workers and faults. The assumptions are those the modules state: `NoLineAssumption`,
`NoRowAssumption`, `CallersAssumption` and `ResellAssumption` say that a sentinel is not a
member of the set it completes and that a caller is a thread or a page, not both;
`ListingsAssumption` that stripping a listing is a function and yields a listing;
`OutboxAssumption` and `BoundsAssumption` that counts are naturals, the cap and the number of
tries positive. No set is assumed to be finite.

**BuyPlanProofs**

* **Type correctness** by one step per action, with lemmas for the shared helpers (`SetAll`,
  the closed gate, the sweep, the completion).
* **`OneOpenGate`** is inductive as it stands: whatever leaves `pending` closes the gate, and a
  request is opened only by the two submissions, which first close what was open.
* **Wires: `WireInv`**. `NoDoublePayment` alone is not inductive, because creation looks at
  requests and not at prepayments. The strengthening says that a line has at most one request
  that is open or approved on it (`OneBlockingRequest`), that an authorised or paid
  prepayment has an approved request and a token exactly while authorised, that no unsent
  wire is on a dead plan, and that what is paid was wired. From it follow
  `NoDoublePaymentAlways`, `TokenFollowsAuthorisationAlways` and `NoUnsentWireAlways`.
* **Deals: `DealInv`**. A completed deal is closed only because a signed-off plan is active,
  completed or cancelled and nothing adds or reopens a line of a completed plan; the claim
  pool is why lines have to be followed too. From it follow `CompletedDealIsClosedAlways`,
  `NoUndecidedPOAlways`, `AwaitingLineIsCleanAlways`.
* **Action properties**: `LastLineAlwaysEndsPlan`, `PaidNeverVoided`, `VoidedOnlyForCause`,
  from type correctness, one step per action.
* **Refinement of `WireLedger`**. To the accountant the many kinds of step are six: `WireMoves`
  sorts every action once into the form `WireMove` (nothing he sees; the plan comes back to life; lines
  are deleted; the plan dies and every wire is swept; the wires of re-sourced lines are swept; a
  step of one prepayment), and the refinement, as well as the theorems below, splits on that form only.
  It needs `WireInv` (a creation is allowed because no request *blocks*, the ledger asks that no
  wire is *live*) and `Unraised`: a prepayment not yet raised has no line. From
  `WiresImplementLedger` the ledger's own invariant is carried back to the plan:
  `OneLiveWirePerLine` adds to `NoDoublePayment` the wires that are still to be decided.
* **Where the documented properties break**. TLC refutes three properties of the plan
  (section 5); the theorems say that nothing else than what the counterexample shows breaks them.
  `OnlyReversalRearms`: from a state in which no dead plan has an authorised wire, only
  `UnmarkPaid` leads to one in which it has. `OnlyHaltSkipsApproval`: an active, halted or
  completed plan carries the manager's decision (`FlightApproved`) until a *pending* plan is halted. `VoidedWireBlocksItsLine`: a void prepayment with an approved request never changes
  again, and no prepayment is created on its line until the line is deleted, so that the refusal is
  for good and not for a while.

**ApprovalOutboxProofs.** "Exactly once" needs to know that the rows still in the batch are
pending, and that a running mail call belongs to an email row; both are `BatchInv`, and with
them `OutboxInv` is inductive. `SettledAlwaysStaysSettled` follows.
`MailsBounded` counts across calls, failures and deaths, and is not inductive: `MailInv` bounds
the mails of a row (`Within`) by `MaxAttempts` for each failure on record and each death, and what the
round under way has used so far (`ThisRound`); `WithinTheQuota` shows that the round that ends well
takes the place of the last failure the cap allows. The products are handled by lemmas about
`Quota` of their own. For `OutboxImplementsBoard`, `TableInv` says that rows come in pairs and that
what is in the batch or sent has been enqueued; a `Crash` and the start or end of a drain are
stutters, and a try that broke after its mail had left is a `Strike` that also delivers.

**ApprovalEngineProofs.** `NoticePerDecision` is not inductive: a commit must know that the slot it
decides had not decided before. `EngineInv` says that past the lock a caller holds it and that what
it checked there still holds, for pages the request excepted (`LockInv`); that an open
request has no decided slot and that the decided slots are finitely many, whatever `Users` is
(`DecidedInv`); that a reassign which has flushed holds both its slots (`FlushedInv`); and
that a slot a reassign read pending is, while the request is open, still pending or handed
on (`ReadInv`).
`EngineKeepsGate` proves the refinement of `ApprovalGate` under `Pages = {}`, the case in which it is
true: section 5 has the counterexample with a page. `OnlyPagesOverwrite` says that with pages, too, a
resolution is overwritten by the commit of a page and by nobody else, so that `ThreadsResolveOnce`,
the refuted `ResolvedOnce` for threads alone, follows.
`SlotWaitIsDeadlock` is about the opposite lock orders: a locked slot belongs to a call that is about to
commit or to a `reassign` that has flushed (`HolderInv`), and a decider and a committer hold the request; hence whenever a decision
waits for a slot, the holder is a reassign waiting for that decision's request. The wait never
ends by itself, and the 5 s of `lock_timeout` or the database's detector end every one of them.
`CallsOnlyAdvance` is the safety half of `EveryCallEnds`: the steps left (`ToGo`) of a running call only fall,
by its own steps.

**ResellAwardProofs.** `ResellInv` joins the type, two facts about drafts and rows (`DraftInv`,
`MatchedInv`) and the safety invariants themselves, which need one another: that a reversal
frees just the winner's lines is `OneWinnerPerLine`, that a lost bid blocked by it is found is
`LostIsUnwinnable`, and that `late` is told from `close_at` is `AfterInv`. For the refinement,
the buyer of a line is CHOOSEn among the won bids; `BuyerIsWinner` shows that the choice is
forced, and an award is then a `Sell` of the bid's scope, a reversal a `Release`, and every
other step leaves the buyers alone.
`ReversalRevivesWhatAwardClosed` relates two functions written apart: `Losers`, which `award_offer` uses, and
`Revivable`, which `unaward_offer` uses in the state after. They agree on the bids that could win before
the award. Plain equality is false, as TLC shows: a bid can come for lines that are all sold
already; the next award closes it, and the reversal of that award does not bring it back.
`ReversedBidIsAwardable` says that a reversal leaves nothing in the way of the same award: it needs
`OneWinnerPerLine`, by which a won bid has a line to win.

**SearchQueueProofs.** Two inductive invariants. `QueueInv`, for any number of processes, says that what is
in the table or was read from it was at some time saved or cloned (`StoredIsKnown`, `SeenIsKnown`), and that a
worker past its save has each listing it found behind it, itself or by its key (`FoundIsBacked`); with
it `CompletedMeansSaved` is inductive, and so `CompletionIsBacked` holds whatever `Strip` does. `SoleInv`
is about the one process of a deployment: what it loaded is still what it
loaded (`BatchIsCurrent`), no write has been late, and a plain listing whose key it did not see is not in
the table (`UnseenIsNew`), which is where `Strip[x] = x` is needed. From it follow `SoleWorkerNeverContests`,
`SoleWorkerRewritesAbandoned` and `PlainListingsOnce`; that the last needs its restriction to plain
listings is the counterexample of `listing_saved_twice`. `OnlyOutdatedWritesReopen` says, for any number of processes, that
the code reopens a settled row in one way only. `RowLocksNeverDeadlock` holds for any
number of workers: no two of them have one row locked (`LocksExclusive`), and whoever has a row
locked waits for no lock, so that waits for rows form no circle.

Only model-checked: the liveness properties `EveryCallEnds`, `EveryRowSettles`,
`OverdueIsResolved` and `EverySearchSettles`, since liveness under fairness is outside what the
proof system does. `CallsOnlyAdvance` and `RowLocksNeverDeadlock` prove what can be said of two of them
without fairness. Of the six properties of section 5, which TLC refutes, five have a theorem that says
which step breaks them or what holds in their place (`OnlyReversalRearms`, `OnlyHaltSkipsApproval`,
`VoidedWireBlocksItsLine`, `OnlyPagesOverwrite` with `ThreadsResolveOnce`, `PlainListingsOnce`). The sixth, `SendErrorIsNotSent`, breaks
in one branch of one statement, and there is nothing to prove about it.

## 5. Where the code and what it says part

Six runs are expected to be violated. Each states what a comment or docstring says.

| run | the code | the text |
|---|---|---|
| `wire_unmarked_on_dead_plan` | reversing a payment (`routers/prepayments.py:418`) re-arms the wire whatever became of its plan | "so no dangling wire authorisation survives the plan" (`buyplan_approval.py:266-267`) |
| `active_without_approval` | halt accepts a pending plan, resume makes every halted plan active (`buyplan_approval.py:879`); nobody approved it, and with `so_status` rejected it can never complete | "Every plan routes to the single manager approval" (`:58`) |
| `voided_wire_blocks_line` | the sweep voids the prepayment and leaves its request approved, which the duplicate guard counts (`prepayment_service.py:177`) | "letting a fresh request be raised" (`prepayment_service.py:46-49`) |
| `page_overwrites_resolution` | the page loads the request, waits for its lock and is handed the stale copy (`routers/htmx/buy_plans.py:375`, `:685`) | "A second (concurrent or replayed) decision finds a terminal status and is rejected here" (`approvals/service.py:171-172`); `excess_service.py:585` has the `populate_existing()` that avoids it |
| `refused_mail_marked_sent` | the mail client returns `{"error": …}` for 4xx and exhausted retries, nobody looks, the row is marked sent (`notifications.py:51`) | "On any failure (send error …) … WITHOUT marking sent" (`jobs/approval_outbox.py:8-9`) |
| `listing_saved_twice` | one process: the writer compares the stripped part number with the raw ones it stored (`ics_worker/sighting_writer.py:44-51`, `:61-65`, `:75`; the other two workers alike), so that a repeated search saves `LM317-TR` again | "Deduplicates by vendor_name + mpn + quantity combo to avoid duplicate records" (`:31`) |

Observations that a text contradicts, but that no run states, since the text is a remark about
another case, or speaks of a deployment or a feature that is not there:

* A connector search in which no source succeeds deletes every sighting of the requirement,
  the workers' included: an empty set of succeeded sources is taken for "no source info"
  (`search_service.py:2184-2186`), although the comment above it says "Sightings from
  failed/timed-out connectors are preserved" (`:2160-2161`). The completed queue row is never searched
  again. It is the action `SearchWithoutSource`; `CompletedMeansSaved` speaks of what was saved before the
  completion and not of what is left of it.
* `excess_service.py:1474-1476` says that a bid "that was `late` when the award closed it revives
  `late`". Closing stamps `close_at` over a deadline that has passed, so that such a bid comes back
  `open`; and without any deadline an on-time competitor comes back `late` when the list was awarded and
  another line is still sold. `LateStaysLate` is about the deadline on record.
* `recover_stale_searches` is for rows left "from a previous crash" (`queue_manager.py:253`). With two
  processes on one queue the start of one takes the row a running sibling holds (`:258`), after which both search
  it and may save one listing each; a gate run that overlaps a sibling's can put a completed row back to queued. The docstring of
  `claim_next_queued_item` ("multiple concurrent workers never grab the same row") is about the
  claim alone, and one worker per marketplace is deployed: hence `Alone` in `PlainListingOnce`, `RewritesOnlyAbandoned` and `NoListingTwice`.
* The READMEs of the workers document a force-search that puts a row back in the queue, a gated-out
  one included (`ics_worker/README.md:73-74`, `nc_worker/README.md:89`, `:98-99`). No router
  implements it, so that the model has no such action, and a settled row is reopened by an outdated write
  or not at all (`OnlyOutdatedWritesReopen`).
* A failed row is final after one attempt; `constants.py:742-743` speaks of giving up "after
  retries". A completed row turns failed when the worker's status cannot be written after it.

Observations met on the way that no text of the repository contradicts:

* The JSON decision settles a prepayment's request and leaves `Prepayment.status` requested;
  nothing reconciles them. A death between the two transactions of the page does the same.
* A plan is stranded active when it was halted while pending and resumed, or when it is
  approved again with every line cancelled: no handler left runs the completion check.
* A line in the claim pool survives the cancellation of its plan, and claiming it makes an
  awaiting line on a cancelled plan. The stock-sale job completes a plan with a line in the
  pool (`inventory_jobs.py:106` against `buyplan_lines.py:177-178`).
* `received_at` survives re-sourcing. `verify_po` does not look at the plan's status.
  Rejecting a PO or flagging an issue leaves a live wire although the vendor may change.
* Two concurrent hand-overs of one slot open two slots.
* A mail is repeated when the process dies between sending and commit; a recipient without
  a mail token is marked sent (documented as a skip).
* `enqueue_search` looks for a row of its own pair, but a deduplicated enqueue makes none: each
  later enqueue of the same requirement clones the same sightings again.
* A successful connector search deletes the workers' sightings of a vendor and part it found itself
  ("keep fresh", `search_service.py:2354-2372`).
* `results_count` of a completed row counts listings without a vendor's name, which are not saved.
* `close_list_without_bid` accepts a list that is sold in part and leaves a won bid on a
  `closed` list, whose sale can no longer be reversed.
* A bid can be submitted on lines that are all sold; the next award on the list marks it lost, and the
  reversal of that award leaves it so (`excess_service.py:1465`), although it was not that award
  that took its lines.
* An upload that was lost when the same bidder uploaded again is revived by a reversal, and the
  bidder then has two live uploads.
* The transition table of `status_machine.py` has no edge for halting a pending plan, for
  resuming or for reopening, which the handlers do.

## 6. What is not modelled, and the plan

Left out for good: pure reads and rendering, outside services (search connectors, language
models, browsers), numeric scoring, parsing, migrations, and row editing without concurrent
life. The scheduler and the database are the assumptions of section 1.

Left out of what is modelled: the pieces named at the end of each part of section 2. The
await windows of `BuyPlan` (below) are the most important of them.

In order of importance:

1. **BuyPlanRace** – the handlers that await between read and write (`confirm-po` at
   `buy_plans.py:822-824`, `cancel` at `:1235-1239`), the threaded creation of a prepayment
   against halt and cancel, two claims of one pooled line. An INSTANCE of `BuyPlan`'s
   helpers with split steps; abstract specification: `BuyPlan` with atomic handlers.
2. **Outreach and bid-backs** – the campaigns of `resell_outreach_service.py` (rows in `sending`
   swept after a crash, a reply logged by hand while the mail job links it) around `ResellAward`.
3. **Prospect claims** – `prospect_claim.py:148` locks prospect and company in turn; claims,
   releases and caps against the nightly reclamation.
4. **Requisition states and proactive offers**, whose statuses several jobs derive from the
   same rows.
5. **Enrichment credits** – the guard that several workers spend from.
6. **Operators** – kanban lanes and the status machine's tables as functions of `BuyPlan`'s
   state, compared with the transitions the handlers take.
