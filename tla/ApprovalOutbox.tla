---------------------------- MODULE ApprovalOutbox ----------------------------
(***************************************************************************)
(* The drain of the approval outbox: a job of the scheduler, one instance  *)
(* at a time, that takes the rows decide() enqueued in id order, each in a *)
(* transaction of its own.  An in-app row writes its Notification in that  *)
(* transaction; an email row calls the mail service, which retries inside, *)
(* and commits after the answer.  The process may die at any point.        *)
(***************************************************************************)
EXTENDS Naturals

CONSTANTS
    Decisions,      \* decisions taken while we look, a bound
    MaxFail,        \* MAX_OUTBOX_FAIL_COUNT
    MaxAttempts,    \* tries of one mail call, MAX_RETRIES + 1
    MaxCrashes      \* deaths of the process, a bound

ASSUME OutboxAssumption ==
    /\ Decisions \in Nat
    /\ MaxFail \in Nat \ {0}
    /\ MaxAttempts \in Nat \ {0}
    /\ MaxCrashes \in Nat

VARIABLES
    enqueued,   \* rows in the table; their ids are 1..enqueued
    sent_at,    \* ApprovalOutbox.sent_at is set
    fail_count, \* ApprovalOutbox.fail_count
    delivered,  \* history: notifications of the row its recipient got
    pc,         \* where the job is
    batch,      \* rows of the SELECT it has not finished
    attempt,    \* tries the mail call has behind it
    raised,     \* one of them raised
    reply,      \* what send_email came back with
    crashes     \* deaths so far

rowVars == <<enqueued, sent_at, fail_count, delivered>>
callVars == <<attempt, raised, reply>>
vars == <<rowVars, pc, batch, callVars, crashes>>

Rows == 1 .. 2 * Decisions

\* decide() adds the in-app row of the owner, then the email row.
InApp(r) == r % 2 = 1

TypeOK ==
    /\ enqueued \in 0 .. 2 * Decisions
    /\ sent_at \in [Rows -> BOOLEAN]
    /\ fail_count \in [Rows -> 0 .. MaxFail]
    /\ delivered \in [Rows -> Nat]
    /\ pc \in {"idle", "dispatch", "sending", "returned"}
    /\ batch \in SUBSET Rows
    /\ attempt \in 0 .. MaxAttempts - 1
    /\ raised \in BOOLEAN
    /\ reply \in {"none", "accepted", "skipped", "error"}
    /\ crashes \in 0 .. MaxCrashes

Init ==
    /\ enqueued = 0
    /\ sent_at = [r \in Rows |-> FALSE]
    /\ fail_count = [r \in Rows |-> 0]
    /\ delivered = [r \in Rows |-> 0]
    /\ pc = "idle"
    /\ batch = {}
    /\ attempt = 0
    /\ raised = FALSE
    /\ reply = "none"
    /\ crashes = 0

-----------------------------------------------------------------------------
\* Mutant: each row is committed for itself.
DecideRowByRow ==
    /\ enqueued + 1 <= 2 * Decisions
    /\ enqueued' = enqueued + 1
    /\ UNCHANGED <<sent_at, fail_count, delivered, pc, batch, callVars, crashes>>

\* A decision commits with its two rows.
Decide ==
    /\ enqueued + 2 <= 2 * Decisions
    /\ enqueued' = enqueued + 2
    /\ UNCHANGED <<sent_at, fail_count, delivered, pc, batch, callVars, crashes>>

\* Mutant: the cap is checked one failure too late.
PendingPastCap(r) == ~sent_at[r] /\ fail_count[r] <= MaxFail

\* Mutant: the job forgets to skip what it sent.
PendingUntilDead(r) == fail_count[r] < MaxFail

\* The rows the SELECT of the drain fetches.
Pending(r) == ~sent_at[r] /\ fail_count[r] < MaxFail

StartDrain ==
    /\ pc = "idle"
    /\ pc' = "dispatch"
    /\ batch' = {r \in 1 .. enqueued : Pending(r)}
    /\ UNCHANGED <<rowVars, callVars, crashes>>

EndDrain ==
    /\ pc = "dispatch"
    /\ batch = {}
    /\ pc' = "idle"
    /\ UNCHANGED <<rowVars, batch, callVars, crashes>>

\* The row the loop is at: the lowest id of the batch.
First(r) == r \in batch /\ \A q \in batch : r <= q

NoCall == attempt' = 0 /\ raised' = FALSE /\ reply' = "none"

\* On to the next row of the batch.
RowDone(r) ==
    /\ batch' = batch \ {r}
    /\ pc' = "dispatch"
    /\ NoCall

\* Mutant: an exception leaves the loop before the failure is counted.
AbortBatch(r) ==
    /\ batch' = {}
    /\ pc' = "idle"
    /\ NoCall
    /\ UNCHANGED <<sent_at, fail_count>>

\* An exception: the row's transaction is rolled back and the failure is
\* recorded in one of its own.
FailRow(r) ==
    /\ fail_count' = [fail_count EXCEPT ![r] = @ + 1]
    /\ UNCHANGED sent_at
    /\ RowDone(r)

SucceedRow(r) ==
    /\ sent_at' = [sent_at EXCEPT ![r] = TRUE]
    /\ UNCHANGED fail_count
    /\ RowDone(r)

Deliver(r) == delivered' = [delivered EXCEPT ![r] = @ + 1]

\* Mutant: without the rollback the dirty Notification is committed along
\* with the failure.
FailInAppDirty(r) == FailRow(r) /\ Deliver(r)

FailInApp(r) == FailRow(r) /\ UNCHANGED delivered

\* An in-app row: Notification and sent_at in one commit.
WriteInApp(r) ==
    /\ pc = "dispatch"
    /\ First(r)
    /\ InApp(r)
    /\ \/ SucceedRow(r) /\ Deliver(r)
       \/ FailInApp(r)
    /\ UNCHANGED <<enqueued, crashes>>

\* An email row: the token of the recipient's mailbox comes first; without
\* one the mail is skipped.
BeginMail(r) ==
    /\ pc = "dispatch"
    /\ First(r)
    /\ ~InApp(r)
    /\ \/ /\ pc' = "sending"
          /\ UNCHANGED <<sent_at, fail_count, batch, callVars>>
       \/ /\ pc' = "returned"
          /\ reply' = "skipped"
          /\ UNCHANGED <<sent_at, fail_count, batch, attempt, raised>>
       \/ FailRow(r)
    /\ UNCHANGED <<enqueued, delivered, crashes>>

Return(answer) ==
    /\ pc' = "returned"
    /\ reply' = answer
    /\ UNCHANGED <<sent_at, fail_count, batch, attempt, raised>>

\* Mutant: the loop over the retries runs once too often.
RetryOnceMore(r, exception) ==
    IF attempt < MaxAttempts
    THEN /\ attempt' = attempt + 1
         /\ raised' = (raised \/ exception)
         /\ UNCHANGED <<sent_at, fail_count, batch, pc, reply>>
    ELSE IF raised \/ exception THEN FailRow(r) ELSE Return("error")

\* The try failed, with an exception or with a status worth a retry.  When
\* no try is left an exception of any of them is raised, and statuses alone
\* come back as an error value.
Retry(r, exception) ==
    IF attempt + 1 < MaxAttempts
    THEN /\ attempt' = attempt + 1
         /\ raised' = (raised \/ exception)
         /\ UNCHANGED <<sent_at, fail_count, batch, pc, reply>>
    ELSE IF raised \/ exception THEN FailRow(r) ELSE Return("error")

\* One try of the mail call: accepted, refused (4xx), gone (410, raised at
\* once), busy (429, 5xx), or broken, when the mail may have gone out all
\* the same.
Try(r) ==
    /\ pc = "sending"
    /\ First(r)
    /\ \/ Deliver(r) /\ Return("accepted")
       \/ UNCHANGED delivered /\ Return("error")
       \/ UNCHANGED delivered /\ FailRow(r)
       \/ UNCHANGED delivered /\ Retry(r, FALSE)
       \/ (Deliver(r) \/ UNCHANGED delivered) /\ Retry(r, TRUE)
    /\ UNCHANGED <<enqueued, crashes>>

\* send_email came back; what it came back with is not looked at.
CommitSent(r) ==
    /\ pc = "returned"
    /\ First(r)
    /\ SucceedRow(r) \/ FailRow(r)
    /\ UNCHANGED <<enqueued, delivered, crashes>>

\* The process dies and starts again, or the database refuses even the
\* record of a failure and the drain ends: the rows are what was committed.
Crash ==
    /\ crashes < MaxCrashes
    /\ crashes' = crashes + 1
    /\ pc' = "idle"
    /\ batch' = {}
    /\ NoCall
    /\ UNCHANGED rowVars

Drain ==
    \/ StartDrain \/ EndDrain
    \/ \E r \in Rows : WriteInApp(r) \/ BeginMail(r) \/ Try(r) \/ CommitSent(r)

Next == Decide \/ Drain \/ Crash

Spec == Init /\ [][Next]_vars

\* The interval job runs every minute and a run that started goes on.
FairSpec == Spec /\ WF_vars(Drain)

-----------------------------------------------------------------------------
(* Properties. *)

Settled(r) == sent_at[r] \/ fail_count[r] = MaxFail

\* An in-app notification exists exactly when its row is marked sent: no
\* failure, retry or death of the process loses or doubles it.
InAppExactlyOnce ==
    \A r \in Rows : InApp(r) => delivered[r] = (IF sent_at[r] THEN 1 ELSE 0)

\* A row marked sent or retired is never tried again.
SettledStaysSettled ==
    [][\A r \in Rows :
          Settled(r) => /\ delivered'[r] = delivered[r]
                        /\ sent_at'[r] = sent_at[r]
                        /\ fail_count'[r] = fail_count[r]]_vars

\* A mail is repeated only by the retries of one call, once per failure on
\* record and once per death of the process: however the calls break, an owner
\* gets no more than MaxAttempts mails for each of them.
MailsBounded ==
    \A r \in Rows : delivered[r] <= MaxAttempts * (MaxFail + crashes)

\* To the owners of requests the drain, its retries and its deaths are nothing
\* but NoticeBoard: the rows of a decision appear together, each is settled
\* once, in-app notices are seen as they are settled and mails only before.
Box(r) == IF r > enqueued THEN "none" ELSE IF sent_at[r] THEN "sent" ELSE "open"
boxes == [r \in Rows |-> Box(r)]
Board == INSTANCE NoticeBoard WITH
    Shown <- {r \in Rows : InApp(r)}, Mailed <- {r \in Rows : ~InApp(r)}, Cap <- MaxFail,
    box <- boxes, strikes <- fail_count, got <- delivered
ImplementsBoard == Board!Spec

\* Every notice is sent or retired at last, whatever rows before it do: a
\* failing row holds up neither itself nor the rest of the batch.
EveryRowSettles == \A r \in Rows : r <= enqueued ~> Settled(r)

\* "On any failure (send error ...) it increments fail_count ... WITHOUT
\* marking sent."  A refusal of the mail service is an error value, not an
\* exception, and send_email does not look at it.
SendErrorIsNotSent ==
    [][\A r \in Rows : ~sent_at[r] /\ sent_at'[r] => reply # "error"]_vars
=============================================================================
