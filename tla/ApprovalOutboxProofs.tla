------------------------- MODULE ApprovalOutboxProofs -------------------------
(***************************************************************************)
(* Proofs about ApprovalOutbox for every number of decisions, failures,    *)
(* tries and crashes.                                                      *)
(***************************************************************************)
EXTENDS ApprovalOutbox, TLAPS

\* The rows of a batch are neither sent nor retired: nothing but the drain
\* settles a row, and it takes the row out of its batch as it does.  While a
\* mail call runs the row at the head is an email row.
BatchInv ==
    /\ \A r \in batch : Pending(r)
    /\ pc \in {"sending", "returned"} => \A r \in batch : First(r) => ~InApp(r)

OutboxInv == BatchInv /\ InAppExactlyOnce

\* The job is done with a row: the rows and the batch keep their types and
\* no call is left.
BetweenRows ==
    /\ sent_at \in [Rows -> BOOLEAN]
    /\ fail_count \in [Rows -> 0 .. MaxFail]
    /\ pc = "dispatch"
    /\ batch \in SUBSET Rows
    /\ attempt = 0
    /\ raised = FALSE
    /\ reply = "none"

-----------------------------------------------------------------------------
\* The numbers a fresh call and a fresh table start with are in range.
LEMMA ZeroInRange ==
    /\ 0 \in 0 .. MaxAttempts - 1
    /\ 0 \in 0 .. MaxFail
    /\ 0 \in 0 .. MaxCrashes
    /\ 0 \in 0 .. 2 * Decisions
<1>1. \A n \in Nat : 0 \in 0 .. n
  OBVIOUS
<1>2. MaxAttempts - 1 \in Nat /\ 2 * Decisions \in Nat
  BY OutboxAssumption
<1> QED
  BY <1>1, <1>2, OutboxAssumption

\* What a failure does to a row of the batch.
LEMMA FailRowType ==
    ASSUME TypeOK, BatchInv, NEW r \in Rows, r \in batch, FailRow(r)
    PROVE  BetweenRows'
<1>1. fail_count[r] + 1 \in 0 .. MaxFail
  BY OutboxAssumption DEF TypeOK, BatchInv, Pending
<1> QED
  BY <1>1 DEF TypeOK, BetweenRows, FailRow, RowDone, NoCall

\* What a success does to a row of the batch.
LEMMA SucceedRowType ==
    ASSUME TypeOK, NEW r \in Rows, SucceedRow(r)
    PROVE  BetweenRows'
  BY DEF TypeOK, BetweenRows, SucceedRow, RowDone, NoCall

\* Back between two rows with the rest typed, everything is.
LEMMA BetweenRowsType ==
    ASSUME TypeOK, BetweenRows', delivered' \in [Rows -> Nat],
           UNCHANGED <<enqueued, crashes>>
    PROVE  TypeOK'
  BY ZeroInRange DEF TypeOK, BetweenRows

\* Every step keeps the types; a failure stays within the cap because only
\* pending rows are in the batch.
LEMMA TypeStep ==
    ASSUME TypeOK, BatchInv, [Next]_vars
    PROVE  TypeOK'
<1> USE OutboxAssumption
<1>1. CASE Decide
  BY <1>1 DEF TypeOK, Decide, callVars
<1>2. CASE StartDrain
  <2>1. batch' \in SUBSET Rows
    BY <1>2 DEF TypeOK, StartDrain, Rows
  <2> QED
    BY <1>2, <2>1 DEF TypeOK, StartDrain, rowVars, callVars
<1>3. CASE EndDrain
  BY <1>3 DEF TypeOK, EndDrain, rowVars, callVars
<1>4. ASSUME NEW r \in Rows, WriteInApp(r)
      PROVE  TypeOK'
  <2>1. r \in batch /\ UNCHANGED <<enqueued, crashes>>
    BY <1>4 DEF WriteInApp, First
  <2>2. BetweenRows'
    BY <1>4, <2>1, FailRowType, SucceedRowType DEF WriteInApp, FailInApp
  <2>3. delivered' \in [Rows -> Nat]
    BY <1>4 DEF WriteInApp, FailInApp, Deliver, TypeOK
  <2> QED
    BY <2>1, <2>2, <2>3, BetweenRowsType
<1>5. ASSUME NEW r \in Rows, BeginMail(r)
      PROVE  TypeOK'
  <2>1. r \in batch /\ UNCHANGED <<enqueued, delivered, crashes>>
    BY <1>5 DEF BeginMail, First
  <2>2. CASE FailRow(r)
    <3>1. delivered' \in [Rows -> Nat]
      BY <2>1 DEF TypeOK
    <3>2. BetweenRows'
      BY <2>1, <2>2, FailRowType
    <3> QED
      BY <2>1, <3>1, <3>2, BetweenRowsType
  <2>3. CASE ~FailRow(r)
    BY <1>5, <2>3 DEF TypeOK, BeginMail, callVars
  <2> QED
    BY <2>2, <2>3
<1>6. ASSUME NEW r \in Rows, Try(r)
      PROVE  TypeOK'
  <2>1. r \in batch /\ UNCHANGED <<enqueued, crashes>>
    BY <1>6 DEF Try, First
  <2>2. delivered' \in [Rows -> Nat]
    <3>1. Deliver(r) \/ UNCHANGED delivered
      BY <1>6, Zenon DEF Try
    <3> QED
      BY <3>1 DEF TypeOK, Deliver
  <2>3. CASE FailRow(r)
    <3>1. BetweenRows'
      BY <2>1, <2>3, FailRowType
    <3> QED
      BY <2>1, <2>2, <3>1, BetweenRowsType
  <2>4. CASE Return("accepted") \/ Return("error")
    BY <2>1, <2>2, <2>4 DEF TypeOK, Return
  <2>5. CASE /\ attempt + 1 < MaxAttempts
             /\ attempt' = attempt + 1
             /\ raised' \in BOOLEAN
             /\ UNCHANGED <<sent_at, fail_count, batch, pc, reply>>
    BY <2>1, <2>2, <2>5 DEF TypeOK
  <2>6. CASE \E exception \in BOOLEAN : Retry(r, exception)
    <3> PICK exception \in BOOLEAN : Retry(r, exception)
      BY <2>6
    <3>1. (raised \/ exception) \in BOOLEAN
      OBVIOUS
    <3> QED
      BY <2>3, <2>4, <2>5, <3>1 DEF Retry
  <2> QED
    BY <1>6, <2>3, <2>4, <2>6 DEF Try
<1>7. ASSUME NEW r \in Rows, CommitSent(r)
      PROVE  TypeOK'
  <2>1. r \in batch /\ UNCHANGED <<enqueued, delivered, crashes>>
    BY <1>7 DEF CommitSent, First
  <2>2. BetweenRows'
    BY <1>7, <2>1, FailRowType, SucceedRowType DEF CommitSent
  <2>3. delivered' \in [Rows -> Nat]
    BY <2>1 DEF TypeOK
  <2> QED
    BY <2>1, <2>2, <2>3, BetweenRowsType
<1>8. CASE Crash
  <2>1. crashes' \in 0 .. MaxCrashes
    BY <1>8 DEF TypeOK, Crash
  <2>2. /\ attempt' = 0 /\ raised' \in BOOLEAN /\ reply' = "none"
        /\ batch' = {} /\ pc' = "idle"
    BY <1>8, Zenon DEF Crash, NoCall
  <2> QED
    BY <1>8, <2>1, <2>2, ZeroInRange DEF TypeOK, Crash, rowVars
<1>9. CASE UNCHANGED vars
  BY <1>9 DEF TypeOK, vars, rowVars, callVars
<1> QED
  BY <1>1, <1>2, <1>3, <1>4, <1>5, <1>6, <1>7, <1>8, <1>9 DEF Next, Drain

-----------------------------------------------------------------------------
\* A row that is done with leaves a batch of pending rows, whichever way it
\* was settled.
LEMMA RowDoneKeepsBatch ==
    ASSUME TypeOK, BatchInv, NEW r \in Rows, FailRow(r) \/ SucceedRow(r)
    PROVE  BatchInv'
<1>1. \A q \in batch' : q \in batch /\ q # r /\ q \in Rows
  BY DEF TypeOK, FailRow, SucceedRow, RowDone
<1>2. \A q \in Rows : q # r => /\ sent_at'[q] = sent_at[q]
                               /\ fail_count'[q] = fail_count[q]
  BY DEF TypeOK, FailRow, SucceedRow
<1>3. pc' = "dispatch"
  BY DEF FailRow, SucceedRow, RowDone
<1> QED
  BY <1>1, <1>2, <1>3 DEF BatchInv, Pending

\* Every step keeps the rows of the batch pending.
LEMMA BatchStep ==
    ASSUME TypeOK, BatchInv, [Next]_vars
    PROVE  BatchInv'
<1>1. CASE Decide
  BY <1>1 DEF BatchInv, Decide, callVars, Pending, First
<1>2. CASE StartDrain
  BY <1>2 DEF BatchInv, StartDrain, rowVars, Pending
<1>3. CASE EndDrain
  BY <1>3 DEF BatchInv, EndDrain, rowVars, Pending
<1>4. ASSUME NEW r \in Rows, WriteInApp(r)
      PROVE  BatchInv'
  BY <1>4, RowDoneKeepsBatch DEF WriteInApp, FailInApp
<1>5. ASSUME NEW r \in Rows, BeginMail(r)
      PROVE  BatchInv'
  <2>1. CASE FailRow(r)
    BY <2>1, RowDoneKeepsBatch
  <2>2. CASE ~FailRow(r)
    <3>1. UNCHANGED <<sent_at, fail_count, batch>>
      BY <1>5, <2>2 DEF BeginMail
    <3>2. \A q \in batch : First(q) => q = r
      BY <1>5 DEF BeginMail, First, TypeOK, Rows
    <3>3. ~InApp(r)
      BY <1>5 DEF BeginMail
    <3> QED
      BY <3>1, <3>2, <3>3 DEF BatchInv, Pending, First, InApp
  <2> QED
    BY <2>1, <2>2
<1>6. ASSUME NEW r \in Rows, Try(r)
      PROVE  BatchInv'
  <2>1. CASE FailRow(r)
    BY <2>1, RowDoneKeepsBatch
  <2>2. CASE ~FailRow(r)
    <3>1. UNCHANGED <<sent_at, fail_count, batch>>
      BY <1>6, <2>2 DEF Try, Retry, Return
    <3> QED
      BY <1>6, <3>1 DEF Try, BatchInv, Pending, First, InApp
  <2> QED
    BY <2>1, <2>2
<1>7. ASSUME NEW r \in Rows, CommitSent(r)
      PROVE  BatchInv'
  BY <1>7, RowDoneKeepsBatch DEF CommitSent
<1>8. CASE Crash
  BY <1>8 DEF BatchInv, Crash
<1>9. CASE UNCHANGED vars
  BY <1>9 DEF BatchInv, vars, rowVars, Pending, First, InApp
<1> QED
  BY <1>1, <1>2, <1>3, <1>4, <1>5, <1>6, <1>7, <1>8, <1>9 DEF Next, Drain

\* An in-app row is written and marked in one step, and only an in-app row
\* at the head of the dispatch loop is written that way.
LEMMA OnceStep ==
    ASSUME TypeOK, OutboxInv, [Next]_vars
    PROVE  InAppExactlyOnce'
<1> USE DEF InAppExactlyOnce, OutboxInv
<1>1. ASSUME UNCHANGED <<sent_at, delivered>>
      PROVE  InAppExactlyOnce'
  BY <1>1 DEF InApp
<1>2. ASSUME NEW r \in Rows, ~InApp(r),
             \A q \in Rows : q # r => /\ sent_at'[q] = sent_at[q]
                                      /\ delivered'[q] = delivered[q]
      PROVE  InAppExactlyOnce'
  BY <1>2 DEF InApp
<1>3. CASE Decide \/ StartDrain \/ EndDrain \/ Crash \/ UNCHANGED vars
  BY <1>1, <1>3 DEF Decide, StartDrain, EndDrain, Crash, vars, rowVars
<1>4. ASSUME NEW r \in Rows, WriteInApp(r)
      PROVE  InAppExactlyOnce'
  <2>1. CASE SucceedRow(r) /\ Deliver(r)
    <3>1. sent_at[r] = FALSE /\ delivered[r] = 0
      BY <1>4 DEF WriteInApp, First, BatchInv, Pending, TypeOK
    <3>2. sent_at'[r] = TRUE /\ delivered'[r] = 1
      BY <2>1, <3>1 DEF SucceedRow, Deliver, TypeOK
    <3>3. \A q \in Rows : q # r => /\ sent_at'[q] = sent_at[q]
                                   /\ delivered'[q] = delivered[q]
      BY <2>1 DEF SucceedRow, Deliver, TypeOK
    <3> QED
      BY <3>2, <3>3 DEF InApp
  <2>2. CASE FailInApp(r)
    BY <1>1, <2>2 DEF FailInApp, FailRow
  <2> QED
    BY <1>4, <2>1, <2>2 DEF WriteInApp
<1>5. ASSUME NEW r \in Rows, BeginMail(r)
      PROVE  InAppExactlyOnce'
  BY <1>1, <1>5 DEF BeginMail, FailRow
<1>6. ASSUME NEW r \in Rows, Try(r) \/ CommitSent(r)
      PROVE  InAppExactlyOnce'
  <2>1. ~InApp(r)
    BY <1>6 DEF Try, CommitSent, First, BatchInv
  <2>2. \A q \in Rows : q # r => sent_at'[q] = sent_at[q]
    BY <1>6 DEF Try, CommitSent, Retry, Return, FailRow, SucceedRow, TypeOK
  <2>3. \A q \in Rows : q # r => delivered'[q] = delivered[q]
    BY <1>6 DEF Try, CommitSent, Deliver, TypeOK
  <2> QED
    BY <1>2, <2>1, <2>2, <2>3
<1> QED
  BY <1>3, <1>4, <1>5, <1>6 DEF Next, Drain

-----------------------------------------------------------------------------
\* The initial state has no row, no batch and no call.
LEMMA OutboxInitial == Init => TypeOK /\ OutboxInv
<1>1. Init => /\ sent_at \in [Rows -> BOOLEAN]
              /\ fail_count \in [Rows -> 0 .. MaxFail]
              /\ delivered \in [Rows -> Nat]
  BY ZeroInRange DEF Init
<1>2. Init => /\ enqueued \in 0 .. 2 * Decisions
              /\ attempt \in 0 .. MaxAttempts - 1
              /\ crashes \in 0 .. MaxCrashes
              /\ raised \in BOOLEAN
              /\ batch \in SUBSET Rows
  BY ZeroInRange, Zenon DEF Init
<1>3. Init => TypeOK
  BY <1>1, <1>2 DEF Init, TypeOK
<1>4. Init => OutboxInv
  BY DEF Init, OutboxInv, BatchInv, InAppExactlyOnce
<1> QED
  BY <1>3, <1>4

\* The two invariants hold together: the types need the pending batch.
LEMMA OutboxInvAlways == Spec => [](TypeOK /\ OutboxInv)
<1>1. TypeOK /\ OutboxInv /\ [Next]_vars => (TypeOK /\ OutboxInv)'
  BY TypeStep, BatchStep, OnceStep DEF OutboxInv
<1> QED
  BY OutboxInitial, <1>1, PTL DEF Spec

\* Every column and every variable of the job keeps its type; in particular
\* no row fails more often than the cap allows.
THEOREM OutboxTypeCorrect == Spec => []TypeOK
  BY OutboxInvAlways, PTL

\* No failure, retry or crash loses or doubles an in-app notification.
THEOREM InAppExactlyOnceAlways == Spec => []InAppExactlyOnce
<1>1. OutboxInv => InAppExactlyOnce
  BY DEF OutboxInv
<1> QED
  BY OutboxInvAlways, <1>1, PTL

\* Nothing of row q changes in a step.
Unmoved(q) ==
    /\ delivered'[q] = delivered[q]
    /\ sent_at'[q] = sent_at[q]
    /\ fail_count'[q] = fail_count[q]

\* The drain never tries a row again that is sent or retired.
THEOREM SettledAlwaysStaysSettled == Spec => SettledStaysSettled
<1>1. ASSUME TypeOK, OutboxInv, [Next]_vars, NEW q \in Rows, Settled(q)
      PROVE  Unmoved(q)
  <2>1. q \notin batch
    BY <1>1, OutboxAssumption DEF OutboxInv, BatchInv, Pending, Settled, TypeOK
  <2>2. CASE Decide \/ StartDrain \/ EndDrain \/ Crash \/ UNCHANGED vars
    BY <2>2 DEF Unmoved, Decide, StartDrain, EndDrain, Crash, vars, rowVars
  <2>3. ASSUME NEW r \in Rows, r # q,
               WriteInApp(r) \/ BeginMail(r) \/ Try(r) \/ CommitSent(r)
        PROVE  Unmoved(q)
    BY <1>1, <2>3 DEF Unmoved, WriteInApp, BeginMail, Try, CommitSent, Retry, Return,
                      FailInApp, FailRow, SucceedRow, Deliver, TypeOK
  <2>4. ASSUME NEW r \in Rows,
               WriteInApp(r) \/ BeginMail(r) \/ Try(r) \/ CommitSent(r)
        PROVE  r # q
    BY <2>1, <2>4 DEF WriteInApp, BeginMail, Try, CommitSent, First
  <2> QED
    BY <1>1, <2>2, <2>3, <2>4 DEF Next, Drain
<1>2. TypeOK /\ OutboxInv /\ [Next]_vars
      => [\A r \in Rows :
             Settled(r) => /\ delivered'[r] = delivered[r]
                           /\ sent_at'[r] = sent_at[r]
                           /\ fail_count'[r] = fail_count[r]]_vars
  BY <1>1 DEF Unmoved
<1> QED
  BY OutboxInvAlways, <1>2, PTL DEF Spec, SettledStaysSettled

-----------------------------------------------------------------------------
(* How often a mail is repeated. *)

\* What n rounds of tries may send.
Quota(n) == MaxAttempts * n

\* What the round that is on, or the one that ended well, may have sent.
ThisRound(r) ==
    IF sent_at[r] THEN MaxAttempts
    ELSE IF First(r) /\ pc = "sending" THEN attempt
    ELSE IF First(r) /\ pc = "returned" THEN MaxAttempts
    ELSE 0

\* Every mail of row r was sent in a round that failed, that a death of the
\* process cut off, that is on or that ended well.
Within(r) == delivered[r] <= Quota(fail_count[r] + crashes) + ThisRound(r)

\* A row that was sent had failures left, or the last round would be one too many.
MailInv ==
    /\ \A r \in Rows : Within(r)
    /\ \A r \in Rows : sent_at[r] => fail_count[r] < MaxFail

\* One round more is MaxAttempts mails more.
LEMMA QuotaGrows ==
    ASSUME NEW n \in Nat
    PROVE  /\ Quota(n) \in Nat
           /\ Quota(n + 1) = Quota(n) + MaxAttempts
  BY OutboxAssumption DEF Quota

\* More rounds never send less.
LEMMA QuotaMonotonic ==
    ASSUME NEW m \in Nat, NEW n \in Nat, m <= n
    PROVE  Quota(m) <= Quota(n)
<1>1. PICK k \in Nat : n = m + k
  BY n - m \in Nat, n = m + (n - m)
<1>2. Quota(n) = Quota(m) + Quota(k)
  BY <1>1, OutboxAssumption DEF Quota
<1> QED
  BY <1>2, QuotaGrows

\* A round never sends more than MaxAttempts mails.
LEMMA RoundBound ==
    ASSUME TypeOK, NEW r \in Rows
    PROVE  ThisRound(r) \in 0 .. MaxAttempts
  BY OutboxAssumption DEF TypeOK, ThisRound

\* Only one row is at the head of the batch.
LEMMA OneFirst ==
    ASSUME NEW r \in Rows, First(r), NEW q \in Rows, First(q)
    PROVE  q = r
<1>1. q <= r /\ r <= q
  BY DEF First
<1> QED
  BY <1>1 DEF Rows

\* What no step touched keeps its bound, if it was not at the head of a call.
LEMMA OthersWithin ==
    ASSUME TypeOK, TypeOK', NEW q \in Rows, Within(q),
           delivered'[q] = delivered[q], fail_count'[q] = fail_count[q],
           sent_at'[q] = sent_at[q], crashes' = crashes,
           First(q) => pc \notin {"sending", "returned"}
    PROVE  Within(q)'
<1>1. ThisRound(q) = IF sent_at[q] THEN MaxAttempts ELSE 0
  BY DEF ThisRound
<1>2. ThisRound(q)' >= (IF sent_at[q] THEN MaxAttempts ELSE 0)
  BY OutboxAssumption DEF TypeOK, ThisRound
<1>3. ThisRound(q)' \in Nat /\ delivered[q] \in Nat
  BY OutboxAssumption DEF TypeOK, ThisRound
<1>4. Quota(fail_count[q] + crashes) \in Nat
  BY QuotaGrows DEF TypeOK
<1> QED
  BY <1>1, <1>2, <1>3, <1>4, OutboxAssumption DEF Within

\* A failure pays for the round it ends.
LEMMA FailRowWithin ==
    ASSUME TypeOK, TypeOK', NEW r \in Rows, FailRow(r), crashes' = crashes, ~sent_at[r],
           delivered'[r] <= Quota(fail_count[r] + crashes) + MaxAttempts
    PROVE  Within(r)'
<1>1. fail_count'[r] + crashes' = (fail_count[r] + crashes) + 1
  BY DEF TypeOK, FailRow
<1>2. Quota((fail_count[r] + crashes) + 1) = Quota(fail_count[r] + crashes) + MaxAttempts
  BY QuotaGrows DEF TypeOK
<1>3. ThisRound(r)' = 0
  BY DEF ThisRound, FailRow, RowDone, TypeOK
<1>4. Quota(fail_count[r] + crashes) \in Nat /\ delivered'[r] \in Nat
  BY QuotaGrows DEF TypeOK
<1>5. Quota(fail_count'[r] + crashes') = Quota(fail_count[r] + crashes) + MaxAttempts
  BY <1>1, <1>2
<1> QED
  BY <1>3, <1>4, <1>5, OutboxAssumption DEF Within, Quota

\* A success is the round that ended well.
LEMMA SucceedRowWithin ==
    ASSUME TypeOK, TypeOK', NEW r \in Rows, SucceedRow(r), crashes' = crashes,
           delivered'[r] <= Quota(fail_count[r] + crashes) + MaxAttempts
    PROVE  Within(r)'
<1>1. ThisRound(r)' = MaxAttempts
  BY DEF TypeOK, ThisRound, SucceedRow
<1>2. fail_count'[r] = fail_count[r]
  BY DEF SucceedRow
<1> QED
  BY <1>1, <1>2 DEF Within, Quota

\* A step on the row r at the head keeps all bounds if it keeps that of r.
LEMMA HeadStepWithin ==
    ASSUME TypeOK, TypeOK', NEW r \in Rows, First(r), \A q \in Rows : Within(q),
           \A q \in Rows \ {r} : /\ delivered'[q] = delivered[q]
                                 /\ fail_count'[q] = fail_count[q]
                                 /\ sent_at'[q] = sent_at[q],
           crashes' = crashes, Within(r)'
    PROVE  \A q \in Rows : Within(q)'
<1> SUFFICES ASSUME NEW q \in Rows, q # r PROVE Within(q)'
  OBVIOUS
<1>1. ~First(q)
  BY OneFirst
<1> QED
  BY <1>1, OthersWithin

\* Where the row at the head is, its bound says how far its round has come.
LEMMA HeadBound ==
    ASSUME TypeOK, BatchInv, NEW r \in Rows, First(r), Within(r)
    PROVE  /\ sent_at[r] = FALSE /\ fail_count[r] < MaxFail
           /\ Quota(fail_count[r] + crashes) \in Nat
           /\ delivered[r] \in Nat
           /\ pc = "dispatch" => delivered[r] <= Quota(fail_count[r] + crashes)
           /\ pc = "sending" => delivered[r] <= Quota(fail_count[r] + crashes) + attempt
           /\ delivered[r] <= Quota(fail_count[r] + crashes) + MaxAttempts
<1>1. sent_at[r] = FALSE /\ fail_count[r] < MaxFail
  BY DEF First, BatchInv, Pending, TypeOK
<1>2. Quota(fail_count[r] + crashes) \in Nat /\ delivered[r] \in Nat
  BY QuotaGrows DEF TypeOK
<1>3. ThisRound(r) \in 0 .. MaxAttempts
  BY RoundBound
<1> QED
  BY <1>1, <1>2, <1>3, OutboxAssumption DEF Within, ThisRound

\* A death of the process pays for the round it cuts off.
LEMMA CrashWithin ==
    ASSUME TypeOK, TypeOK', NEW q \in Rows, Within(q), Crash
    PROVE  Within(q)'
<1>1. crashes' = crashes + 1 /\ UNCHANGED rowVars /\ pc' = "idle"
  BY DEF Crash
<1>2. fail_count'[q] + crashes' = (fail_count[q] + crashes) + 1
  BY <1>1 DEF TypeOK, rowVars
<1>3. /\ Quota(fail_count[q] + crashes) \in Nat
      /\ Quota((fail_count[q] + crashes) + 1) = Quota(fail_count[q] + crashes) + MaxAttempts
  BY QuotaGrows DEF TypeOK
<1>4. Quota(fail_count'[q] + crashes') = Quota(fail_count[q] + crashes) + MaxAttempts
  BY <1>2, <1>3
<1>5. ThisRound(q) \in 0 .. MaxAttempts
  BY RoundBound
<1>6. ThisRound(q)' \in Nat
  BY OutboxAssumption DEF TypeOK, ThisRound
<1>7. Within(q)' <=> delivered'[q] <= Quota(fail_count'[q] + crashes') + ThisRound(q)'
  BY DEF Within, Quota
<1> QED
  BY <1>1, <1>3, <1>4, <1>5, <1>6, <1>7, OutboxAssumption DEF Within, TypeOK, rowVars

\* Every step keeps the bounds: a try sends at most one mail, and a round is
\* paid for when it fails, succeeds or dies.
LEMMA WithinStep ==
    ASSUME TypeOK, TypeOK', BatchInv, \A q \in Rows : Within(q), [Next]_vars
    PROVE  \A q \in Rows : Within(q)'
<1>1. CASE Decide
  BY <1>1 DEF Decide, callVars, Within, ThisRound, First
<1>2. CASE StartDrain \/ EndDrain
  <2>1. \A q \in Rows : ThisRound(q) = ThisRound(q)'
    BY <1>2 DEF StartDrain, EndDrain, rowVars, ThisRound
  <2> QED
    BY <1>2, <2>1 DEF StartDrain, EndDrain, rowVars, Within, Quota
<1>3. CASE Crash
  BY <1>3, CrashWithin
<1>4. CASE UNCHANGED vars
  BY <1>4 DEF vars, rowVars, callVars, Within, ThisRound, First
<1>5. ASSUME NEW r \in Rows, WriteInApp(r)
      PROVE  \A q \in Rows : Within(q)'
  <2>1. delivered'[r] <= delivered[r] + 1
    BY <1>5 DEF WriteInApp, Deliver, FailInApp, TypeOK
  <2>2. Within(r)'
    <3>1. First(r) /\ pc = "dispatch" /\ crashes' = crashes
      BY <1>5 DEF WriteInApp
    <3>2. /\ delivered[r] <= Quota(fail_count[r] + crashes) /\ ~sent_at[r]
          /\ delivered[r] \in Nat /\ Quota(fail_count[r] + crashes) \in Nat
      BY <3>1, HeadBound
    <3>3. delivered'[r] \in Nat
      BY DEF TypeOK
    <3>4. delivered'[r] <= Quota(fail_count[r] + crashes) + MaxAttempts
      BY <2>1, <3>2, <3>3, OutboxAssumption
    <3> QED
      BY <1>5, <3>1, <3>2, <3>4, FailRowWithin, SucceedRowWithin DEF WriteInApp, FailInApp
  <2> QED
    BY <1>5, <2>2, HeadStepWithin
       DEF WriteInApp, FailInApp, FailRow, SucceedRow, Deliver, TypeOK
<1>6. ASSUME NEW r \in Rows, BeginMail(r)
      PROVE  \A q \in Rows : Within(q)'
  <2>1. First(r) /\ pc = "dispatch" /\ UNCHANGED <<crashes, delivered>>
    BY <1>6 DEF BeginMail
  <2>2. CASE FailRow(r)
    <3>1. Within(r)'
      BY <2>1, <2>2, HeadBound, FailRowWithin, OutboxAssumption
    <3> QED
      BY <2>1, <2>2, <3>1, HeadStepWithin DEF FailRow, TypeOK
  <2>3. CASE UNCHANGED <<sent_at, fail_count>>
    <3>1. ThisRound(r)' \in Nat
      BY OutboxAssumption DEF TypeOK, ThisRound
    <3>2. /\ delivered[r] <= Quota(fail_count[r] + crashes)
          /\ delivered[r] \in Nat /\ Quota(fail_count[r] + crashes) \in Nat
      BY <2>1, HeadBound
    <3>3. Quota(fail_count[r] + crashes)' = Quota(fail_count[r] + crashes)
      BY <2>1, <2>3 DEF Quota
    <3>4. Within(r)'
      BY <2>1, <3>1, <3>2, <3>3 DEF Within
    <3> QED
      BY <2>1, <2>3, <3>4, HeadStepWithin
  <2> QED
    BY <1>6, <2>2, <2>3 DEF BeginMail
<1>7. ASSUME NEW r \in Rows, Try(r)
      PROVE  \A q \in Rows : Within(q)'
  <2>1. First(r) /\ pc = "sending" /\ UNCHANGED crashes
    BY <1>7 DEF Try
  <2>2. Deliver(r) \/ UNCHANGED delivered
    BY <1>7, Zenon DEF Try
  <2>3. /\ delivered'[r] <= delivered[r] + 1
        /\ \A q \in Rows \ {r} : delivered'[q] = delivered[q]
    BY <2>2 DEF Deliver, TypeOK
  <2>4. /\ delivered'[r] <= Quota(fail_count[r] + crashes) + (attempt + 1)
        /\ delivered'[r] <= Quota(fail_count[r] + crashes) + MaxAttempts
        /\ ~sent_at[r] /\ Quota(fail_count[r] + crashes) \in Nat
    <3>1. /\ delivered[r] <= Quota(fail_count[r] + crashes) + attempt
          /\ delivered[r] \in Nat /\ Quota(fail_count[r] + crashes) \in Nat
          /\ ~sent_at[r]
      BY <2>1, HeadBound
    <3>2. delivered'[r] \in Nat /\ attempt \in 0 .. MaxAttempts - 1
      BY DEF TypeOK
    <3> QED
      BY <2>3, <3>1, <3>2, OutboxAssumption
  <2>5. CASE FailRow(r)
    <3>1. Within(r)'
      BY <2>1, <2>4, <2>5, FailRowWithin
    <3> QED
      BY <2>1, <2>3, <2>5, <3>1, HeadStepWithin DEF FailRow, TypeOK
  <2>6. CASE /\ UNCHANGED <<sent_at, fail_count, batch>>
             /\ \/ pc' = "returned"
                \/ pc' = "sending" /\ attempt' = attempt + 1
    <3>1. First(r)'
      BY <2>1, <2>6 DEF First
    <3>2. \/ ThisRound(r)' = MaxAttempts
          \/ ThisRound(r)' = attempt + 1
      BY <2>4, <2>6, <3>1 DEF ThisRound
    <3>3. Within(r)'
      BY <2>1, <2>4, <2>6, <3>2 DEF Within, Quota
    <3> QED
      BY <2>1, <2>3, <2>6, <3>3, HeadStepWithin
  <2>7. ASSUME NEW answer, Return(answer)
        PROVE  pc' = "returned" /\ UNCHANGED <<sent_at, fail_count, batch>>
    BY <2>7 DEF Return
  <2>8. ASSUME NEW exception, Retry(r, exception)
        PROVE  \/ FailRow(r)
               \/ /\ UNCHANGED <<sent_at, fail_count, batch>>
                  /\ \/ pc' = "returned"
                     \/ pc' = "sending" /\ attempt' = attempt + 1
    BY <2>1, <2>7, <2>8 DEF Retry
  <2> QED
    BY <1>7, <2>5, <2>6, <2>7, <2>8 DEF Try
<1>8. ASSUME NEW r \in Rows, CommitSent(r)
      PROVE  \A q \in Rows : Within(q)'
  <2>1. First(r) /\ UNCHANGED <<crashes, delivered>>
    BY <1>8 DEF CommitSent
  <2>2. Within(r)'
    BY <1>8, <2>1, HeadBound, FailRowWithin, SucceedRowWithin DEF CommitSent
  <2> QED
    BY <1>8, <2>1, <2>2, HeadStepWithin DEF CommitSent, FailRow, SucceedRow, TypeOK
<1> QED
  BY <1>1, <1>2, <1>3, <1>4, <1>5, <1>6, <1>7, <1>8 DEF Next, Drain

\* Only a row with failures left is in the batch, and only those are sent.
LEMMA SentStep ==
    ASSUME TypeOK, BatchInv, \A q \in Rows : sent_at[q] => fail_count[q] < MaxFail,
           [Next]_vars
    PROVE  \A q \in Rows : sent_at'[q] => fail_count'[q] < MaxFail
<1>1. ASSUME UNCHANGED <<sent_at, fail_count>>
      PROVE  \A q \in Rows : sent_at'[q] => fail_count'[q] < MaxFail
  BY <1>1
<1>2. ASSUME NEW r \in Rows, First(r), FailRow(r) \/ SucceedRow(r)
      PROVE  \A q \in Rows : sent_at'[q] => fail_count'[q] < MaxFail
  <2>1. ~sent_at[r] /\ fail_count[r] < MaxFail
    BY <1>2 DEF First, BatchInv, Pending
  <2> QED
    BY <1>2, <2>1 DEF FailRow, SucceedRow, TypeOK
<1>3. CASE Decide \/ StartDrain \/ EndDrain \/ Crash \/ UNCHANGED vars
  BY <1>1, <1>3 DEF Decide, StartDrain, EndDrain, Crash, vars, rowVars
<1>4. ASSUME NEW r \in Rows, WriteInApp(r) \/ BeginMail(r) \/ Try(r) \/ CommitSent(r)
      PROVE  \A q \in Rows : sent_at'[q] => fail_count'[q] < MaxFail
  <2>1. First(r)
    BY <1>4 DEF WriteInApp, BeginMail, Try, CommitSent
  <2>2. FailRow(r) \/ SucceedRow(r) \/ UNCHANGED <<sent_at, fail_count>>
    BY <1>4 DEF WriteInApp, FailInApp, BeginMail, Try, CommitSent, Retry, Return
  <2> QED
    BY <1>1, <1>2, <2>1, <2>2
<1> QED
  BY <1>3, <1>4 DEF Next, Drain

\* The bounds hold from the empty table on.
LEMMA MailInvAlways == Spec => [](TypeOK /\ OutboxInv /\ MailInv)
<1>1. ASSUME Init PROVE MailInv
  <2>1. TypeOK
    BY <1>1, OutboxInitial
  <2>2. ASSUME NEW r \in Rows
        PROVE  Within(r) /\ ~sent_at[r]
    <3>1. Quota(fail_count[r] + crashes) \in Nat
      BY <2>1, QuotaGrows DEF TypeOK
    <3>2. delivered[r] = 0 /\ ThisRound(r) = 0 /\ ~sent_at[r]
      BY <1>1 DEF Init, ThisRound
    <3> QED
      BY <3>1, <3>2 DEF Within
  <2> QED
    BY <2>2 DEF MailInv
<1>2. TypeOK /\ OutboxInv /\ MailInv /\ [Next]_vars => (TypeOK /\ OutboxInv /\ MailInv)'
  BY TypeStep, BatchStep, OnceStep, WithinStep, SentStep DEF OutboxInv, MailInv
<1> QED
  BY OutboxInitial, <1>1, <1>2, PTL DEF Spec

\* The rounds of a row are its failures, the deaths of the process and the one
\* that ended well, for which the cap leaves room.
LEMMA WithinTheQuota ==
    ASSUME TypeOK, BatchInv, MailInv
    PROVE  MailsBounded
<1> SUFFICES ASSUME NEW r \in Rows
             PROVE  delivered[r] <= Quota(MaxFail + crashes)
  BY DEF MailsBounded, Quota
<1>1. /\ fail_count[r] + crashes \in Nat /\ MaxFail + crashes \in Nat
      /\ delivered[r] \in Nat /\ fail_count[r] <= MaxFail
  BY OutboxAssumption DEF TypeOK
<1>2. delivered[r] <= Quota(fail_count[r] + crashes) + ThisRound(r)
  BY DEF MailInv, Within
<1>3. ThisRound(r) \in 0 .. MaxAttempts
  BY RoundBound
<1>4. /\ Quota(fail_count[r] + crashes) \in Nat
      /\ Quota(MaxFail + crashes) \in Nat
      /\ Quota((fail_count[r] + crashes) + 1) = Quota(fail_count[r] + crashes) + MaxAttempts
  BY <1>1, QuotaGrows
<1>5. CASE fail_count[r] < MaxFail
  <2>1. (fail_count[r] + crashes) + 1 <= MaxFail + crashes
    BY <1>5, OutboxAssumption DEF TypeOK
  <2>2. Quota((fail_count[r] + crashes) + 1) <= Quota(MaxFail + crashes)
    BY <1>1, <2>1, QuotaMonotonic
  <2> QED
    BY <1>1, <1>2, <1>3, <1>4, <2>2, OutboxAssumption
<1>6. CASE ~(fail_count[r] < MaxFail)
  <2>1. ~sent_at[r] /\ ~First(r)
    BY <1>6 DEF MailInv, BatchInv, Pending, First
  <2>2. ThisRound(r) = 0
    BY <2>1 DEF ThisRound
  <2>3. fail_count[r] + crashes <= MaxFail + crashes
    BY <1>1, OutboxAssumption DEF TypeOK
  <2>4. Quota(fail_count[r] + crashes) <= Quota(MaxFail + crashes)
    BY <1>1, <2>3, QuotaMonotonic
  <2> QED
    BY <1>1, <1>2, <1>4, <2>2, <2>4
<1> QED
  BY <1>5, <1>6

\* No owner gets more than MaxAttempts mails for each failure the cap allows and
\* each death of the process.
THEOREM MailsAlwaysBounded == Spec => []MailsBounded
<1>1. TypeOK /\ OutboxInv /\ MailInv => MailsBounded
  BY WithinTheQuota DEF OutboxInv
<1> QED
  BY MailInvAlways, <1>1, PTL

-----------------------------------------------------------------------------
(* The outbox implements NoticeBoard. *)

\* The rows are those decisions put in, two at a time; only rows of the table
\* are in a batch or sent.
TableInv ==
    /\ enqueued % 2 = 0
    /\ batch \subseteq 1 .. enqueued
    /\ \A r \in Rows : sent_at[r] => r <= enqueued

\* A decision's rows are an in-app row and an email row.
LEMMA PairOfRows ==
    ASSUME NEW n \in Nat, n % 2 = 0
    PROVE  (n + 1) % 2 = 1 /\ (n + 2) % 2 = 0
  BY SMT

\* What the rows of the table are stays so.
LEMMA TableStep ==
    ASSUME TypeOK, TableInv, [Next]_vars
    PROVE  TableInv'
<1> USE DEF TableInv
<1>1. CASE Decide
  <2>1. enqueued \in Nat /\ enqueued' = enqueued + 2 /\ UNCHANGED <<sent_at, batch>>
    BY <1>1, OutboxAssumption DEF TypeOK, Decide
  <2>2. enqueued' % 2 = 0
    BY <2>1, PairOfRows
  <2> QED
    BY <2>1, <2>2 DEF Rows
<1>2. CASE StartDrain
  BY <1>2 DEF StartDrain, rowVars
<1>3. CASE EndDrain \/ Crash \/ UNCHANGED vars
  BY <1>3 DEF EndDrain, Crash, vars, rowVars
<1>4. ASSUME NEW r \in Rows, WriteInApp(r) \/ BeginMail(r) \/ Try(r) \/ CommitSent(r)
      PROVE  TableInv'
  <2>1. r \in batch /\ enqueued' = enqueued
    BY <1>4 DEF WriteInApp, BeginMail, Try, CommitSent, First
  <2>2. FailRow(r) \/ SucceedRow(r) \/ UNCHANGED <<sent_at, batch>>
    BY <1>4 DEF WriteInApp, FailInApp, BeginMail, Try, CommitSent, Retry, Return
  <2>3. batch' \subseteq batch
    BY <2>2 DEF FailRow, SucceedRow, RowDone
  <2>4. \A q \in Rows : sent_at'[q] => sent_at[q] \/ q = r
    BY <2>2 DEF FailRow, SucceedRow, TypeOK
  <2>5. r <= enqueued
    BY <2>1 DEF TypeOK
  <2> QED
    BY <2>1, <2>3, <2>4, <2>5
<1> QED
  BY <1>1, <1>2, <1>3, <1>4 DEF Next, Drain

\* What the table is, together with the invariants of the batch.
LEMMA TableInvAlways == Spec => [](TypeOK /\ OutboxInv /\ TableInv)
<1>1. Init => TableInv
  BY DEF Init, TableInv
<1>2. TypeOK /\ OutboxInv /\ TableInv /\ [Next]_vars => (TypeOK /\ OutboxInv /\ TableInv)'
  BY TypeStep, BatchStep, OnceStep, TableStep DEF OutboxInv
<1> QED
  BY OutboxInitial, <1>1, <1>2, PTL DEF Spec

\* The items of the board are the rows.
LEMMA BoardItems == Board!Items = Rows
  BY DEF Board!Items

\* The empty table is an empty board.
LEMMA BoardInitial == Init => Board!Init
<1> SUFFICES ASSUME Init PROVE Board!Init
  OBVIOUS
<1>1. \A r \in Rows : r > 0
  BY DEF Rows
<1> QED
  BY <1>1, BoardItems DEF Init, Board!Init, boxes, Box

\* The row at the head of the batch is open on the board.
LEMMA HeadIsOpen ==
    ASSUME TypeOK, BatchInv, TableInv, NEW r \in Rows, First(r)
    PROVE  boxes[r] = "open" /\ Board!Open(r)
<1>1. ~sent_at[r] /\ fail_count[r] < MaxFail /\ r <= enqueued
  BY DEF First, BatchInv, Pending, TableInv, TypeOK
<1>2. ~(r > enqueued)
  BY <1>1 DEF TypeOK, Rows
<1> QED
  BY <1>1, <1>2 DEF boxes, Box, Board!Open

\* The board shows nothing but the rows.
LEMMA SameRowsSameBoard ==
    ASSUME UNCHANGED rowVars
    PROVE  UNCHANGED Board!boardVars
  BY DEF rowVars, Board!boardVars, boxes, Box

\* A failure of a row is a strike, with or without a mail.
LEMMA FailIsStrike ==
    ASSUME TypeOK, BatchInv, TableInv, NEW r \in Rows, First(r), FailRow(r),
           UNCHANGED enqueued,
           UNCHANGED delivered \/ (~InApp(r) /\ Deliver(r))
    PROVE  Board!Next
<1>1. Board!Open(r)
  BY HeadIsOpen
<1>2. UNCHANGED boxes
  BY DEF FailRow, boxes, Box
<1>3. Board!Strike(r)
  BY <1>1, <1>2 DEF Board!Strike, Board!Get, FailRow, Deliver
<1> QED
  BY <1>3, BoardItems DEF Board!Next

\* A success of a row puts a tick on its box.
LEMMA SuccessTicks ==
    ASSUME TypeOK, BatchInv, TableInv, NEW r \in Rows, First(r), SucceedRow(r),
           UNCHANGED enqueued
    PROVE  boxes' = [boxes EXCEPT ![r] = "sent"] /\ UNCHANGED fail_count
<1>1. sent_at' = [sent_at EXCEPT ![r] = TRUE] /\ UNCHANGED fail_count
  BY DEF SucceedRow
<1>2. ~(r > enqueued)
  BY DEF First, TableInv, TypeOK, Rows
<1>3. \A q \in Rows : Box(q)' = IF q = r THEN "sent" ELSE Box(q)
  BY <1>1, <1>2 DEF Box, TypeOK
<1> QED
  BY <1>1, <1>3 DEF boxes

\* Every step of the outbox is a step of the board or leaves it alone.
LEMMA BoardStep ==
    ASSUME TypeOK, OutboxInv, TableInv, [Next]_vars
    PROVE  [Board!Next]_(Board!boardVars)
<1> USE DEF OutboxInv
<1>1. CASE Decide
  <2> DEFINE n == enqueued + 1
             m == enqueued + 2
  <2>1. /\ enqueued \in Nat /\ enqueued' = enqueued + 2
        /\ n \in Rows /\ m \in Rows /\ n # m
        /\ UNCHANGED <<sent_at, fail_count, delivered>>
    BY <1>1, OutboxAssumption DEF TypeOK, Decide, Rows
  <2>2. InApp(n) /\ ~InApp(m)
    <3>1. enqueued % 2 = 0
      BY DEF TableInv
    <3>2. (enqueued + 1) % 2 = 1 /\ (enqueued + 2) % 2 = 0
      BY <2>1, <3>1, PairOfRows
    <3> QED
      BY <3>2 DEF InApp
  <2>3. boxes[n] = "none" /\ boxes[m] = "none"
    BY <2>1 DEF boxes, Box
  <2>4. \A q \in Rows : Box(q)' = IF q \in {n, m} THEN "open" ELSE Box(q)
    <3> SUFFICES ASSUME NEW q \in Rows
                 PROVE  Box(q)' = IF q \in {n, m} THEN "open" ELSE Box(q)
      OBVIOUS
    <3>1. q \in Nat /\ (q > enqueued' => q > enqueued)
          /\ (q > enqueued /\ ~(q > enqueued') <=> q \in {n, m})
      BY <2>1 DEF Rows
    <3>2. q > enqueued => ~sent_at[q]
      BY <3>1, <2>1 DEF TableInv
    <3> QED
      BY <2>1, <3>1, <3>2 DEF Box
  <2>5. boxes' = [boxes EXCEPT ![n] = "open", ![m] = "open"]
    BY <2>1, <2>4 DEF boxes
  <2>6. Board!Announce(n, m)
    BY <2>1, <2>3, <2>5 DEF Board!Announce
  <2> QED
    BY <2>1, <2>2, <2>6 DEF Board!Next
<1>2. CASE StartDrain \/ EndDrain \/ Crash \/ UNCHANGED vars
  BY <1>2, SameRowsSameBoard DEF StartDrain, EndDrain, Crash, vars
<1>3. ASSUME NEW r \in Rows, WriteInApp(r)
      PROVE  Board!Next
  <2>1. First(r) /\ InApp(r) /\ UNCHANGED enqueued
    BY <1>3 DEF WriteInApp
  <2>2. CASE SucceedRow(r) /\ Deliver(r)
    <3>1. Board!Show(r)
      BY <2>1, <2>2, HeadIsOpen, SuccessTicks DEF Board!Show, Board!Get, Deliver
    <3> QED
      BY <2>1, <3>1 DEF Board!Next
  <2>3. CASE FailInApp(r)
    BY <2>1, <2>3, FailIsStrike DEF FailInApp
  <2> QED
    BY <1>3, <2>2, <2>3 DEF WriteInApp
<1>4. ASSUME NEW r \in Rows, BeginMail(r)
      PROVE  [Board!Next]_(Board!boardVars)
  <2>1. First(r) /\ UNCHANGED <<enqueued, delivered>>
    BY <1>4 DEF BeginMail
  <2>2. CASE FailRow(r)
    BY <2>1, <2>2, FailIsStrike
  <2>3. CASE UNCHANGED <<sent_at, fail_count>>
    BY <2>1, <2>3, SameRowsSameBoard DEF rowVars
  <2> QED
    BY <1>4, <2>2, <2>3 DEF BeginMail
<1>5. ASSUME NEW r \in Rows, Try(r)
      PROVE  [Board!Next]_(Board!boardVars)
  <2>1. First(r) /\ ~InApp(r) /\ UNCHANGED enqueued
    BY <1>5 DEF Try, BatchInv, First
  <2>2. Deliver(r) \/ UNCHANGED delivered
    BY <1>5, Zenon DEF Try
  <2>3. FailRow(r) \/ UNCHANGED <<sent_at, fail_count>>
    BY <1>5 DEF Try, Retry, Return
  <2>4. CASE FailRow(r)
    BY <2>1, <2>2, <2>4, FailIsStrike
  <2>5. CASE UNCHANGED <<sent_at, fail_count>> /\ Deliver(r)
    <3>1. UNCHANGED boxes
      BY <2>1, <2>5 DEF boxes, Box
    <3>2. Board!Mail(r)
      BY <2>1, <2>5, <3>1, HeadIsOpen DEF Board!Mail, Board!Get, Deliver
    <3> QED
      BY <2>1, <3>2 DEF Board!Next
  <2>6. CASE UNCHANGED <<sent_at, fail_count, delivered>>
    BY <2>1, <2>6, SameRowsSameBoard DEF rowVars
  <2> QED
    BY <2>2, <2>3, <2>4, <2>5, <2>6
<1>6. ASSUME NEW r \in Rows, CommitSent(r)
      PROVE  Board!Next
  <2>1. First(r) /\ ~InApp(r) /\ UNCHANGED <<enqueued, delivered>>
    BY <1>6 DEF CommitSent, BatchInv, First
  <2>2. CASE FailRow(r)
    BY <2>1, <2>2, FailIsStrike
  <2>3. CASE SucceedRow(r)
    <3>1. Board!TickOff(r)
      BY <2>1, <2>3, HeadIsOpen, SuccessTicks DEF Board!TickOff
    <3> QED
      BY <2>1, <3>1 DEF Board!Next
  <2> QED
    BY <1>6, <2>2, <2>3 DEF CommitSent
<1> QED
  BY <1>1, <1>2, <1>3, <1>4, <1>5, <1>6 DEF Next, Drain

\* Drain, retries and deaths of the process together are the notice board.
THEOREM OutboxImplementsBoard == Spec => ImplementsBoard
<1>1. TypeOK /\ OutboxInv /\ TableInv /\ [Next]_vars => [Board!Next]_(Board!boardVars)
  BY BoardStep
<1> QED
  BY TableInvAlways, BoardInitial, <1>1, PTL DEF Spec, ImplementsBoard, Board!Spec
=============================================================================
