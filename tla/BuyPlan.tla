------------------------------- MODULE BuyPlan -------------------------------
(***************************************************************************)
(* One buy plan of the AVAIL application with everything its life touches: *)
(* the plan row, its purchase-order lines, the manager-approval requests   *)
(* opened for it, and the prepayments (vendor wires) raised on its lines   *)
(* with the approval request of each.                                      *)
(*                                                                         *)
(* An action is one route handler or job run to its commit.  The routes    *)
(* are coroutines of one event loop that call the database synchronously,  *)
(* so between two awaits a handler is not interleaved with another; the    *)
(* handlers that can be (threadpool routes, stale reads over an await) are *)
(* the subject of ApprovalEngine and of the plan in README.md.             *)
(*                                                                         *)
(* Who acts is left out: every guard that depends on a role is met by some *)
(* user.  What remains is every condition on the rows themselves.          *)
(***************************************************************************)
EXTENDS Naturals, FiniteSets

CONSTANTS
    Lines,      \* ids that lines of the plan may take
    Requests,   \* ids of the BUY_PLAN approval requests opened for the plan
    Prepays,    \* ids of prepayments; the request of a prepayment is its own
    NoLine      \* the NULL of Prepayment.buy_plan_line_id

ASSUME NoLineAssumption == NoLine \notin Lines

VARIABLES
    status,         \* BuyPlan.status
    so_status,      \* BuyPlan.so_status
    approved_at,    \* BuyPlan.approved_at is set
    is_stock_sale,  \* BuyPlan.is_stock_sale
    line_status,    \* BuyPlanLine.status by id, "none" while the id is unused
    po_number,      \* BuyPlanLine.po_number is set
    po_confirmed_at,\* BuyPlanLine.po_confirmed_at is set
    received_at,    \* BuyPlanLine.received_at is set
    gate,           \* ApprovalRequest.status of the plan's own requests
    pp_status,      \* Prepayment.status
    pp_request,     \* ApprovalRequest.status of the prepayment's request
    pp_line,        \* Prepayment.buy_plan_line_id
    pay_token,      \* Prepayment.pay_token is set
    wired           \* history: the prepayment was marked paid at some time

planVars == <<status, so_status, approved_at, is_stock_sale>>
lineVars == <<line_status, po_number, po_confirmed_at, received_at>>
ppVars   == <<pp_status, pp_request, pp_line, pay_token, wired>>
vars     == <<planVars, lineVars, gate, ppVars>>

-----------------------------------------------------------------------------
(* The values of the columns. *)

PlanStatus == {"draft", "pending", "active", "halted", "completed", "cancelled"}
SOStatus   == {"pending", "approved", "rejected"}
LineStatus == {"none", "awaiting_po", "pending_verify", "verified",
               "issue", "cancelled", "resourcing"}
RequestStatus == {"none", "requested", "approved", "rejected", "cancelled"}
PrepayStatus  == {"none", "requested", "approved", "paid", "void"}

\* Statuses with no further work on the line, for completion.
Terminal == {"verified", "cancelled"}
\* Plans whose lines nobody may edit.
Locked == {"completed", "cancelled"}
\* Plans a new prepayment is refused on.
PrepaymentBlocked == {"completed", "cancelled", "halted"}

TypeOK ==
    /\ status \in PlanStatus
    /\ so_status \in SOStatus
    /\ approved_at \in BOOLEAN
    /\ is_stock_sale \in BOOLEAN
    /\ line_status \in [Lines -> LineStatus]
    /\ po_number \in [Lines -> BOOLEAN]
    /\ po_confirmed_at \in [Lines -> BOOLEAN]
    /\ received_at \in [Lines -> BOOLEAN]
    /\ gate \in [Requests -> RequestStatus]
    /\ pp_status \in [Prepays -> PrepayStatus]
    /\ pp_request \in [Prepays -> RequestStatus]
    /\ pp_line \in [Prepays -> Lines \cup {NoLine}]
    /\ pay_token \in [Prepays -> BOOLEAN]
    /\ wired \in [Prepays -> BOOLEAN]

\* A built plan is a draft whose lines all await their purchase order; the
\* lite path creates it with no line at all.
Init ==
    /\ status = "draft"
    /\ so_status = "pending"
    /\ approved_at = FALSE
    /\ is_stock_sale \in BOOLEAN
    /\ line_status \in [Lines -> {"none", "awaiting_po"}]
    /\ po_number = [l \in Lines |-> FALSE]
    /\ po_confirmed_at = [l \in Lines |-> FALSE]
    /\ received_at = [l \in Lines |-> FALSE]
    /\ gate = [r \in Requests |-> "none"]
    /\ pp_status = [p \in Prepays |-> "none"]
    /\ pp_request = [p \in Prepays |-> "none"]
    /\ pp_line = [p \in Prepays |-> NoLine]
    /\ pay_token = [p \in Prepays |-> FALSE]
    /\ wired = [p \in Prepays |-> FALSE]

-----------------------------------------------------------------------------
(* Helpers the handlers share. *)

\* The function f with every element of S sent to v.
SetAll(f, S, v) == [x \in DOMAIN f |-> IF x \in S THEN v ELSE f[x]]

Present(ls) == {l \in Lines : ls[l] # "none"}

\* BuyPlanLine.has_cut_po
HasCutPO(l) == po_confirmed_at[l] \/ line_status[l] # "awaiting_po"

\* The rows a line reset to "no purchase order" leaves behind.
ClearPO(S) ==
    /\ po_number' = SetAll(po_number, S, FALSE)
    /\ po_confirmed_at' = SetAll(po_confirmed_at, S, FALSE)

OpenGate == {r \in Requests : gate[r] = "requested"}

\* Mutant: nothing closes the gate when the plan leaves PENDING.
GateLeftOpen == gate

\* The plan's request rows once its open ones are cancelled.
GateClosed == SetAll(gate, OpenGate, "cancelled")

\* Mutant: the sweep before it learnt to void authorised wires.
CancelRequestedOnly(S) ==
    /\ pp_request' = SetAll(pp_request, {p \in S : pp_request[p] = "requested"},
                            "cancelled")
    /\ UNCHANGED <<pp_status, pay_token>>

\* Mutant: the link of a voided wire stays live.
VoidKeepingToken(S) ==
    /\ pp_request' = SetAll(pp_request, {p \in S : pp_request[p] = "requested"},
                            "cancelled")
    /\ pp_status' = SetAll(pp_status, {p \in S : pp_status[p] = "approved"}, "void")
    /\ UNCHANGED pay_token

\* Mutant: the sweep claws back wires that went out.
VoidPaidToo(S) ==
    LET dead == {p \in S : pp_status[p] \in {"approved", "paid"}}
    IN  /\ pp_request' = SetAll(pp_request, {p \in S : pp_request[p] = "requested"},
                                "cancelled")
        /\ pp_status' = SetAll(pp_status, dead, "void")
        /\ pay_token' = SetAll(pay_token, dead, FALSE)

\* The teardown sweep over the prepayments in S: requests still open are
\* cancelled, authorised wires that have not gone out are voided.
VoidUnwired(S) ==
    LET approved == {p \in S : pp_status[p] = "approved"}
    IN  /\ pp_request' = SetAll(pp_request, {p \in S : pp_request[p] = "requested"},
                                "cancelled")
        /\ pp_status' = SetAll(pp_status, approved, "void")
        /\ pay_token' = SetAll(pay_token, approved, FALSE)

\* No completion while the PO decision of a line is open.
HasOpenPOGate(ls) == \E l \in Lines : ls[l] = "pending_verify"

\* _complete_plan: refuses while a PO decision is open, else tears down the
\* open requests and wires and completes.  ls is what the lines become.
CompletePlan(ls) ==
    IF HasOpenPOGate(ls)
    THEN UNCHANGED <<status, gate, pp_status, pp_request, pay_token>>
    ELSE /\ gate' = GateClosed
         /\ VoidUnwired(Prepays)
         /\ status' = "completed"

AllTerminal(ls) ==
    /\ Present(ls) # {}
    /\ \A l \in Present(ls) : ls[l] \in Terminal

\* Mutant: completion no longer asks for the sales-order sign-off.
CompleteUnsigned(ls) ==
    IF status = "active" /\ AllTerminal(ls)
    THEN CompletePlan(ls)
    ELSE UNCHANGED <<status, gate, pp_status, pp_request, pay_token>>

\* Mutant: the handler that closes the last line forgets the check.
NoCompletionCheck(ls) ==
    UNCHANGED <<status, gate, pp_status, pp_request, pay_token>>

\* check_completion, called by every handler that may close the last line.
CheckCompletion(ls) ==
    IF status = "active" /\ AllTerminal(ls) /\ so_status = "approved"
    THEN CompletePlan(ls)
    ELSE UNCHANGED <<status, gate, pp_status, pp_request, pay_token>>

\* A deleted line takes its id out of the prepayments raised on it
\* (ON DELETE SET NULL).
Unlink(S) ==
    pp_line' = [p \in Prepays |-> IF pp_line[p] \in S THEN NoLine ELSE pp_line[p]]

-----------------------------------------------------------------------------
(* Submission and the manager's decision. *)

\* Entering PENDING: open requests are cancelled, then one is routed under a
\* fresh id.  When nobody holds the approval right the row is removed again
\* and the plan waits in PENDING without a request.
OpenEngineRequest ==
    \/ \E r \in Requests : /\ gate[r] = "none"
                           /\ gate' = [GateClosed EXCEPT ![r] = "requested"]
    \/ gate' = GateClosed

Submit ==
    /\ status = "draft"
    /\ status' = "pending"
    /\ approved_at' = FALSE
    /\ is_stock_sale' \in BOOLEAN
    /\ OpenEngineRequest
    /\ UNCHANGED <<so_status, lineVars, ppVars>>

ResubmitPlan ==
    /\ status = "draft"
    /\ status' = "pending"
    /\ so_status' = "pending"
    /\ approved_at' = FALSE
    /\ OpenEngineRequest
    /\ UNCHANGED <<is_stock_sale, lineVars, ppVars>>

\* Mutant: the plan's new status is written to both status columns.
ApproveBothColumns ==
    /\ status = "pending"
    /\ status' = "active"
    /\ so_status' = status'
    /\ approved_at' = TRUE

ApproveEffects ==
    /\ status = "pending"
    /\ status' = "active"
    /\ so_status' = "approved"
    /\ approved_at' = TRUE

RejectEffects ==
    /\ status = "pending"
    /\ status' = "draft"
    /\ approved_at' = TRUE
    /\ UNCHANGED so_status

\* decide() on an open BUY_PLAN request, from the plan page or the JSON
\* route.  A plan that is no longer pending makes the side effect raise and
\* the whole decision rolls back.
DecidePlan(r) ==
    /\ gate[r] = "requested"
    /\ \/ ApproveEffects /\ gate' = [gate EXCEPT ![r] = "approved"]
       \/ RejectEffects  /\ gate' = [gate EXCEPT ![r] = "rejected"]
    /\ UNCHANGED <<is_stock_sale, lineVars, ppVars>>

\* The plan page with no open request: the legacy approve_buy_plan.
DecidePlanLegacy ==
    /\ OpenGate = {}
    /\ ApproveEffects \/ RejectEffects
    /\ UNCHANGED <<is_stock_sale, lineVars, gate, ppVars>>

\* The requester or a manager withdraws the request; the plan row is not
\* looked at.
CancelPlanRequest(r) ==
    /\ gate[r] = "requested"
    /\ gate' = [gate EXCEPT ![r] = "cancelled"]
    /\ UNCHANGED <<planVars, lineVars, ppVars>>

-----------------------------------------------------------------------------
(* Leaving and re-entering flight. *)

Halt ==
    /\ status \in {"pending", "active"}
    /\ gate' = GateClosed
    /\ VoidUnwired(Prepays)
    /\ so_status' = "rejected"
    /\ status' = "halted"
    /\ UNCHANGED <<approved_at, is_stock_sale, lineVars, pp_line, wired>>

Resume ==
    /\ status = "halted"
    /\ status' = "active"
    /\ UNCHANGED <<so_status, approved_at, is_stock_sale, lineVars, gate, ppVars>>

ResetToDraft ==
    /\ status \in {"halted", "cancelled"}
    /\ status' = "draft"
    /\ so_status' = "pending"
    /\ approved_at' = FALSE
    /\ UNCHANGED <<is_stock_sale, lineVars, gate, ppVars>>

\* Mutant: only lines without a purchase order go down with the plan.
CancelledIfUncut == {l \in Lines : line_status[l] = "awaiting_po"}

\* The lines a cancelled plan takes down with it.
CancelledWithPlan ==
    {l \in Lines : line_status[l] \in {"awaiting_po", "pending_verify"}}

CancelPlan ==
    /\ status \notin Locked
    /\ gate' = GateClosed
    /\ VoidUnwired(Prepays)
    /\ status' = "cancelled"
    /\ line_status' = SetAll(line_status, CancelledWithPlan, "cancelled")
    /\ UNCHANGED <<so_status, approved_at, is_stock_sale,
                   po_number, po_confirmed_at, received_at, pp_line, wired>>

\* The hourly job on a stock sale approved over an hour ago: completes it
\* whatever its lines are, short of an open PO decision.
StockAutocomplete ==
    /\ is_stock_sale
    /\ status = "active"
    /\ approved_at
    /\ ~HasOpenPOGate(line_status)
    /\ CompletePlan(line_status)
    /\ UNCHANGED <<so_status, approved_at, is_stock_sale, lineVars, pp_line, wired>>

\* The completion sweep of application startup.
StartupSweep ==
    /\ status = "active"
    /\ so_status = "approved"
    /\ AllTerminal(line_status)
    /\ CheckCompletion(line_status)
    /\ UNCHANGED <<so_status, approved_at, is_stock_sale, lineVars, pp_line, wired>>

-----------------------------------------------------------------------------
(* The purchase-order lines. *)

ConfirmPO(l) ==
    /\ status = "active"
    /\ line_status[l] = "awaiting_po"
    /\ line_status' = [line_status EXCEPT ![l] = "pending_verify"]
    /\ po_number' = [po_number EXCEPT ![l] = TRUE]
    /\ po_confirmed_at' = [po_confirmed_at EXCEPT ![l] = TRUE]
    /\ UNCHANGED <<planVars, received_at, gate, ppVars>>

\* verify_po reads the plan only through check_completion.
ApprovePO(l) ==
    /\ line_status[l] = "pending_verify"
    /\ line_status' = [line_status EXCEPT ![l] = "verified"]
    /\ CheckCompletion(line_status')
    /\ UNCHANGED <<so_status, approved_at, is_stock_sale,
                   po_number, po_confirmed_at, received_at, pp_line, wired>>

RejectPO(l) ==
    /\ line_status[l] = "pending_verify"
    /\ line_status' = [line_status EXCEPT ![l] = "awaiting_po"]
    /\ ClearPO({l})
    /\ UNCHANGED <<planVars, received_at, gate, ppVars>>

\* A manager may enter or blank the PO number while the PO awaits its
\* sign-off.
EditPONumber(l) ==
    /\ status \notin Locked
    /\ line_status[l] = "pending_verify"
    /\ po_number' = [po_number EXCEPT ![l] = ~@]
    /\ UNCHANGED <<planVars, line_status, po_confirmed_at, received_at, gate, ppVars>>

FlagIssue(l) ==
    /\ status = "active"
    /\ line_status[l] \in {"awaiting_po", "pending_verify"}
    /\ line_status' = [line_status EXCEPT ![l] = "issue"]
    /\ UNCHANGED <<planVars, po_number, po_confirmed_at, received_at, gate, ppVars>>

\* Mutant: the PO of the flagged line survives the resolution.
ResolveIssueKeepingPO(l) ==
    /\ status = "active"
    /\ line_status[l] = "issue"
    /\ line_status' = [line_status EXCEPT ![l] = "awaiting_po"]
    /\ UNCHANGED <<planVars, po_number, po_confirmed_at, received_at, gate, ppVars>>

ResolveIssue(l) ==
    /\ status = "active"
    /\ line_status[l] = "issue"
    /\ line_status' = [line_status EXCEPT ![l] = "awaiting_po"]
    /\ ClearPO({l})
    /\ UNCHANGED <<planVars, received_at, gate, ppVars>>

\* Mutant: the sweep of a re-sourcing takes the whole plan.
PrepaysOfPlan(T) == Prepays

\* The prepayments the sweep of a re-sourcing is narrowed to.
PrepaysOn(T) == {p \in Prepays : pp_line[p] \in T}

\* The vendor fell down on the lines T: back to the claim pool, their
\* pending and unwired prepayments die, a completed plan reopens.
Resource(T) ==
    /\ status \in {"active", "completed"}
    /\ T # {}
    /\ \A l \in T : line_status[l] \in {"pending_verify", "verified"}
    /\ line_status' = SetAll(line_status, T, "resourcing")
    /\ ClearPO(T)
    /\ VoidUnwired(PrepaysOn(T))
    /\ status' = "active"
    /\ UNCHANGED <<so_status, approved_at, is_stock_sale, received_at, gate,
                   pp_line, wired>>

\* First to claim wins: the guarded UPDATE tests the line only.
Claim(l) ==
    /\ line_status[l] = "resourcing"
    /\ line_status' = [line_status EXCEPT ![l] = "awaiting_po"]
    /\ UNCHANGED <<planVars, po_number, po_confirmed_at, received_at, gate, ppVars>>

\* Goods arrived on a verified line, or on one whose wire went out.
MarkReceived(l) ==
    /\ ~received_at[l]
    /\ line_status[l] \notin {"none", "cancelled"}
    /\ \/ line_status[l] = "verified"
       \/ \E p \in Prepays : pp_line[p] = l /\ pp_status[p] = "paid"
    /\ received_at' = [received_at EXCEPT ![l] = TRUE]
    /\ UNCHANGED <<planVars, line_status, po_number, po_confirmed_at, gate, ppVars>>

\* Adding a line neither reads nor runs completion.
AddLine(l) ==
    /\ status \notin Locked
    /\ line_status[l] = "none"
    /\ line_status' = [line_status EXCEPT ![l] = "awaiting_po"]
    /\ UNCHANGED <<planVars, po_number, po_confirmed_at, received_at, gate, ppVars>>

\* The whole-plan editor: lines A added, lines D dropped by omission.  The
\* removal of one line is the case of no addition and one drop.
SaveLines(A, D) ==
    /\ status \notin Locked
    /\ \A l \in A : line_status[l] = "none"
    /\ \A l \in D : line_status[l] # "none" /\ ~HasCutPO(l)
    /\ line_status' = [l \in Lines |-> IF l \in A THEN "awaiting_po"
                                       ELSE IF l \in D THEN "none"
                                       ELSE line_status[l]]
    /\ received_at' = SetAll(received_at, D, FALSE)
    /\ ClearPO(D)
    /\ Unlink(D)
    /\ CheckCompletion(line_status')
    /\ UNCHANGED <<so_status, approved_at, is_stock_sale, wired>>

-----------------------------------------------------------------------------
(* Prepayments. *)

\* Mutant: the guard that let an approved wire be requested again.
BlocksWhileRequested(p) == pp_request[p] = "requested"

\* The duplicate guard reads the request of a prepayment, not its status.
BlocksDuplicate(p) == pp_request[p] \in {"requested", "approved"}

CreatePrepayment(p, l) ==
    /\ pp_status[p] = "none"
    /\ status \notin PrepaymentBlocked
    /\ po_number[l]
    /\ line_status[l] \in {"pending_verify", "verified"}
    /\ ~ \E q \in Prepays : pp_line[q] = l /\ BlocksDuplicate(q)
    /\ pp_status' = [pp_status EXCEPT ![p] = "requested"]
    /\ pp_request' = [pp_request EXCEPT ![p] = "requested"]
    /\ pp_line' = [pp_line EXCEPT ![p] = l]
    /\ UNCHANGED <<planVars, lineVars, gate, pay_token, wired>>

\* The inline decision: decide() commits, then the same handler stamps the
\* prepayment and mints the token of the OK-TO-WIRE mail.
DecidePrepayment(p) ==
    /\ pp_request[p] = "requested"
    /\ \/ /\ pp_request' = [pp_request EXCEPT ![p] = "approved"]
          /\ pp_status' = [pp_status EXCEPT ![p] = "approved"]
          /\ pay_token' = [pay_token EXCEPT ![p] = TRUE]
       \/ /\ pp_request' = [pp_request EXCEPT ![p] = "rejected"]
          /\ pp_status' = [pp_status EXCEPT ![p] = "void"]
          /\ UNCHANGED pay_token
    /\ UNCHANGED <<planVars, lineVars, gate, pp_line, wired>>

\* The JSON decision route ends with decide(), which has no dispatch for a
\* prepayment; the inline handler cut off between its two commits leaves the
\* same rows.  The JSON cancel route closes the request the same way.
SettlePrepayRequestOnly(p) ==
    /\ pp_request[p] = "requested"
    /\ \E outcome \in {"approved", "rejected", "cancelled"} :
          pp_request' = [pp_request EXCEPT ![p] = outcome]
    /\ UNCHANGED <<planVars, lineVars, gate, pp_status, pp_line, pay_token, wired>>

\* The tokenised accounting link, which only resolves while a token is set,
\* or the in-app fallback: mark_prepayment_paid tests the status in both.
MarkPaid(p) ==
    /\ pp_status[p] = "approved"
    /\ pp_status' = [pp_status EXCEPT ![p] = "paid"]
    /\ pay_token' = [pay_token EXCEPT ![p] = FALSE]
    /\ wired' = [wired EXCEPT ![p] = TRUE]
    /\ UNCHANGED <<planVars, lineVars, gate, pp_request, pp_line>>

\* A manager reverses a mis-click; the plan is not looked at.
UnmarkPaid(p) ==
    /\ pp_status[p] = "paid"
    /\ pp_status' = [pp_status EXCEPT ![p] = "approved"]
    /\ pay_token' = [pay_token EXCEPT ![p] = TRUE]
    /\ UNCHANGED <<planVars, lineVars, gate, pp_request, pp_line, wired>>

-----------------------------------------------------------------------------
PlanNext ==
    \/ Submit \/ ResubmitPlan \/ DecidePlanLegacy
    \/ \E r \in Requests : DecidePlan(r) \/ CancelPlanRequest(r)
    \/ Halt \/ Resume \/ ResetToDraft \/ CancelPlan
    \/ StockAutocomplete \/ StartupSweep

LineNext ==
    \/ \E l \in Lines :
          \/ ConfirmPO(l) \/ ApprovePO(l) \/ RejectPO(l) \/ EditPONumber(l)
          \/ FlagIssue(l) \/ ResolveIssue(l) \/ Claim(l) \/ MarkReceived(l)
          \/ AddLine(l)
    \/ \E T \in SUBSET Lines : Resource(T)
    \/ \E A, D \in SUBSET Lines : SaveLines(A, D)

PrepayNext ==
    \E p \in Prepays :
       \/ \E l \in Lines : CreatePrepayment(p, l)
       \/ DecidePrepayment(p) \/ SettlePrepayRequestOnly(p)
       \/ MarkPaid(p) \/ UnmarkPaid(p)

Next == PlanNext \/ LineNext \/ PrepayNext

Spec == Init /\ [][Next]_vars

-----------------------------------------------------------------------------
(* Properties that hold. *)

\* At most one manager-approval request is open, and only for a plan that is
\* pending: no stale request can be pulled from the queue to resurrect a
\* halted, cancelled or completed plan (_open_engine_request_for_plan and
\* the closing of the gate in halt, cancel and completion).
OneOpenGate ==
    /\ \A r \in OpenGate : status = "pending"
    /\ \A r1, r2 \in OpenGate : r1 = r2

\* Halting, cancelling or completing a plan leaves no wire behind that could
\* still be approved, and none authorised unless it had gone out before:
\* every path out of a payable state runs the teardown sweep.
NoUnsentWireOnDeadPlan ==
    status \in PrepaymentBlocked =>
        \A p \in Prepays : /\ pp_request[p] # "requested"
                           /\ pp_status[p] = "approved" => wired[p]

\* A purchase-order line never has two prepayments that are authorised or
\* paid: create_prepayment's guard reads the requests, the money follows the
\* prepayments, and every way one changes must keep the other in step.
NoDoublePayment ==
    \A p, q \in Prepays :
        /\ pp_line[p] = pp_line[q] /\ pp_line[p] # NoLine
        /\ pp_status[p] \in {"approved", "paid"}
        /\ pp_status[q] \in {"approved", "paid"}
        => p = q

\* The link that records a wire works exactly while the wire is authorised
\* and not out, and nothing is authorised or paid without an approver's yes.
TokenFollowsAuthorisation ==
    \A p \in Prepays :
        /\ pay_token[p] <=> pp_status[p] = "approved"
        /\ pp_status[p] \in {"approved", "paid"} => pp_request[p] = "approved"

\* No plan ends past an undecided purchase order: completion refuses it,
\* cancellation takes it down, and no PO is cut on an ended plan.
NoUndecidedPOOnEndedPlan ==
    status \in Locked => ~HasOpenPOGate(line_status)

\* A completed deal that is no stock sale has lines, all verified or
\* cancelled, and carries the manager's sign-off, whatever it went through
\* (halts, resumes, re-sourcing, line edits) on the way.
CompletedDealIsClosed ==
    status = "completed" /\ ~is_stock_sale =>
        /\ AllTerminal(line_status)
        /\ so_status = "approved"
        /\ approved_at

\* A line waiting for its PO, in the pool or deleted carries nothing of an
\* earlier PO: has_cut_po, which guards edits and removal, is then false on
\* every line a buyer has to act on.
AwaitingLineIsClean ==
    \A l \in Lines :
        line_status[l] \in {"none", "awaiting_po", "resourcing"} =>
            ~po_number[l] /\ ~po_confirmed_at[l]

\* A wire that went out is never voided: only the manager's reversal takes a
\* prepayment out of PAID, and back to APPROVED.
PaidIsNeverVoided ==
    [][\A p \in Prepays :
          pp_status[p] = "paid" => pp_status'[p] \in {"paid", "approved"}]_vars

\* The step that makes the last line of a signed-off active plan terminal
\* also ends the plan: neither a PO sign-off nor a removal strands it.
LastLineEndsPlan ==
    [][/\ status = "active" /\ so_status = "approved"
       /\ ~AllTerminal(line_status) /\ AllTerminal(line_status')
       => status' # "active"]_vars

\* An authorised wire is stood down only when its plan dies or its own line
\* is re-sourced: re-sourcing a sibling leaves it alone.
VoidedForCause ==
    [][\A p \in Prepays :
          pp_status[p] = "approved" /\ pp_status'[p] = "void" =>
              \/ status' \in PrepaymentBlocked
              \/ /\ pp_line[p] \in Lines
                 /\ line_status'[pp_line[p]] = "resourcing"]_vars

\* To whoever sends the wires a plan with its lines, its requests and the
\* prepayments' own requests is a WireLedger: twenty-five handlers write the
\* four tables, and none lets a wire live on past its line or its plan.  A
\* request settled without its prepayment leaves a wire that is off.
WireState(p) ==
    CASE pp_status[p] = "none" -> "none"
      [] pp_status[p] = "approved" -> "authorised"
      [] pp_status[p] = "paid" -> "out"
      [] OTHER -> IF pp_request[p] = "requested" THEN "asked" ELSE "off"
wire == [p \in Prepays |-> WireState(p)]
Ledger == INSTANCE WireLedger WITH
    Wires <- Prepays, payee <- pp_line, dead <- status \in PrepaymentBlocked
ImplementsLedger == Ledger!Spec

-----------------------------------------------------------------------------
(* Properties the documentation states and the code does not keep. *)

\* The sweep is there "so no dangling wire authorisation survives the plan".
\* Reversing a recorded payment does not look at the plan.
NoAuthorisedWireOnDeadPlan ==
    status \in PrepaymentBlocked =>
        \A p \in Prepays : pp_status[p] # "approved"

\* "Every plan routes to the single manager approval": an active plan has
\* been approved.  Resuming a plan halted while pending skips it.
ActiveWasApproved == status = "active" => approved_at

\* A voided prepayment leaves its line "treated as having no prepayment",
\* "letting a fresh request be raised".  The duplicate guard still sees the
\* approved request of the voided prepayment.
VoidReopensLine ==
    \A l \in Lines :
        (\A p \in Prepays : pp_line[p] = l => pp_status[p] \in {"none", "void"})
        => ~ \E p \in Prepays : pp_line[p] = l /\ BlocksDuplicate(p)
=============================================================================
