---------------------------- MODULE BuyPlanProofs ----------------------------
(***************************************************************************)
(* Theorems about BuyPlan for every set of lines, requests and             *)
(* prepayments.  The order is: what the shared helpers keep, type          *)
(* correctness, the approval gate, the money invariants.                   *)
(***************************************************************************)
EXTENDS BuyPlan, TLAPS

-----------------------------------------------------------------------------
(* What the helpers return and preserve. *)

\* Overwriting part of a function with a value of its range keeps its type.
LEMMA SetAllType ==
    ASSUME NEW D, NEW V, NEW f \in [D -> V], NEW S, NEW v \in V
    PROVE  SetAll(f, S, v) \in [D -> V]
  BY DEF SetAll

\* What overwriting does to one element.
LEMMA SetAllAt ==
    ASSUME NEW f, NEW S, NEW v, NEW x \in DOMAIN f
    PROVE  SetAll(f, S, v)[x] = IF x \in S THEN v ELSE f[x]
  BY DEF SetAll

\* Closing the gate keeps the types of the requests and leaves none open.
LEMMA GateClosedType ==
    ASSUME TypeOK
    PROVE  /\ GateClosed \in [Requests -> RequestStatus]
           /\ \A r \in Requests : GateClosed[r] # "requested"
  BY DEF TypeOK, GateClosed, OpenGate, SetAll, RequestStatus

\* The teardown sweep keeps the types of the columns it writes.
LEMMA VoidUnwiredType ==
    ASSUME TypeOK, NEW S, VoidUnwired(S)
    PROVE  /\ pp_status' \in [Prepays -> PrepayStatus]
           /\ pp_request' \in [Prepays -> RequestStatus]
           /\ pay_token' \in [Prepays -> BOOLEAN]
  BY DEF TypeOK, VoidUnwired, SetAll, PrepayStatus, RequestStatus

\* So does completion, whichever way it goes.
LEMMA CompletePlanType ==
    ASSUME TypeOK, NEW ls, CompletePlan(ls)
    PROVE  /\ status' \in PlanStatus
           /\ gate' \in [Requests -> RequestStatus]
           /\ pp_status' \in [Prepays -> PrepayStatus]
           /\ pp_request' \in [Prepays -> RequestStatus]
           /\ pay_token' \in [Prepays -> BOOLEAN]
  <1>1. CASE HasOpenPOGate(ls)
    BY <1>1 DEF CompletePlan, TypeOK
  <1>2. CASE ~HasOpenPOGate(ls)
    <2>1. gate' = GateClosed /\ VoidUnwired(Prepays) /\ status' = "completed"
      BY <1>2 DEF CompletePlan
    <2> QED
      BY <2>1, GateClosedType, VoidUnwiredType DEF PlanStatus
  <1> QED
    BY <1>1, <1>2

\* check_completion keeps the types of what completion writes.
LEMMA CheckCompletionType ==
    ASSUME TypeOK, NEW ls, CheckCompletion(ls)
    PROVE  /\ status' \in PlanStatus
           /\ gate' \in [Requests -> RequestStatus]
           /\ pp_status' \in [Prepays -> PrepayStatus]
           /\ pp_request' \in [Prepays -> RequestStatus]
           /\ pay_token' \in [Prepays -> BOOLEAN]
  BY CompletePlanType DEF CheckCompletion, TypeOK

-----------------------------------------------------------------------------
(* Type correctness. *)

\* The columns of a built plan have their types.
LEMMA TypeInitial == Init => TypeOK
  <1> SUFFICES ASSUME Init PROVE TypeOK
    OBVIOUS
  <1>1. line_status \in [Lines -> LineStatus]
    BY DEF Init, LineStatus
  <1>2. /\ status \in PlanStatus /\ so_status \in SOStatus
        /\ approved_at \in BOOLEAN /\ is_stock_sale \in BOOLEAN
    BY DEF Init, PlanStatus, SOStatus
  <1>3. /\ po_number \in [Lines -> BOOLEAN]
        /\ po_confirmed_at \in [Lines -> BOOLEAN]
        /\ received_at \in [Lines -> BOOLEAN]
    BY DEF Init
  <1>4. /\ gate \in [Requests -> RequestStatus]
        /\ pp_status \in [Prepays -> PrepayStatus]
        /\ pp_request \in [Prepays -> RequestStatus]
        /\ pp_line \in [Prepays -> Lines \cup {NoLine}]
        /\ pay_token \in [Prepays -> BOOLEAN]
        /\ wired \in [Prepays -> BOOLEAN]
    BY DEF Init, RequestStatus, PrepayStatus
  <1> QED
    BY <1>1, <1>2, <1>3, <1>4 DEF TypeOK

\* Every handler keeps the types.
LEMMA TypeStep == TypeOK /\ [Next]_vars => TypeOK'
  <1> SUFFICES ASSUME TypeOK, [Next]_vars PROVE TypeOK'
    OBVIOUS
  <1> USE DEF planVars, lineVars, ppVars, TypeOK, PlanStatus, SOStatus,
              LineStatus, RequestStatus, PrepayStatus
  <1>1. CASE Submit
    BY <1>1, GateClosedType DEF Submit, OpenEngineRequest
  <1>2. CASE ResubmitPlan
    BY <1>2, GateClosedType DEF ResubmitPlan, OpenEngineRequest
  <1>3. CASE DecidePlanLegacy
    BY <1>3 DEF DecidePlanLegacy, ApproveEffects, RejectEffects
  <1>4. ASSUME NEW r \in Requests, DecidePlan(r) PROVE TypeOK'
    BY <1>4 DEF DecidePlan, ApproveEffects, RejectEffects
  <1>5. ASSUME NEW r \in Requests, CancelPlanRequest(r) PROVE TypeOK'
    BY <1>5 DEF CancelPlanRequest
  <1>6. CASE Halt
    BY <1>6, GateClosedType, VoidUnwiredType DEF Halt
  <1>7. CASE Resume
    BY <1>7 DEF Resume
  <1>8. CASE ResetToDraft
    BY <1>8 DEF ResetToDraft
  <1>9. CASE CancelPlan
    BY <1>9, GateClosedType, VoidUnwiredType DEF CancelPlan, SetAll
  <1>10. CASE StockAutocomplete
    BY <1>10, CompletePlanType DEF StockAutocomplete
  <1>11. CASE StartupSweep
    BY <1>11, CheckCompletionType DEF StartupSweep
  <1>12. ASSUME NEW l \in Lines, ConfirmPO(l) PROVE TypeOK'
    BY <1>12 DEF ConfirmPO
  <1>13. ASSUME NEW l \in Lines, ApprovePO(l) PROVE TypeOK'
    BY <1>13, CheckCompletionType DEF ApprovePO
  <1>14. ASSUME NEW l \in Lines, RejectPO(l) PROVE TypeOK'
    BY <1>14 DEF RejectPO, ClearPO, SetAll
  <1>15. ASSUME NEW l \in Lines, EditPONumber(l) PROVE TypeOK'
    BY <1>15 DEF EditPONumber
  <1>16. ASSUME NEW l \in Lines, FlagIssue(l) PROVE TypeOK'
    BY <1>16 DEF FlagIssue
  <1>17. ASSUME NEW l \in Lines, ResolveIssue(l) PROVE TypeOK'
    BY <1>17 DEF ResolveIssue, ClearPO, SetAll
  <1>18. ASSUME NEW T \in SUBSET Lines, Resource(T) PROVE TypeOK'
    BY <1>18, VoidUnwiredType DEF Resource, ClearPO, SetAll
  <1>19. ASSUME NEW l \in Lines, Claim(l) PROVE TypeOK'
    BY <1>19 DEF Claim
  <1>20. ASSUME NEW l \in Lines, MarkReceived(l) PROVE TypeOK'
    BY <1>20 DEF MarkReceived
  <1>21. ASSUME NEW l \in Lines, AddLine(l) PROVE TypeOK'
    BY <1>21 DEF AddLine
  <1>22. ASSUME NEW A \in SUBSET Lines, NEW D \in SUBSET Lines, SaveLines(A, D)
         PROVE TypeOK'
    BY <1>22, CheckCompletionType DEF SaveLines, ClearPO, Unlink, SetAll
  <1>23. ASSUME NEW p \in Prepays, NEW l \in Lines, CreatePrepayment(p, l)
         PROVE TypeOK'
    BY <1>23 DEF CreatePrepayment
  <1>24. ASSUME NEW p \in Prepays, DecidePrepayment(p) PROVE TypeOK'
    BY <1>24 DEF DecidePrepayment
  <1>25. ASSUME NEW p \in Prepays, SettlePrepayRequestOnly(p) PROVE TypeOK'
    BY <1>25 DEF SettlePrepayRequestOnly
  <1>26. ASSUME NEW p \in Prepays, MarkPaid(p) PROVE TypeOK'
    BY <1>26 DEF MarkPaid
  <1>27. ASSUME NEW p \in Prepays, UnmarkPaid(p) PROVE TypeOK'
    BY <1>27 DEF UnmarkPaid
  <1>28. CASE UNCHANGED vars
    BY <1>28 DEF vars, TypeOK
  <1> QED
    BY <1>1, <1>2, <1>3, <1>4, <1>5, <1>6, <1>7, <1>8, <1>9, <1>10,
       <1>11, <1>12, <1>13, <1>14, <1>15, <1>16, <1>17, <1>18, <1>19, <1>20,
       <1>21, <1>22, <1>23, <1>24, <1>25, <1>26, <1>27, <1>28
       DEF Next, PlanNext, LineNext, PrepayNext

\* Every column of the plan, its lines, its requests and its prepayments
\* keeps the values of its type, through every handler.
THEOREM TypeCorrect == Spec => []TypeOK
  <1> QED
    BY TypeInitial, TypeStep, PTL DEF Spec

-----------------------------------------------------------------------------
(* The approval gate. *)

\* The two ways a completion check ends: nothing happens, or the signed-off
\* active plan completes with its gate closed and its wires torn down.
LEMMA CompletionCases ==
    ASSUME NEW ls, CheckCompletion(ls)
    PROVE  \/ UNCHANGED <<status, gate, pp_status, pp_request, pay_token>>
           \/ /\ status = "active" /\ so_status = "approved" /\ AllTerminal(ls)
              /\ ~HasOpenPOGate(ls)
              /\ status' = "completed" /\ gate' = GateClosed /\ VoidUnwired(Prepays)
  BY DEF CheckCompletion, CompletePlan

\* No request is open on a draft.
LEMMA GateInitial == Init => OneOpenGate
  BY DEF Init, OneOpenGate, OpenGate

\* A request opens only when the plan enters PENDING, after every open one is
\* cancelled; every way out of PENDING decides it or closes it.
LEMMA GateStep == TypeOK /\ OneOpenGate /\ [Next]_vars => OneOpenGate'
  <1> SUFFICES ASSUME TypeOK, OneOpenGate, [Next]_vars PROVE OneOpenGate'
    OBVIOUS
  <1> USE DEF planVars, lineVars, ppVars, TypeOK, OneOpenGate, OpenGate
  <1>1. CASE Submit
    BY <1>1, GateClosedType DEF Submit, OpenEngineRequest
  <1>2. CASE ResubmitPlan
    BY <1>2, GateClosedType DEF ResubmitPlan, OpenEngineRequest
  <1>3. CASE DecidePlanLegacy
    BY <1>3 DEF DecidePlanLegacy, ApproveEffects, RejectEffects
  <1>4. ASSUME NEW r \in Requests, DecidePlan(r) PROVE OneOpenGate'
    BY <1>4 DEF DecidePlan, ApproveEffects, RejectEffects
  <1>5. ASSUME NEW r \in Requests, CancelPlanRequest(r) PROVE OneOpenGate'
    BY <1>5 DEF CancelPlanRequest
  <1>6. CASE Halt
    BY <1>6, GateClosedType DEF Halt
  <1>7. CASE Resume
    BY <1>7 DEF Resume
  <1>8. CASE ResetToDraft
    BY <1>8 DEF ResetToDraft
  <1>9. CASE CancelPlan
    BY <1>9, GateClosedType DEF CancelPlan
  <1>10. CASE StockAutocomplete
    BY <1>10, GateClosedType DEF StockAutocomplete, CompletePlan
  <1>11. CASE StartupSweep
    BY <1>11, CompletionCases, GateClosedType DEF StartupSweep
  <1>12. ASSUME NEW l \in Lines, ConfirmPO(l) PROVE OneOpenGate'
    BY <1>12 DEF ConfirmPO
  <1>13. ASSUME NEW l \in Lines, ApprovePO(l) PROVE OneOpenGate'
    BY <1>13, CompletionCases, GateClosedType DEF ApprovePO
  <1>14. ASSUME NEW l \in Lines, RejectPO(l) PROVE OneOpenGate'
    BY <1>14 DEF RejectPO, ClearPO
  <1>15. ASSUME NEW l \in Lines, EditPONumber(l) PROVE OneOpenGate'
    BY <1>15 DEF EditPONumber
  <1>16. ASSUME NEW l \in Lines, FlagIssue(l) PROVE OneOpenGate'
    BY <1>16 DEF FlagIssue
  <1>17. ASSUME NEW l \in Lines, ResolveIssue(l) PROVE OneOpenGate'
    BY <1>17 DEF ResolveIssue, ClearPO
  <1>18. ASSUME NEW T \in SUBSET Lines, Resource(T) PROVE OneOpenGate'
    BY <1>18 DEF Resource, ClearPO
  <1>19. ASSUME NEW l \in Lines, Claim(l) PROVE OneOpenGate'
    BY <1>19 DEF Claim
  <1>20. ASSUME NEW l \in Lines, MarkReceived(l) PROVE OneOpenGate'
    BY <1>20 DEF MarkReceived
  <1>21. ASSUME NEW l \in Lines, AddLine(l) PROVE OneOpenGate'
    BY <1>21 DEF AddLine
  <1>22. ASSUME NEW A \in SUBSET Lines, NEW D \in SUBSET Lines, SaveLines(A, D)
         PROVE OneOpenGate'
    BY <1>22, CompletionCases, GateClosedType DEF SaveLines, ClearPO, Unlink
  <1>23. ASSUME NEW p \in Prepays, NEW l \in Lines, CreatePrepayment(p, l)
         PROVE OneOpenGate'
    BY <1>23 DEF CreatePrepayment
  <1>24. ASSUME NEW p \in Prepays, DecidePrepayment(p) PROVE OneOpenGate'
    BY <1>24 DEF DecidePrepayment
  <1>25. ASSUME NEW p \in Prepays, SettlePrepayRequestOnly(p) PROVE OneOpenGate'
    BY <1>25 DEF SettlePrepayRequestOnly
  <1>26. ASSUME NEW p \in Prepays, MarkPaid(p) PROVE OneOpenGate'
    BY <1>26 DEF MarkPaid
  <1>27. ASSUME NEW p \in Prepays, UnmarkPaid(p) PROVE OneOpenGate'
    BY <1>27 DEF UnmarkPaid
  <1>28. CASE UNCHANGED vars
    BY <1>28 DEF vars
  <1> QED
    BY <1>1, <1>2, <1>3, <1>4, <1>5, <1>6, <1>7, <1>8, <1>9, <1>10,
       <1>11, <1>12, <1>13, <1>14, <1>15, <1>16, <1>17, <1>18, <1>19,
       <1>20, <1>21, <1>22, <1>23, <1>24, <1>25, <1>26, <1>27, <1>28
       DEF Next, PlanNext, LineNext, PrepayNext

\* At most one open approval request, and only while the plan is pending.
THEOREM OneOpenGateAlways == Spec => []OneOpenGate
  <1> QED
    BY TypeCorrect, GateInitial, GateStep, PTL DEF Spec

-----------------------------------------------------------------------------
(* The money. *)

\* At most one prepayment of a line has a request the duplicate guard sees.
OneBlockingRequest ==
    \A p, q \in Prepays :
        pp_line[p] = pp_line[q] /\ pp_line[p] # NoLine
        /\ BlocksDuplicate(p) /\ BlocksDuplicate(q) => p = q

\* The inductive strengthening of the money properties: a double payment
\* needs two approved requests on a line, which needs the guard to have been
\* passed twice; and a paid prepayment remembers that its wire went out.
WireInv ==
    /\ TokenFollowsAuthorisation
    /\ OneBlockingRequest
    /\ NoUnsentWireOnDeadPlan
    /\ \A p \in Prepays : pp_status[p] = "paid" => wired[p]

\* What the teardown sweep does to each prepayment.
LEMMA SweepEffect ==
    ASSUME TypeOK, NEW S, VoidUnwired(S), NEW p \in Prepays
    PROVE  /\ pp_request'[p] = IF p \in S /\ pp_request[p] = "requested"
                               THEN "cancelled" ELSE pp_request[p]
           /\ pp_status'[p] = IF p \in S /\ pp_status[p] = "approved"
                              THEN "void" ELSE pp_status[p]
           /\ pay_token'[p] = IF p \in S /\ pp_status[p] = "approved"
                              THEN FALSE ELSE pay_token[p]
  BY DEF TypeOK, VoidUnwired, SetAll

\* A sweep over any prepayments keeps the properties that do not look at the
\* plan, and over all of them leaves nothing unsent.
LEMMA SweepKeepsWires ==
    ASSUME TypeOK, WireInv, NEW S, VoidUnwired(S), UNCHANGED wired,
           \A p \in Prepays : pp_line'[p] \in {pp_line[p], NoLine}
    PROVE  /\ TokenFollowsAuthorisation'
           /\ OneBlockingRequest'
           /\ \A p \in Prepays : pp_status'[p] = "paid" => wired'[p]
           /\ Prepays \subseteq S => NoUnsentWireOnDeadPlan'
  <1>1. TokenFollowsAuthorisation'
    BY SweepEffect DEF WireInv, TokenFollowsAuthorisation, TypeOK
  <1>2. \A p \in Prepays : BlocksDuplicate(p)' => BlocksDuplicate(p)
    BY SweepEffect DEF BlocksDuplicate
  <1>3. OneBlockingRequest'
    BY <1>2 DEF WireInv, OneBlockingRequest
  <1>4. \A p \in Prepays : pp_status'[p] = "paid" => wired'[p]
    BY SweepEffect DEF WireInv
  <1>5. ASSUME Prepays \subseteq S PROVE NoUnsentWireOnDeadPlan'
    BY <1>5, SweepEffect DEF NoUnsentWireOnDeadPlan
  <1> QED
    BY <1>1, <1>3, <1>4, <1>5

\* No prepayment exists at first.
LEMMA WireInitial == Init => WireInv
  BY DEF Init, WireInv, TokenFollowsAuthorisation, OneBlockingRequest,
         NoUnsentWireOnDeadPlan, BlocksDuplicate

\* The money properties survive every handler.
LEMMA WireStep == TypeOK /\ WireInv /\ [Next]_vars => WireInv'
  <1> SUFFICES ASSUME TypeOK, WireInv, [Next]_vars PROVE WireInv'
    OBVIOUS
  <1> USE DEF planVars, lineVars, ppVars, TypeOK, WireInv,
              TokenFollowsAuthorisation, OneBlockingRequest,
              NoUnsentWireOnDeadPlan, BlocksDuplicate, PrepaymentBlocked
  <1>1. CASE Submit
    BY <1>1 DEF Submit, OpenEngineRequest
  <1>2. CASE ResubmitPlan
    BY <1>2 DEF ResubmitPlan, OpenEngineRequest
  <1>3. CASE DecidePlanLegacy
    BY <1>3 DEF DecidePlanLegacy, ApproveEffects, RejectEffects
  <1>4. ASSUME NEW r \in Requests, DecidePlan(r) PROVE WireInv'
    BY <1>4 DEF DecidePlan, ApproveEffects, RejectEffects
  <1>5. ASSUME NEW r \in Requests, CancelPlanRequest(r) PROVE WireInv'
    BY <1>5 DEF CancelPlanRequest
  <1>6. CASE Halt
    BY <1>6, SweepKeepsWires DEF Halt
  <1>7. CASE Resume
    BY <1>7 DEF Resume
  <1>8. CASE ResetToDraft
    BY <1>8 DEF ResetToDraft
  <1>9. CASE CancelPlan
    BY <1>9, SweepKeepsWires DEF CancelPlan
  <1>10. CASE StockAutocomplete
    BY <1>10, SweepKeepsWires DEF StockAutocomplete, CompletePlan
  <1>11. CASE StartupSweep
    BY <1>11, CompletionCases, SweepKeepsWires DEF StartupSweep
  <1>12. ASSUME NEW l \in Lines, ConfirmPO(l) PROVE WireInv'
    BY <1>12 DEF ConfirmPO
  <1>13. ASSUME NEW l \in Lines, ApprovePO(l) PROVE WireInv'
    BY <1>13, CompletionCases, SweepKeepsWires DEF ApprovePO
  <1>14. ASSUME NEW l \in Lines, RejectPO(l) PROVE WireInv'
    BY <1>14 DEF RejectPO, ClearPO
  <1>15. ASSUME NEW l \in Lines, EditPONumber(l) PROVE WireInv'
    BY <1>15 DEF EditPONumber
  <1>16. ASSUME NEW l \in Lines, FlagIssue(l) PROVE WireInv'
    BY <1>16 DEF FlagIssue
  <1>17. ASSUME NEW l \in Lines, ResolveIssue(l) PROVE WireInv'
    BY <1>17 DEF ResolveIssue, ClearPO
  <1>18. ASSUME NEW T \in SUBSET Lines, Resource(T) PROVE WireInv'
    BY <1>18, SweepKeepsWires DEF Resource, ClearPO
  <1>19. ASSUME NEW l \in Lines, Claim(l) PROVE WireInv'
    BY <1>19 DEF Claim
  <1>20. ASSUME NEW l \in Lines, MarkReceived(l) PROVE WireInv'
    BY <1>20 DEF MarkReceived
  <1>21. ASSUME NEW l \in Lines, AddLine(l) PROVE WireInv'
    BY <1>21 DEF AddLine
  <1>22. ASSUME NEW A \in SUBSET Lines, NEW D \in SUBSET Lines, SaveLines(A, D)
         PROVE WireInv'
    BY <1>22, CompletionCases, SweepKeepsWires DEF SaveLines, ClearPO, Unlink
  <1>23. ASSUME NEW p \in Prepays, NEW l \in Lines, CreatePrepayment(p, l)
         PROVE WireInv'
    BY <1>23 DEF CreatePrepayment
  <1>24. ASSUME NEW p \in Prepays, DecidePrepayment(p) PROVE WireInv'
    BY <1>24 DEF DecidePrepayment
  <1>25. ASSUME NEW p \in Prepays, SettlePrepayRequestOnly(p) PROVE WireInv'
    BY <1>25 DEF SettlePrepayRequestOnly
  <1>26. ASSUME NEW p \in Prepays, MarkPaid(p) PROVE WireInv'
    BY <1>26 DEF MarkPaid
  <1>27. ASSUME NEW p \in Prepays, UnmarkPaid(p) PROVE WireInv'
    BY <1>27 DEF UnmarkPaid
  <1>28. CASE UNCHANGED vars
    BY <1>28 DEF vars
  <1> QED
    BY <1>1, <1>2, <1>3, <1>4, <1>5, <1>6, <1>7, <1>8, <1>9, <1>10,
       <1>11, <1>12, <1>13, <1>14, <1>15, <1>16, <1>17, <1>18, <1>19,
       <1>20, <1>21, <1>22, <1>23, <1>24, <1>25, <1>26, <1>27, <1>28
       DEF Next, PlanNext, LineNext, PrepayNext

\* The money properties together are invariant.
LEMMA WireInvAlways == Spec => []WireInv
  <1> QED
    BY TypeCorrect, WireInitial, WireStep, PTL DEF Spec

\* Authorised or paid means an approved request, and the duplicate guard
\* admits one such request per line.
LEMMA NoDoubleFromWireInv == WireInv => NoDoublePayment
  BY DEF WireInv, TokenFollowsAuthorisation, OneBlockingRequest, BlocksDuplicate,
         NoDoublePayment

\* A line never has two prepayments authorised or paid.
THEOREM NoDoublePaymentAlways == Spec => []NoDoublePayment
  <1> QED
    BY WireInvAlways, NoDoubleFromWireInv, PTL

\* The wire link works exactly while the wire is authorised and not out, and
\* no money moves without an approved request.
THEOREM TokenFollowsAuthorisationAlways == Spec => []TokenFollowsAuthorisation
  <1>1. WireInv => TokenFollowsAuthorisation
    BY DEF WireInv
  <1> QED
    BY WireInvAlways, <1>1, PTL

\* A halted, cancelled or completed plan has no wire left to approve, and
\* none authorised that had not gone out.
THEOREM NoUnsentWireAlways == Spec => []NoUnsentWireOnDeadPlan
  <1>1. WireInv => NoUnsentWireOnDeadPlan
    BY DEF WireInv
  <1> QED
    BY WireInvAlways, <1>1, PTL

-----------------------------------------------------------------------------
(* The life of the deal. *)

\* The inductive strengthening of completion: a signed-off sales order
\* belongs to an approved plan past its decision, so the sign-off found by
\* check_completion is one the manager gave.
DealInv ==
    /\ so_status = "approved" =>
           approved_at /\ status \in {"active", "completed", "cancelled"}
    /\ CompletedDealIsClosed
    /\ NoUndecidedPOOnEndedPlan
    /\ AwaitingLineIsClean

\* A draft has no purchase order and is not completed.
LEMMA DealInitial == Init => DealInv
  BY DEF Init, DealInv, CompletedDealIsClosed, NoUndecidedPOOnEndedPlan, Locked,
         AwaitingLineIsClean

\* Completion and line hygiene survive every handler.
LEMMA DealStep == TypeOK /\ DealInv /\ [Next]_vars => DealInv'
  <1> SUFFICES ASSUME TypeOK, DealInv, [Next]_vars PROVE DealInv'
    OBVIOUS
  <1> USE DEF planVars, lineVars, ppVars, TypeOK, DealInv,
              CompletedDealIsClosed, NoUndecidedPOOnEndedPlan, Locked,
              AwaitingLineIsClean, HasOpenPOGate, AllTerminal, Present,
              Terminal
  <1>1. CASE Submit
    BY <1>1 DEF Submit, OpenEngineRequest
  <1>2. CASE ResubmitPlan
    BY <1>2 DEF ResubmitPlan, OpenEngineRequest
  <1>3. CASE DecidePlanLegacy
    BY <1>3 DEF DecidePlanLegacy, ApproveEffects, RejectEffects
  <1>4. ASSUME NEW r \in Requests, DecidePlan(r) PROVE DealInv'
    BY <1>4 DEF DecidePlan, ApproveEffects, RejectEffects
  <1>5. ASSUME NEW r \in Requests, CancelPlanRequest(r) PROVE DealInv'
    BY <1>5 DEF CancelPlanRequest
  <1>6. CASE Halt
    BY <1>6 DEF Halt
  <1>7. CASE Resume
    BY <1>7 DEF Resume
  <1>8. CASE ResetToDraft
    BY <1>8 DEF ResetToDraft
  <1>9. CASE CancelPlan
    BY <1>9 DEF CancelPlan, SetAll, CancelledWithPlan
  <1>10. CASE StockAutocomplete
    BY <1>10 DEF StockAutocomplete, CompletePlan
  <1>11. CASE StartupSweep
    BY <1>11, CompletionCases DEF StartupSweep
  <1>12. ASSUME NEW l \in Lines, ConfirmPO(l) PROVE DealInv'
    BY <1>12 DEF ConfirmPO
  <1>13. ASSUME NEW l \in Lines, ApprovePO(l) PROVE DealInv'
    BY <1>13, CompletionCases DEF ApprovePO
  <1>14. ASSUME NEW l \in Lines, RejectPO(l) PROVE DealInv'
    BY <1>14 DEF RejectPO, ClearPO, SetAll
  <1>15. ASSUME NEW l \in Lines, EditPONumber(l) PROVE DealInv'
    BY <1>15 DEF EditPONumber
  <1>16. ASSUME NEW l \in Lines, FlagIssue(l) PROVE DealInv'
    BY <1>16 DEF FlagIssue
  <1>17. ASSUME NEW l \in Lines, ResolveIssue(l) PROVE DealInv'
    BY <1>17 DEF ResolveIssue, ClearPO, SetAll
  <1>18. ASSUME NEW T \in SUBSET Lines, Resource(T) PROVE DealInv'
    BY <1>18 DEF Resource, ClearPO, SetAll
  <1>19. ASSUME NEW l \in Lines, Claim(l) PROVE DealInv'
    BY <1>19 DEF Claim
  <1>20. ASSUME NEW l \in Lines, MarkReceived(l) PROVE DealInv'
    BY <1>20 DEF MarkReceived
  <1>21. ASSUME NEW l \in Lines, AddLine(l) PROVE DealInv'
    BY <1>21 DEF AddLine
  <1>22. ASSUME NEW A \in SUBSET Lines, NEW D \in SUBSET Lines, SaveLines(A, D)
         PROVE DealInv'
    BY <1>22, CompletionCases DEF SaveLines, ClearPO, Unlink, SetAll, HasCutPO
  <1>23. ASSUME NEW p \in Prepays, NEW l \in Lines, CreatePrepayment(p, l)
         PROVE DealInv'
    BY <1>23 DEF CreatePrepayment
  <1>24. ASSUME NEW p \in Prepays, DecidePrepayment(p) PROVE DealInv'
    BY <1>24 DEF DecidePrepayment
  <1>25. ASSUME NEW p \in Prepays, SettlePrepayRequestOnly(p) PROVE DealInv'
    BY <1>25 DEF SettlePrepayRequestOnly
  <1>26. ASSUME NEW p \in Prepays, MarkPaid(p) PROVE DealInv'
    BY <1>26 DEF MarkPaid
  <1>27. ASSUME NEW p \in Prepays, UnmarkPaid(p) PROVE DealInv'
    BY <1>27 DEF UnmarkPaid
  <1>28. CASE UNCHANGED vars
    BY <1>28 DEF vars
  <1> QED
    BY <1>1, <1>2, <1>3, <1>4, <1>5, <1>6, <1>7, <1>8, <1>9, <1>10,
       <1>11, <1>12, <1>13, <1>14, <1>15, <1>16, <1>17, <1>18, <1>19,
       <1>20, <1>21, <1>22, <1>23, <1>24, <1>25, <1>26, <1>27, <1>28
       DEF Next, PlanNext, LineNext, PrepayNext

\* Completion and line hygiene together are invariant.
LEMMA DealInvAlways == Spec => []DealInv
  <1> QED
    BY TypeCorrect, DealInitial, DealStep, PTL DEF Spec

\* A completed deal, stock sales apart, is closed on all its lines and signed
\* off.
THEOREM CompletedDealIsClosedAlways == Spec => []CompletedDealIsClosed
  <1>1. DealInv => CompletedDealIsClosed
    BY DEF DealInv
  <1> QED
    BY DealInvAlways, <1>1, PTL

\* No plan ends past an undecided purchase order.
THEOREM NoUndecidedPOAlways == Spec => []NoUndecidedPOOnEndedPlan
  <1>1. DealInv => NoUndecidedPOOnEndedPlan
    BY DEF DealInv
  <1> QED
    BY DealInvAlways, <1>1, PTL

\* A line a buyer has to act on carries nothing of an earlier PO.
THEOREM AwaitingLineIsCleanAlways == Spec => []AwaitingLineIsClean
  <1>1. DealInv => AwaitingLineIsClean
    BY DEF DealInv
  <1> QED
    BY DealInvAlways, <1>1, PTL

-----------------------------------------------------------------------------
(* What no step does. *)

\* The body of LastLineEndsPlan, LastLineEndsPlan itself being temporal.
EndsWithLastLine ==
    status = "active" /\ so_status = "approved"
    /\ ~AllTerminal(line_status) /\ AllTerminal(line_status')
    => status' # "active"

\* Only a sign-off, a save and a cancellation can close the last line, and
\* each of them ends the plan when it does.
LEMMA LastLineStep == TypeOK /\ [Next]_vars => EndsWithLastLine
  <1> SUFFICES ASSUME TypeOK, [Next]_vars PROVE EndsWithLastLine
    OBVIOUS
  <1> USE DEF planVars, lineVars, ppVars, EndsWithLastLine, TypeOK, AllTerminal,
              Present, Terminal
  <1>1. CASE Submit
    BY <1>1 DEF Submit, OpenEngineRequest
  <1>2. CASE ResubmitPlan
    BY <1>2 DEF ResubmitPlan, OpenEngineRequest
  <1>3. CASE DecidePlanLegacy
    BY <1>3 DEF DecidePlanLegacy, ApproveEffects, RejectEffects
  <1>4. ASSUME NEW r \in Requests, DecidePlan(r) PROVE EndsWithLastLine
    BY <1>4 DEF DecidePlan, ApproveEffects, RejectEffects
  <1>5. ASSUME NEW r \in Requests, CancelPlanRequest(r) PROVE EndsWithLastLine
    BY <1>5 DEF CancelPlanRequest
  <1>6. CASE Halt
    BY <1>6 DEF Halt
  <1>7. CASE Resume
    BY <1>7 DEF Resume
  <1>8. CASE ResetToDraft
    BY <1>8 DEF ResetToDraft
  <1>9. CASE CancelPlan
    BY <1>9 DEF CancelPlan, SetAll
  <1>10. CASE StockAutocomplete
    BY <1>10 DEF StockAutocomplete
  <1>11. CASE StartupSweep
    BY <1>11 DEF StartupSweep, CheckCompletion, CompletePlan, HasOpenPOGate
  <1>12. ASSUME NEW l \in Lines, ConfirmPO(l) PROVE EndsWithLastLine
    BY <1>12 DEF ConfirmPO
  <1>13. ASSUME NEW l \in Lines, ApprovePO(l) PROVE EndsWithLastLine
    BY <1>13 DEF ApprovePO, CheckCompletion, CompletePlan, HasOpenPOGate
  <1>14. ASSUME NEW l \in Lines, RejectPO(l) PROVE EndsWithLastLine
    BY <1>14 DEF RejectPO, ClearPO, SetAll
  <1>15. ASSUME NEW l \in Lines, EditPONumber(l) PROVE EndsWithLastLine
    BY <1>15 DEF EditPONumber
  <1>16. ASSUME NEW l \in Lines, FlagIssue(l) PROVE EndsWithLastLine
    BY <1>16 DEF FlagIssue
  <1>17. ASSUME NEW l \in Lines, ResolveIssue(l) PROVE EndsWithLastLine
    BY <1>17 DEF ResolveIssue, ClearPO, SetAll
  <1>18. ASSUME NEW T \in SUBSET Lines, Resource(T) PROVE EndsWithLastLine
    BY <1>18 DEF Resource, ClearPO, SetAll
  <1>19. ASSUME NEW l \in Lines, Claim(l) PROVE EndsWithLastLine
    BY <1>19 DEF Claim
  <1>20. ASSUME NEW l \in Lines, MarkReceived(l) PROVE EndsWithLastLine
    BY <1>20 DEF MarkReceived
  <1>21. ASSUME NEW l \in Lines, AddLine(l) PROVE EndsWithLastLine
    BY <1>21 DEF AddLine
  <1>22. ASSUME NEW A \in SUBSET Lines, NEW D \in SUBSET Lines, SaveLines(A, D)
         PROVE EndsWithLastLine
    BY <1>22 DEF SaveLines, ClearPO, Unlink, CheckCompletion, CompletePlan,
                 HasOpenPOGate
  <1>23. ASSUME NEW p \in Prepays, NEW l \in Lines, CreatePrepayment(p, l)
         PROVE EndsWithLastLine
    BY <1>23 DEF CreatePrepayment
  <1>24. ASSUME NEW p \in Prepays, DecidePrepayment(p) PROVE EndsWithLastLine
    BY <1>24 DEF DecidePrepayment
  <1>25. ASSUME NEW p \in Prepays, SettlePrepayRequestOnly(p) PROVE EndsWithLastLine
    BY <1>25 DEF SettlePrepayRequestOnly
  <1>26. ASSUME NEW p \in Prepays, MarkPaid(p) PROVE EndsWithLastLine
    BY <1>26 DEF MarkPaid
  <1>27. ASSUME NEW p \in Prepays, UnmarkPaid(p) PROVE EndsWithLastLine
    BY <1>27 DEF UnmarkPaid
  <1>28. CASE UNCHANGED vars
    BY <1>28 DEF vars
  <1> QED
    BY <1>1, <1>2, <1>3, <1>4, <1>5, <1>6, <1>7, <1>8, <1>9, <1>10,
       <1>11, <1>12, <1>13, <1>14, <1>15, <1>16, <1>17, <1>18, <1>19,
       <1>20, <1>21, <1>22, <1>23, <1>24, <1>25, <1>26, <1>27, <1>28
       DEF Next, PlanNext, LineNext, PrepayNext

\* No handler makes the last line terminal and leaves a signed-off plan
\* active.
THEOREM LastLineAlwaysEndsPlan == Spec => LastLineEndsPlan
  <1>1. TypeOK /\ [Next]_vars =>
          [/\ status = "active" /\ so_status = "approved"
           /\ ~AllTerminal(line_status) /\ AllTerminal(line_status')
           => status' # "active"]_vars
    BY LastLineStep DEF EndsWithLastLine
  <1> QED
    BY TypeCorrect, <1>1, PTL DEF Spec, LastLineEndsPlan

\* The body of VoidedForCause and PaidIsNeverVoided for one prepayment.
StoodDownRightly(p) ==
    /\ pp_status[p] = "paid" => pp_status'[p] \in {"paid", "approved"}
    /\ pp_status[p] = "approved" /\ pp_status'[p] = "void" =>
           \/ status' \in PrepaymentBlocked
           \/ /\ pp_line[p] \in Lines
              /\ line_status'[pp_line[p]] = "resourcing"

\* Wires are voided by the teardown sweep alone: over the whole plan by a
\* step that ends or halts it, over the lines it pools by a re-sourcing.
LEMMA StandDownStep ==
    TypeOK /\ WireInv /\ [Next]_vars => \A w \in Prepays : StoodDownRightly(w)
  <1> SUFFICES ASSUME TypeOK, WireInv, [Next]_vars, NEW w \in Prepays
               PROVE  StoodDownRightly(w)
    OBVIOUS
  <1> USE DEF planVars, lineVars, ppVars, StoodDownRightly, TypeOK, WireInv,
              TokenFollowsAuthorisation, PrepaymentBlocked
  <1>1. CASE Submit
    BY <1>1 DEF Submit, OpenEngineRequest
  <1>2. CASE ResubmitPlan
    BY <1>2 DEF ResubmitPlan, OpenEngineRequest
  <1>3. CASE DecidePlanLegacy
    BY <1>3 DEF DecidePlanLegacy, ApproveEffects, RejectEffects
  <1>4. ASSUME NEW r \in Requests, DecidePlan(r) PROVE StoodDownRightly(w)
    BY <1>4 DEF DecidePlan, ApproveEffects, RejectEffects
  <1>5. ASSUME NEW r \in Requests, CancelPlanRequest(r) PROVE StoodDownRightly(w)
    BY <1>5 DEF CancelPlanRequest
  <1>6. CASE Halt
    BY <1>6, SweepEffect DEF Halt
  <1>7. CASE Resume
    BY <1>7 DEF Resume
  <1>8. CASE ResetToDraft
    BY <1>8 DEF ResetToDraft
  <1>9. CASE CancelPlan
    BY <1>9, SweepEffect DEF CancelPlan
  <1>10. CASE StockAutocomplete
    BY <1>10, SweepEffect DEF StockAutocomplete, CompletePlan
  <1>11. CASE StartupSweep
    BY <1>11, CompletionCases, SweepEffect DEF StartupSweep
  <1>12. ASSUME NEW l \in Lines, ConfirmPO(l) PROVE StoodDownRightly(w)
    BY <1>12 DEF ConfirmPO
  <1>13. ASSUME NEW l \in Lines, ApprovePO(l) PROVE StoodDownRightly(w)
    BY <1>13, CompletionCases, SweepEffect DEF ApprovePO
  <1>14. ASSUME NEW l \in Lines, RejectPO(l) PROVE StoodDownRightly(w)
    BY <1>14 DEF RejectPO, ClearPO
  <1>15. ASSUME NEW l \in Lines, EditPONumber(l) PROVE StoodDownRightly(w)
    BY <1>15 DEF EditPONumber
  <1>16. ASSUME NEW l \in Lines, FlagIssue(l) PROVE StoodDownRightly(w)
    BY <1>16 DEF FlagIssue
  <1>17. ASSUME NEW l \in Lines, ResolveIssue(l) PROVE StoodDownRightly(w)
    BY <1>17 DEF ResolveIssue, ClearPO
  <1>18. ASSUME NEW T \in SUBSET Lines, Resource(T) PROVE StoodDownRightly(w)
    <2>1. VoidUnwired(PrepaysOn(T))
      BY <1>18 DEF Resource
    <2>2. pp_status'[w] = IF w \in PrepaysOn(T) /\ pp_status[w] = "approved"
                          THEN "void" ELSE pp_status[w]
      BY <2>1, SweepEffect
    <2>3. w \in PrepaysOn(T) => /\ pp_line[w] \in Lines
                                /\ line_status'[pp_line[w]] = "resourcing"
      BY <1>18 DEF Resource, SetAll, PrepaysOn, TypeOK
    <2> QED
      BY <2>2, <2>3
  <1>19. ASSUME NEW l \in Lines, Claim(l) PROVE StoodDownRightly(w)
    BY <1>19 DEF Claim
  <1>20. ASSUME NEW l \in Lines, MarkReceived(l) PROVE StoodDownRightly(w)
    BY <1>20 DEF MarkReceived
  <1>21. ASSUME NEW l \in Lines, AddLine(l) PROVE StoodDownRightly(w)
    BY <1>21 DEF AddLine
  <1>22. ASSUME NEW A \in SUBSET Lines, NEW D \in SUBSET Lines, SaveLines(A, D)
         PROVE StoodDownRightly(w)
    BY <1>22, CompletionCases, SweepEffect DEF SaveLines, ClearPO, Unlink
  <1>23. ASSUME NEW p \in Prepays, NEW l \in Lines, CreatePrepayment(p, l)
         PROVE StoodDownRightly(w)
    BY <1>23 DEF CreatePrepayment
  <1>24. ASSUME NEW p \in Prepays, DecidePrepayment(p) PROVE StoodDownRightly(w)
    BY <1>24 DEF DecidePrepayment
  <1>25. ASSUME NEW p \in Prepays, SettlePrepayRequestOnly(p) PROVE StoodDownRightly(w)
    BY <1>25 DEF SettlePrepayRequestOnly
  <1>26. ASSUME NEW p \in Prepays, MarkPaid(p) PROVE StoodDownRightly(w)
    BY <1>26 DEF MarkPaid
  <1>27. ASSUME NEW p \in Prepays, UnmarkPaid(p) PROVE StoodDownRightly(w)
    BY <1>27 DEF UnmarkPaid
  <1>28. CASE UNCHANGED vars
    BY <1>28 DEF vars
  <1> QED
    BY <1>1, <1>2, <1>3, <1>4, <1>5, <1>6, <1>7, <1>8, <1>9, <1>10,
       <1>11, <1>12, <1>13, <1>14, <1>15, <1>16, <1>17, <1>18, <1>19,
       <1>20, <1>21, <1>22, <1>23, <1>24, <1>25, <1>26, <1>27, <1>28
       DEF Next, PlanNext, LineNext, PrepayNext

\* A wire that went out is never voided.
THEOREM PaidNeverVoided == Spec => PaidIsNeverVoided
  <1>1. TypeOK /\ WireInv /\ [Next]_vars =>
          [\A p \in Prepays :
             pp_status[p] = "paid" => pp_status'[p] \in {"paid", "approved"}]_vars
    BY StandDownStep DEF StoodDownRightly
  <1> QED
    BY TypeCorrect, WireInvAlways, <1>1, PTL DEF Spec, PaidIsNeverVoided

\* An authorised wire is stood down only when its plan dies or its own line
\* is re-sourced.
THEOREM VoidedOnlyForCause == Spec => VoidedForCause
  <1>1. TypeOK /\ WireInv /\ [Next]_vars =>
          [\A p \in Prepays :
             pp_status[p] = "approved" /\ pp_status'[p] = "void" =>
                 \/ status' \in PrepaymentBlocked
                 \/ /\ pp_line[p] \in Lines
                    /\ line_status'[pp_line[p]] = "resourcing"]_vars
    BY StandDownStep DEF StoodDownRightly
  <1> QED
    BY TypeCorrect, WireInvAlways, <1>1, PTL DEF Spec, VoidedForCause

-----------------------------------------------------------------------------
(* The plan implements WireLedger. *)

\* The ways a handler touches what the accountant depends on.
WireMove ==
    \/ UNCHANGED <<pp_status, pp_request, pp_line, status \in PrepaymentBlocked>>
    \/ UNCHANGED <<pp_status, pp_request, pp_line>> /\ status' \notin PrepaymentBlocked
    \/ /\ \E D \in SUBSET Lines : Unlink(D)
       /\ UNCHANGED <<pp_status, pp_request, status>>
    \/ /\ \E D \in SUBSET Lines : Unlink(D)
       /\ VoidUnwired(Prepays)
       /\ status' \in PrepaymentBlocked
    \/ /\ \E T \in SUBSET Lines : VoidUnwired(PrepaysOn(T))
       /\ status' = "active"
       /\ UNCHANGED pp_line
    \/ PrepayNext /\ UNCHANGED status

\* No line deleted, no prepayment unlinked.
LEMMA UnlinkNothing ==
    ASSUME TypeOK, UNCHANGED pp_line
    PROVE  \E D \in SUBSET Lines : Unlink(D)
  <1>1. Unlink({})
    BY DEF TypeOK, Unlink
  <1> QED
    BY <1>1

\* Outside its own handlers a prepayment is only swept or unlinked: by the
\* death of the plan, by the re-sourcing of its line, by the line editor.
LEMMA WireMoves == TypeOK /\ [Next]_vars => WireMove
  <1> SUFFICES ASSUME TypeOK, [Next]_vars PROVE WireMove
    OBVIOUS
  <1> USE DEF planVars, lineVars, ppVars, WireMove, PrepaymentBlocked
  <1>1. CASE Submit
    BY <1>1 DEF Submit
  <1>2. CASE ResubmitPlan
    BY <1>2 DEF ResubmitPlan
  <1>3. CASE DecidePlanLegacy
    BY <1>3 DEF DecidePlanLegacy, ApproveEffects, RejectEffects
  <1>4. ASSUME NEW r \in Requests, DecidePlan(r) PROVE WireMove
    BY <1>4 DEF DecidePlan, ApproveEffects, RejectEffects
  <1>5. ASSUME NEW r \in Requests, CancelPlanRequest(r) PROVE WireMove
    BY <1>5 DEF CancelPlanRequest
  <1>6. CASE Halt
    BY <1>6, UnlinkNothing DEF Halt
  <1>7. CASE Resume
    BY <1>7 DEF Resume
  <1>8. CASE ResetToDraft
    BY <1>8 DEF ResetToDraft
  <1>9. CASE CancelPlan
    BY <1>9, UnlinkNothing DEF CancelPlan
  <1>10. CASE StockAutocomplete
    BY <1>10, UnlinkNothing DEF StockAutocomplete, CompletePlan
  <1>11. CASE StartupSweep
    BY <1>11, UnlinkNothing, CompletionCases DEF StartupSweep
  <1>12. ASSUME NEW l \in Lines, ConfirmPO(l) PROVE WireMove
    BY <1>12 DEF ConfirmPO
  <1>13. ASSUME NEW l \in Lines, ApprovePO(l) PROVE WireMove
    BY <1>13, UnlinkNothing, CompletionCases DEF ApprovePO
  <1>14. ASSUME NEW l \in Lines, RejectPO(l) PROVE WireMove
    BY <1>14 DEF RejectPO
  <1>15. ASSUME NEW l \in Lines, EditPONumber(l) PROVE WireMove
    BY <1>15 DEF EditPONumber
  <1>16. ASSUME NEW l \in Lines, FlagIssue(l) PROVE WireMove
    BY <1>16 DEF FlagIssue
  <1>17. ASSUME NEW l \in Lines, ResolveIssue(l) PROVE WireMove
    BY <1>17 DEF ResolveIssue
  <1>18. ASSUME NEW T \in SUBSET Lines, Resource(T) PROVE WireMove
    BY <1>18 DEF Resource
  <1>19. ASSUME NEW l \in Lines, Claim(l) PROVE WireMove
    BY <1>19 DEF Claim
  <1>20. ASSUME NEW l \in Lines, MarkReceived(l) PROVE WireMove
    BY <1>20 DEF MarkReceived
  <1>21. ASSUME NEW l \in Lines, AddLine(l) PROVE WireMove
    BY <1>21 DEF AddLine
  <1>22. ASSUME NEW A \in SUBSET Lines, NEW D \in SUBSET Lines, SaveLines(A, D)
         PROVE WireMove
    BY <1>22, CompletionCases DEF SaveLines
  <1>23. CASE PrepayNext
    BY <1>23 DEF PrepayNext, CreatePrepayment, DecidePrepayment,
                 SettlePrepayRequestOnly, MarkPaid, UnmarkPaid
  <1>24. CASE UNCHANGED vars
    BY <1>24 DEF vars
  <1> QED
    BY <1>1, <1>2, <1>3, <1>4, <1>5, <1>6, <1>7, <1>8, <1>9, <1>10,
       <1>11, <1>12, <1>13, <1>14, <1>15, <1>16, <1>17, <1>18, <1>19,
       <1>20, <1>21, <1>22, <1>23, <1>24 DEF Next, PlanNext, LineNext

\* A prepayment that was never raised has no request.
Unraised == \A p \in Prepays : pp_status[p] = "none" => pp_request[p] = "none"

\* No prepayment exists at first.
LEMMA UnraisedInitial == Init => Unraised
  BY DEF Init, Unraised

\* A prepayment and its request are inserted together, and none is deleted.
LEMMA UnraisedStep == TypeOK /\ WireInv /\ Unraised /\ [Next]_vars => Unraised'
  <1> SUFFICES ASSUME TypeOK, WireInv, Unraised, WireMove PROVE Unraised'
    BY WireMoves
  <1>1. CASE UNCHANGED <<pp_status, pp_request>>
    BY <1>1 DEF Unraised
  <1>2. ASSUME NEW S, VoidUnwired(S) PROVE Unraised'
    BY <1>2, SweepEffect DEF Unraised
  <1>3. ASSUME NEW p \in Prepays, NEW l \in Lines, CreatePrepayment(p, l)
        PROVE  Unraised'
    BY <1>3 DEF CreatePrepayment, Unraised, TypeOK
  <1>4. ASSUME NEW p \in Prepays, DecidePrepayment(p) PROVE Unraised'
    BY <1>4 DEF DecidePrepayment, Unraised, TypeOK
  <1>5. ASSUME NEW p \in Prepays, SettlePrepayRequestOnly(p) PROVE Unraised'
    BY <1>5 DEF SettlePrepayRequestOnly, Unraised, TypeOK
  <1>6. ASSUME NEW p \in Prepays, MarkPaid(p) \/ UnmarkPaid(p) PROVE Unraised'
    BY <1>6 DEF MarkPaid, UnmarkPaid, Unraised, TypeOK
  <1> QED
    BY <1>1, <1>2, <1>3, <1>4, <1>5, <1>6 DEF WireMove, PrepayNext

\* Requests belong to prepayments that were raised.
LEMMA UnraisedAlways == Spec => []Unraised
  <1> QED
    BY TypeCorrect, WireInvAlways, UnraisedInitial, UnraisedStep, PTL DEF Spec

\* The ledger is empty at first.
LEMMA LedgerInitial == Init => Ledger!Init
  BY DEF Init, Ledger!Init, wire, WireState, PrepaymentBlocked

\* The sweep over S stands down the wires of S on the ledger.
LEMMA SweepStandsDown ==
    ASSUME TypeOK, WireInv, NEW S, VoidUnwired(S)
    PROVE  Ledger!StandDown(S)
  <1>1. ASSUME NEW p \in Prepays
        PROVE  WireState(p)' = IF p \in S /\ wire[p] \in {"asked", "authorised"}
                               THEN "off" ELSE wire[p]
    BY SweepEffect DEF WireState, wire, WireInv, TokenFollowsAuthorisation
  <1> QED
    BY <1>1 DEF Ledger!StandDown, wire

\* Untouched columns make an untouched ledger.
LEMMA SameColumnsSameWires ==
    ASSUME UNCHANGED <<pp_status, pp_request>>
    PROVE  UNCHANGED wire
  BY DEF wire, WireState

\* Sweeping nothing is what a revival of the plan does to the wires.
LEMMA StandDownNobody ==
    ASSUME TypeOK, UNCHANGED wire
    PROVE  Ledger!StandDown({p \in Prepays : pp_line[p] \in {}})
  BY DEF Ledger!StandDown, wire

\* One wire moves when one prepayment does.
LEMMA OneWireMoves ==
    ASSUME TypeOK, NEW p \in Prepays, NEW v,
           \A q \in Prepays : q # p => WireState(q)' = WireState(q),
           WireState(p)' = v, UNCHANGED <<pp_line, status>>
    PROVE  Ledger!Become(p, v)
  BY DEF Ledger!Become, wire

\* Every handler of a prepayment is the ledger action it is named for.
LEMMA LedgerPrepayStep ==
    ASSUME TypeOK, WireInv, Unraised, PrepayNext, UNCHANGED status
    PROVE  [Ledger!Next]_(Ledger!ledgerVars)
  <1> USE DEF TypeOK
  <1>1. ASSUME NEW p \in Prepays, NEW l \in Lines, CreatePrepayment(p, l)
        PROVE  Ledger!Ask(p, l)
    <2>1. \A q \in Prepays : pp_line[q] = l => ~Ledger!Live(q)
      BY <1>1 DEF CreatePrepayment, BlocksDuplicate, Ledger!Live, wire, WireState,
                  WireInv, TokenFollowsAuthorisation
    <2>2. wire[p] = "none"
      BY <1>1 DEF CreatePrepayment, wire, WireState
    <2>3. \A q \in Prepays : WireState(q)' = IF q = p THEN "asked" ELSE WireState(q)
      BY <1>1 DEF CreatePrepayment, WireState
    <2>4. wire' = [wire EXCEPT ![p] = "asked"]
      BY <2>3 DEF wire
    <2> QED
      BY <1>1, <2>1, <2>2, <2>4 DEF CreatePrepayment, Ledger!Ask, planVars
  <1>2. ASSUME NEW p \in Prepays, DecidePrepayment(p) \/ SettlePrepayRequestOnly(p)
        PROVE  Ledger!Authorise(p) \/ Ledger!Refuse(p)
    <2>1. pp_request[p] = "requested" /\ UNCHANGED pp_line
      BY <1>2 DEF DecidePrepayment, SettlePrepayRequestOnly
    <2>2. ~(status \in PrepaymentBlocked)
      BY <2>1 DEF WireInv, NoUnsentWireOnDeadPlan
    <2>3. WireState(p) = "asked"
      BY <2>1 DEF WireState, WireInv, TokenFollowsAuthorisation, Unraised
    <2>4. \A q \in Prepays : q # p => WireState(q)' = WireState(q)
      BY <1>2 DEF DecidePrepayment, SettlePrepayRequestOnly, WireState
    <2>5. pp_status[p] \notin {"none", "approved", "paid"}
      BY <2>1 DEF WireInv, TokenFollowsAuthorisation, Unraised
    <2>6. WireState(p)' \in {"authorised", "off"}
      BY <1>2, <2>5 DEF DecidePrepayment, SettlePrepayRequestOnly, WireState
    <2>7. Ledger!Become(p, "authorised") \/ Ledger!Become(p, "off")
      BY <2>1, <2>4, <2>6, OneWireMoves
    <2> QED
      BY <2>2, <2>3, <2>7 DEF Ledger!Authorise, Ledger!Refuse, wire
  <1>3. ASSUME NEW p \in Prepays, MarkPaid(p)
        PROVE  Ledger!Send(p)
    <2>1. \A q \in Prepays : q # p => WireState(q)' = WireState(q)
      BY <1>3 DEF MarkPaid, WireState
    <2>2. WireState(p) = "authorised" /\ WireState(p)' = "out" /\ UNCHANGED pp_line
      BY <1>3 DEF MarkPaid, WireState
    <2> QED
      BY <2>1, <2>2, OneWireMoves DEF Ledger!Send, wire
  <1>4. ASSUME NEW p \in Prepays, UnmarkPaid(p)
        PROVE  Ledger!Correct(p)
    <2>1. \A q \in Prepays : q # p => WireState(q)' = WireState(q)
      BY <1>4 DEF UnmarkPaid, WireState
    <2>2. WireState(p) = "out" /\ WireState(p)' = "authorised" /\ UNCHANGED pp_line
      BY <1>4 DEF UnmarkPaid, WireState
    <2> QED
      BY <2>1, <2>2, OneWireMoves DEF Ledger!Correct, wire
  <1> QED
    BY <1>1, <1>2, <1>3, <1>4 DEF PrepayNext, Ledger!Next

\* Every step of the plan is a step of the ledger or leaves it alone.
LEMMA LedgerStep ==
    ASSUME TypeOK, WireInv, Unraised, [Next]_vars
    PROVE  [Ledger!Next]_(Ledger!ledgerVars)
  <1>1. WireMove
    BY WireMoves
  <1>2. CASE UNCHANGED <<pp_status, pp_request, pp_line, status \in PrepaymentBlocked>>
    BY <1>2, SameColumnsSameWires DEF Ledger!ledgerVars
  <1>3. CASE UNCHANGED <<pp_status, pp_request, pp_line>>
             /\ status' \notin PrepaymentBlocked
    <2>1. Ledger!Recall({})
      BY <1>3, SameColumnsSameWires, StandDownNobody
         DEF Ledger!Recall, PrepaymentBlocked
    <2> QED
      BY <2>1 DEF Ledger!Next
  <1>4. ASSUME NEW D \in SUBSET Lines, Unlink(D),
               UNCHANGED <<pp_status, pp_request, status>>
        PROVE  Ledger!Next
    <2>1. Ledger!Drop(D)
      BY <1>4, SameColumnsSameWires
         DEF Ledger!Drop, Ledger!Forget, Unlink, PrepaymentBlocked
    <2> QED
      BY <2>1 DEF Ledger!Next
  <1>5. ASSUME NEW D \in SUBSET Lines, Unlink(D), VoidUnwired(Prepays),
               status' \in PrepaymentBlocked
        PROVE  Ledger!Next
    <2>1. Ledger!Die(D)
      BY <1>5, SweepStandsDown
         DEF Ledger!Die, Ledger!Forget, Unlink, PrepaymentBlocked
    <2> QED
      BY <2>1 DEF Ledger!Next
  <1>6. ASSUME NEW T \in SUBSET Lines, VoidUnwired(PrepaysOn(T)),
               status' = "active", UNCHANGED pp_line
        PROVE  Ledger!Next
    <2>1. Ledger!Recall(T)
      BY <1>6, SweepStandsDown DEF Ledger!Recall, PrepaysOn, PrepaymentBlocked
    <2> QED
      BY <2>1 DEF Ledger!Next
  <1>7. CASE PrepayNext /\ UNCHANGED status
    BY <1>7, LedgerPrepayStep
  <1> QED
    BY <1>1, <1>2, <1>3, <1>4, <1>5, <1>6, <1>7 DEF WireMove

\* A plan with its lines, requests and prepayments is a wire ledger.
THEOREM WiresImplementLedger == Spec => ImplementsLedger
  <1>1. TypeOK /\ WireInv /\ Unraised /\ [Next]_vars
          => [Ledger!Next]_(Ledger!ledgerVars)
    BY LedgerStep
  <1> QED
    BY TypeCorrect, WireInvAlways, UnraisedAlways, LedgerInitial, <1>1, PTL
       DEF Spec, ImplementsLedger, Ledger!Spec

\* The columns the ledger shows have its types.
LedgerTypeOK ==
    /\ wire \in [Prepays -> {"none", "asked", "authorised", "out", "off"}]
    /\ pp_line \in [Prepays -> Lines \cup {NoLine}]

\* A ledger asks for a wire only on a line without a live one, and what was
\* stood down stays down.
LEMMA LedgerPaysOnceStep ==
    ASSUME LedgerTypeOK, Ledger!OneLiveWire, [Ledger!Next]_(Ledger!ledgerVars)
    PROVE  Ledger!OneLiveWire'
  <1> USE DEF LedgerTypeOK, Ledger!OneLiveWire, Ledger!Live
  <1>1. ASSUME NEW w \in Prepays, NEW l \in Lines, Ledger!Ask(w, l)
        PROVE  Ledger!OneLiveWire'
    BY <1>1 DEF Ledger!Ask
  <1>2. ASSUME NEW w \in Prepays,
               Ledger!Authorise(w) \/ Ledger!Refuse(w) \/ Ledger!Send(w)
               \/ Ledger!Correct(w)
        PROVE  Ledger!OneLiveWire'
    BY <1>2 DEF Ledger!Authorise, Ledger!Refuse, Ledger!Send, Ledger!Correct,
                Ledger!Become
  <1>3. ASSUME NEW D \in SUBSET Lines, Ledger!Die(D) \/ Ledger!Recall(D) \/ Ledger!Drop(D)
        PROVE  Ledger!OneLiveWire'
    <2>1. \A v \in Prepays : Ledger!Live(v)' => Ledger!Live(v)
      BY <1>3 DEF Ledger!Die, Ledger!Recall, Ledger!Drop, Ledger!StandDown
    <2>2. \A v \in Prepays : pp_line'[v] \in {pp_line[v], NoLine}
      BY <1>3 DEF Ledger!Die, Ledger!Recall, Ledger!Drop, Ledger!Forget
    <2> QED
      BY <2>1, <2>2
  <1>4. CASE UNCHANGED Ledger!ledgerVars
    BY <1>4 DEF Ledger!ledgerVars
  <1> QED
    BY <1>1, <1>2, <1>3, <1>4 DEF Ledger!Next

\* A line never has two wires asked for, authorised or out: what the ledger
\* promises, read back from the plan that implements it.  It is more than
\* NoDoublePayment, which does not count the wires still to be decided.
THEOREM OneLiveWirePerLine == Spec => []Ledger!OneLiveWire
  <1>1. TypeOK => LedgerTypeOK
    BY DEF TypeOK, LedgerTypeOK, wire, WireState
  <1>2. Ledger!Init => Ledger!OneLiveWire
    BY DEF Ledger!Init, Ledger!OneLiveWire, Ledger!Live
  <1>3. LedgerTypeOK /\ Ledger!OneLiveWire /\ [Ledger!Next]_(Ledger!ledgerVars)
          => Ledger!OneLiveWire'
    BY LedgerPaysOnceStep
  <1> QED
    BY TypeCorrect, WiresImplementLedger, <1>1, <1>2, <1>3, PTL
       DEF ImplementsLedger, Ledger!Spec

-----------------------------------------------------------------------------
(* Where the documented properties break. *)

\* An authorised wire appears on a dead plan by the reversal of a recorded
\* payment and in no other way: every handler that kills a plan sweeps it
\* first, and none authorises a wire on a plan that is dead.
THEOREM OnlyReversalRearms ==
    Spec => [][NoAuthorisedWireOnDeadPlan =>
                  \/ NoAuthorisedWireOnDeadPlan'
                  \/ \E p \in Prepays : UnmarkPaid(p)]_vars
  <1>1. TypeOK /\ WireInv /\ [Next]_vars =>
          [NoAuthorisedWireOnDeadPlan =>
              \/ NoAuthorisedWireOnDeadPlan'
              \/ \E p \in Prepays : UnmarkPaid(p)]_vars
    <2> SUFFICES ASSUME TypeOK, WireInv, WireMove, NoAuthorisedWireOnDeadPlan,
                        ~ \E p \in Prepays : UnmarkPaid(p)
                 PROVE  NoAuthorisedWireOnDeadPlan'
      BY WireMoves
    <2> USE DEF NoAuthorisedWireOnDeadPlan, TypeOK, PrepaymentBlocked
    <2>1. CASE UNCHANGED pp_status /\ (status' \in PrepaymentBlocked
                                         => status \in PrepaymentBlocked)
      BY <2>1
    <2>2. ASSUME NEW S, VoidUnwired(S), Prepays \subseteq S \/ status' = "active"
          PROVE  NoAuthorisedWireOnDeadPlan'
      BY <2>2, SweepEffect
    <2>3. CASE PrepayNext /\ UNCHANGED status
      <3>1. ASSUME NEW p \in Prepays, NEW l \in Lines, CreatePrepayment(p, l)
            PROVE  NoAuthorisedWireOnDeadPlan'
        BY <2>3, <3>1 DEF CreatePrepayment
      <3>2. ASSUME NEW p \in Prepays,
                   DecidePrepayment(p) \/ SettlePrepayRequestOnly(p)
            PROVE  NoAuthorisedWireOnDeadPlan'
        BY <2>3, <3>2 DEF DecidePrepayment, SettlePrepayRequestOnly, WireInv,
                          NoUnsentWireOnDeadPlan
      <3>3. ASSUME NEW p \in Prepays, MarkPaid(p)
            PROVE  NoAuthorisedWireOnDeadPlan'
        BY <2>3, <3>3 DEF MarkPaid
      <3> QED
        BY <2>3, <3>1, <3>2, <3>3 DEF PrepayNext
    <2> QED
      BY <2>1, <2>2, <2>3 DEF WireMove
  <1> QED
    BY TypeCorrect, WireInvAlways, <1>1, PTL DEF Spec

\* A prepayment voided after its approval keeps its line from ever getting
\* another one: its rows never change again, and until the line itself is
\* deleted nothing can be requested on it.
THEOREM VoidedWireBlocksItsLine ==
    Spec => [][\A p \in Prepays :
                  pp_status[p] = "void" /\ pp_request[p] = "approved" =>
                     /\ pp_status'[p] = "void" /\ pp_request'[p] = "approved"
                     /\ pp_line'[p] \in {pp_line[p], NoLine}
                     /\ \A q \in Prepays, l \in Lines :
                           CreatePrepayment(q, l) => pp_line[p] # l]_vars
  <1>1. ASSUME TypeOK, WireInv, WireMove, NEW p \in Prepays,
               pp_status[p] = "void", pp_request[p] = "approved"
        PROVE  /\ pp_status'[p] = "void" /\ pp_request'[p] = "approved"
               /\ pp_line'[p] \in {pp_line[p], NoLine}
    <2> USE <1>1 DEF TypeOK
    <2>1. CASE UNCHANGED <<pp_status, pp_request>>
               /\ (UNCHANGED pp_line \/ \E D \in SUBSET Lines : Unlink(D))
      BY <2>1 DEF Unlink
    <2>2. ASSUME NEW S, VoidUnwired(S),
                 UNCHANGED pp_line \/ \E D \in SUBSET Lines : Unlink(D)
          PROVE  /\ pp_status'[p] = "void" /\ pp_request'[p] = "approved"
                 /\ pp_line'[p] \in {pp_line[p], NoLine}
      BY <2>2, SweepEffect DEF Unlink
    <2>3. CASE PrepayNext
      BY <2>3 DEF PrepayNext, CreatePrepayment, DecidePrepayment,
                  SettlePrepayRequestOnly, MarkPaid, UnmarkPaid
    <2> QED
      BY <2>1, <2>2, <2>3 DEF WireMove
  <1>2. ASSUME NEW p \in Prepays, pp_request[p] = "approved",
               NEW q \in Prepays, NEW l \in Lines, CreatePrepayment(q, l)
        PROVE  pp_line[p] # l
    BY <1>2 DEF CreatePrepayment, BlocksDuplicate
  <1>3. TypeOK /\ WireInv /\ [Next]_vars =>
          [\A p \in Prepays :
              pp_status[p] = "void" /\ pp_request[p] = "approved" =>
                 /\ pp_status'[p] = "void" /\ pp_request'[p] = "approved"
                 /\ pp_line'[p] \in {pp_line[p], NoLine}
                 /\ \A q \in Prepays, l \in Lines :
                       CreatePrepayment(q, l) => pp_line[p] # l]_vars
    BY <1>1, <1>2, WireMoves
  <1> QED
    BY TypeCorrect, WireInvAlways, <1>3, PTL DEF Spec

\* A plan in flight, halted or completed carries the manager's decision.
FlightApproved == status \in {"active", "halted", "completed"} => approved_at

\* The work on lines and prepayments moves the plan between active and
\* completed only, and never touches the stamp of the decision.
LEMMA WorkMoves ==
    ASSUME LineNext \/ PrepayNext
    PROVE  /\ UNCHANGED approved_at
           /\ \/ UNCHANGED status
              \/ {status, status'} \subseteq {"active", "completed"}
  <1> USE DEF planVars
  <1>1. ASSUME NEW l \in Lines,
               \/ ConfirmPO(l) \/ RejectPO(l) \/ EditPONumber(l) \/ FlagIssue(l)
               \/ ResolveIssue(l) \/ Claim(l) \/ MarkReceived(l) \/ AddLine(l)
        PROVE  UNCHANGED <<approved_at, status>>
    BY <1>1 DEF ConfirmPO, RejectPO, EditPONumber, FlagIssue, ResolveIssue, Claim,
                MarkReceived, AddLine
  <1>2. ASSUME NEW ls, CheckCompletion(ls)
        PROVE  UNCHANGED status \/ (status = "active" /\ status' = "completed")
    BY <1>2, CompletionCases
  <1>3. ASSUME NEW l \in Lines, ApprovePO(l)
        PROVE  UNCHANGED approved_at /\ CheckCompletion(line_status')
    BY <1>3 DEF ApprovePO
  <1>4. ASSUME NEW A \in SUBSET Lines, NEW D \in SUBSET Lines, SaveLines(A, D)
        PROVE  UNCHANGED approved_at /\ CheckCompletion(line_status')
    BY <1>4 DEF SaveLines
  <1>5. ASSUME NEW T \in SUBSET Lines, Resource(T)
        PROVE  /\ UNCHANGED approved_at
               /\ status \in {"active", "completed"} /\ status' = "active"
    BY <1>5 DEF Resource
  <1>6. PrepayNext => UNCHANGED <<approved_at, status>>
    BY DEF PrepayNext, CreatePrepayment, DecidePrepayment, SettlePrepayRequestOnly,
           MarkPaid, UnmarkPaid
  <1> QED
    BY <1>1, <1>2, <1>3, <1>4, <1>5, <1>6 DEF LineNext

\* A plan comes into flight without the manager's decision only by way of a
\* halt while it waits for that decision: resuming it, the step that shows,
\* and every other handler keep FlightApproved.
THEOREM OnlyHaltSkipsApproval ==
    Spec => [][FlightApproved => \/ FlightApproved'
                                 \/ Halt /\ status = "pending"]_vars
  <1>1. [Next]_vars => [FlightApproved => \/ FlightApproved'
                                          \/ Halt /\ status = "pending"]_vars
    <2> SUFFICES ASSUME Next, FlightApproved, ~(Halt /\ status = "pending")
                 PROVE  FlightApproved'
      OBVIOUS
    <2> USE DEF FlightApproved
    <2>1. CASE Submit \/ ResubmitPlan
      BY <2>1 DEF Submit, ResubmitPlan
    <2>2. CASE DecidePlanLegacy \/ \E r \in Requests : DecidePlan(r)
      BY <2>2 DEF DecidePlanLegacy, DecidePlan, ApproveEffects, RejectEffects
    <2>3. CASE \E r \in Requests : CancelPlanRequest(r)
      BY <2>3 DEF CancelPlanRequest, planVars
    <2>4. CASE Halt \/ Resume \/ ResetToDraft \/ CancelPlan
      BY <2>4 DEF Halt, Resume, ResetToDraft, CancelPlan
    <2>5. CASE StockAutocomplete
      BY <2>5 DEF StockAutocomplete
    <2>6. CASE StartupSweep
      BY <2>6 DEF StartupSweep
    <2>7. CASE LineNext \/ PrepayNext
      BY <2>7, WorkMoves
    <2> QED
      BY <2>1, <2>2, <2>3, <2>4, <2>5, <2>6, <2>7 DEF Next, PlanNext
  <1> QED
    BY <1>1, PTL DEF Spec
=============================================================================
