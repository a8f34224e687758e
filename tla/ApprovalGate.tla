---------------------------- MODULE ApprovalGate ----------------------------
(***************************************************************************)
(* What an approval request promises, whoever calls and however the calls  *)
(* interleave: it is resolved once, by the first responder who holds a     *)
(* pending slot or by a cancellation; slots change hands only while it is  *)
(* open; its owner is notified of the one decision on two channels.        *)
(***************************************************************************)
EXTENDS Naturals

CONSTANT Users  \* who may hold a slot

VARIABLES
    req,        \* ApprovalRequest.status
    slot,       \* ApprovalStepRecipient.status by user, "none" without a row
    notices     \* ApprovalOutbox rows enqueued for the request

gateVars == <<req, slot, notices>>

Outcomes == {"approved", "rejected"}

\* route_request opens a slot for every eligible approver, one at least.
Init ==
    /\ req = "requested"
    /\ slot \in [Users -> {"none", "pending"}]
    /\ \E u \in Users : slot[u] = "pending"
    /\ notices = 0

Decide(u, outcome) ==
    /\ req = "requested"
    /\ slot[u] = "pending"
    /\ req' = outcome
    /\ slot' = [slot EXCEPT ![u] = outcome]
    /\ notices' = 2

Cancel ==
    /\ req = "requested"
    /\ req' = "cancelled"
    /\ UNCHANGED <<slot, notices>>

\* The holder of a slot passes it on.  Two hand-overs of one slot may both
\* have read it pending: the second one finds it reassigned already and still
\* opens a slot.
HandOver(u, v) ==
    /\ req = "requested"
    /\ slot[u] \in {"pending", "reassigned"}
    /\ slot[v] = "none"
    /\ slot' = [slot EXCEPT ![u] = "reassigned", ![v] = "pending"]
    /\ UNCHANGED <<req, notices>>

Next ==
    \/ \E u \in Users, outcome \in Outcomes : Decide(u, outcome)
    \/ Cancel
    \/ \E u, v \in Users : HandOver(u, v)

Spec == Init /\ [][Next]_gateVars
=============================================================================
