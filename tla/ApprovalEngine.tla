--------------------------- MODULE ApprovalEngine ---------------------------
(***************************************************************************)
(* The statements of decide, cancel and reassign on one approval request,  *)
(* as the callers interleave them on PostgreSQL at READ COMMITTED.         *)
(*                                                                         *)
(* The JSON routes are plain functions, each run in a thread of the        *)
(* pool.  The pages of the event loop call the same services with the      *)
(* request row already loaded in their session: SELECT ... FOR UPDATE then *)
(* waits for the lock but hands back the row as it was loaded, because a   *)
(* loaded row is not refreshed.  A caller that waits for a row lock is     *)
(* given up by lock_timeout or as the victim of a deadlock.                *)
(***************************************************************************)
EXTENDS ApprovalGate, FiniteSets

CONSTANTS
    Threads,    \* callers of the JSON routes
    Pages,      \* event-loop callers: the decide and cancel buttons
    Nobody,     \* the holder of a free lock
    NoOp        \* the call of an idle caller

Callers == Threads \cup Pages

ASSUME CallersAssumption ==
    /\ Threads \cap Pages = {}
    /\ Nobody \notin Callers

VARIABLES
    reqLock,    \* caller holding the row lock of the request
    slotLock,   \* caller holding the row lock of a slot
    pc,         \* where a caller is
    op,         \* the call it runs
    seen        \* the request's status in the caller's session

vars == <<gateVars, reqLock, slotLock, pc, op, seen>>

DecideOps   == [kind : {"decide"}, user : Users, outcome : Outcomes]
ReassignOps == [kind : {"reassign"}, user : Users, to : Users]
CancelOps   == [kind : {"cancel"}]
Ops         == DecideOps \cup ReassignOps \cup CancelOps

RequestStatus == {"requested", "approved", "rejected", "cancelled"}
SlotStatus    == {"none", "pending", "approved", "rejected", "reassigned"}
Steps         == {"idle", "preload", "read", "flush", "lock", "write", "commit"}

TypeOK ==
    /\ req \in RequestStatus
    /\ slot \in [Users -> SlotStatus]
    /\ notices \in Nat
    /\ reqLock \in Callers \cup {Nobody}
    /\ slotLock \in [Users -> Callers \cup {Nobody}]
    /\ pc \in [Callers -> Steps]
    /\ op \in [Callers -> Ops \cup {NoOp}]
    /\ seen \in [Callers -> RequestStatus]

EngineInit ==
    /\ Init
    /\ reqLock = Nobody
    /\ slotLock = [u \in Users |-> Nobody]
    /\ pc = [c \in Callers |-> "idle"]
    /\ op = [c \in Callers |-> NoOp]
    /\ seen = [c \in Callers |-> "requested"]

-----------------------------------------------------------------------------
\* The end of a call, committed or rolled back: its locks are released.
Finish(c) ==
    /\ pc' = [pc EXCEPT ![c] = "idle"]
    /\ op' = [op EXCEPT ![c] = NoOp]
    /\ seen' = [seen EXCEPT ![c] = "requested"]
    /\ reqLock' = IF reqLock = c THEN Nobody ELSE reqLock
    /\ slotLock' = [u \in Users |-> IF slotLock[u] = c THEN Nobody ELSE slotLock[u]]

RollBack(c) == Finish(c) /\ UNCHANGED gateVars

Goto(c, step) == pc' = [pc EXCEPT ![c] = step]

\* A thread starts with an empty session; a page loads the request first.
\* Only the JSON route reassigns.
Begin(c) ==
    /\ pc[c] = "idle"
    /\ \E o \in Ops :
          /\ o \in ReassignOps => c \in Threads
          /\ op' = [op EXCEPT ![c] = o]
          /\ Goto(c, IF c \in Pages THEN "preload"
                     ELSE IF o.kind = "reassign" THEN "read" ELSE "lock")
    /\ UNCHANGED <<gateVars, reqLock, slotLock, seen>>

\* The page finds the open request of its plan or prepayment.
Preload(c) ==
    /\ pc[c] = "preload"
    /\ \/ /\ req = "requested"
          /\ seen' = [seen EXCEPT ![c] = req]
          /\ Goto(c, "lock")
          /\ UNCHANGED <<gateVars, reqLock, slotLock, op>>
       \/ req # "requested" /\ RollBack(c)

\* reassign: the slot is read without a lock.
ReadSlot(c) ==
    /\ pc[c] = "read"
    /\ \/ /\ slot[op[c].user] = "pending"
          /\ Goto(c, "flush")
          /\ UNCHANGED <<gateVars, reqLock, slotLock, op, seen>>
       \/ slot[op[c].user] # "pending" /\ RollBack(c)

SlotsFree(c, S) == \A u \in S : slotLock[u] \in {Nobody, c}

\* reassign: the old slot is written and the new row inserted before the
\* request is locked; a user holds one row per step.
FlushReassign(c) ==
    /\ pc[c] = "flush"
    /\ SlotsFree(c, {op[c].user, op[c].to})
    /\ \/ /\ slot[op[c].to] = "none"
          /\ slotLock' = [slotLock EXCEPT ![op[c].user] = c, ![op[c].to] = c]
          /\ Goto(c, "lock")
          /\ UNCHANGED <<gateVars, reqLock, op, seen>>
       \/ slot[op[c].to] # "none" /\ RollBack(c)

\* Mutant: SQLite, where FOR UPDATE is a no-op.
NoRowLock(c) == TRUE

RequestFree(c) == reqLock = Nobody

\* Mutant: reassign trusts the slot it read.
PassesUnlessReassign(c, s) ==
    op[c].kind # "reassign" =>
        /\ s = "requested"
        /\ op[c].kind = "decide" => slot[op[c].user] = "pending"

\* Mutant: whoever reaches decide is taken for a recipient.
PassesWithoutSlot(c, s) == s = "requested"

\* The guards a caller applies once it holds the request as status s.
Passes(c, s) ==
    /\ s = "requested"
    /\ op[c].kind = "decide" => slot[op[c].user] = "pending"

\* SELECT ... FOR UPDATE and the guards behind it.
LockRequest(c) ==
    LET s == IF c \in Pages THEN seen[c] ELSE req
    IN  /\ pc[c] = "lock"
        /\ RequestFree(c)
        /\ \/ /\ Passes(c, s)
              /\ reqLock' = c
              /\ seen' = [seen EXCEPT ![c] = s]
              /\ Goto(c, IF op[c].kind = "decide" THEN "write" ELSE "commit")
              /\ UNCHANGED <<gateVars, slotLock, op>>
           \/ ~Passes(c, s) /\ RollBack(c)

\* decide: the recipient row is written and locked.
WriteSlot(c) ==
    /\ pc[c] = "write"
    /\ SlotsFree(c, {op[c].user})
    /\ slotLock' = [slotLock EXCEPT ![op[c].user] = c]
    /\ Goto(c, "commit")
    /\ UNCHANGED <<gateVars, reqLock, op, seen>>

CommitDecide(c) ==
    /\ op[c].kind = "decide"
    /\ req' = op[c].outcome
    /\ slot' = [slot EXCEPT ![op[c].user] = op[c].outcome]
    /\ notices' = notices + 2

\* Mutant: the open slots are closed with the request's own status.
CancelSlotsToo(c) ==
    /\ op[c].kind = "cancel"
    /\ req' = "cancelled"
    /\ slot' = [u \in Users |-> IF slot[u] = "pending" THEN req' ELSE slot[u]]
    /\ UNCHANGED notices

CommitCancel(c) ==
    /\ op[c].kind = "cancel"
    /\ req' = "cancelled"
    /\ UNCHANGED <<slot, notices>>

CommitReassign(c) ==
    /\ op[c].kind = "reassign"
    /\ slot' = [slot EXCEPT ![op[c].user] = "reassigned", ![op[c].to] = "pending"]
    /\ UNCHANGED <<req, notices>>

Commit(c) ==
    /\ pc[c] = "commit"
    /\ CommitDecide(c) \/ CommitCancel(c) \/ CommitReassign(c)
    /\ Finish(c)

\* Mutant: a waiting caller waits for as long as it takes.
WaitsForever(c) == FALSE

\* Waiting for a row lock somebody else holds.
Blocked(c) ==
    \/ pc[c] = "lock" /\ reqLock # Nobody
    \/ pc[c] = "write" /\ ~SlotsFree(c, {op[c].user})
    \/ pc[c] = "flush" /\ ~SlotsFree(c, {op[c].user, op[c].to})

\* lock_timeout, or chosen by the deadlock detector.
GiveUp(c) == Blocked(c) /\ RollBack(c)

Step(c) ==
    \/ Preload(c) \/ ReadSlot(c) \/ FlushReassign(c) \/ LockRequest(c)
    \/ WriteSlot(c) \/ Commit(c) \/ GiveUp(c)

EngineNext == \E c \in Callers : Begin(c) \/ Step(c)

EngineSpec == EngineInit /\ [][EngineNext]_vars

\* A call that was begun keeps running.
FairEngineSpec == EngineSpec /\ \A c \in Callers : WF_vars(Step(c))

-----------------------------------------------------------------------------
(* Properties. *)

\* A slot opens only on an open request: reassign re-reads the request under
\* its lock so that a concurrent decision leaves no orphan slot behind.
HandOverOnlyWhileOpen ==
    [][\A u \in Users :
          slot[u] = "none" /\ slot'[u] = "pending" => req = "requested"]_vars

\* Whoever decides held a pending slot when the decision committed, never
\* one handed on meanwhile.
DeciderHoldsSlot ==
    [][\A u \in Users :
          slot'[u] # slot[u] /\ slot'[u] \in Outcomes => slot[u] = "pending"]_vars

\* The owner is notified once per channel of every slot that decided.
NoticePerDecision ==
    notices = 2 * Cardinality({u \in Users : slot[u] \in Outcomes})

\* decide locks the request before the slot and reassign the slot before the
\* request, yet every call ends.
EveryCallEnds == \A c \in Callers : pc[c] # "idle" ~> pc[c] = "idle"

\* The engine keeps the promise of ApprovalGate when every caller is a thread
\* with an empty session.
Gate == INSTANCE ApprovalGate WITH
    Users <- Users, req <- req, slot <- slot, notices <- notices
GateKept == Gate!Spec

\* "Only an open request can be decided.  A second (concurrent or replayed)
\* decision finds a terminal status and is rejected": a resolved request
\* keeps its resolution.  A page that loaded the request before it waited for
\* the lock overwrites it.
ResolvedOnce == [][req # "requested" => req' = req]_vars
=============================================================================
