------------------------ MODULE ApprovalEngineProofs ------------------------
(***************************************************************************)
(* Proofs about ApprovalEngine for every set of users and callers.  All    *)
(* writes of the request and its slots are committed by the caller that    *)
(* holds the request's row lock; what it checked under the lock still      *)
(* holds when it commits, the copy of a page excepted.                     *)
(***************************************************************************)
EXTENDS ApprovalEngine, FiniteSetTheorems, TLAPS

Deciders == {u \in Users : slot[u] \in Outcomes}

\* A caller runs a call, at a step of that call; only a thread reassigns.
CallInv ==
    \A c \in Callers : pc[c] # "idle" =>
        /\ op[c] \in Ops
        /\ pc[c] \in {"read", "flush"} => op[c].kind = "reassign"
        /\ pc[c] = "write" => op[c].kind = "decide"
        /\ op[c].kind = "reassign" => c \in Threads
        /\ pc[c] = "preload" => c \in Pages

\* Past the lock a caller holds it, and what it checked there is still so.
LockInv ==
    \A c \in Callers : pc[c] \in {"write", "commit"} =>
        /\ reqLock = c
        /\ c \in Threads => req = "requested"
        /\ op[c].kind = "decide" => slot[op[c].user] = "pending"

\* A decided slot belongs to a resolved request, and there are finitely many.
DecidedInv ==
    /\ req = "requested" => Deciders = {}
    /\ IsFiniteSet(Deciders)

\* A reassign that has flushed holds both slots, and the new one is not there yet.
FlushedInv ==
    \A c \in Callers : pc[c] \in {"lock", "commit"} /\ op[c].kind = "reassign" =>
        /\ slotLock[op[c].user] = c /\ slotLock[op[c].to] = c
        /\ slot[op[c].to] = "none"

\* The slot a reassign read pending is handed on, or its request is resolved.
ReadInv ==
    \A c \in Callers :
        /\ pc[c] \in {"flush", "lock", "commit"} /\ op[c].kind = "reassign"
        /\ req = "requested"
        => slot[op[c].user] \in {"pending", "reassigned"}

EngineInv ==
    TypeOK /\ CallInv /\ LockInv /\ DecidedInv /\ FlushedInv /\ ReadInv /\ NoticePerDecision

\* What the kinds of call hold.
LEMMA OpFields ==
    ASSUME NEW o \in Ops
    PROVE  /\ o.kind \in {"decide", "reassign", "cancel"}
           /\ o.kind = "decide" => o.user \in Users /\ o.outcome \in Outcomes
           /\ o.kind = "reassign" => o.user \in Users /\ o.to \in Users
  BY DEF Ops, DecideOps, ReassignOps, CancelOps

\* The invariant holds of a fresh request.
LEMMA EngineInitial == EngineInit => EngineInv
<1> SUFFICES ASSUME EngineInit PROVE EngineInv
  OBVIOUS
<1>1. Deciders = {}
  BY DEF EngineInit, Init, Deciders, Outcomes
<1>2. TypeOK
  BY DEF EngineInit, Init, TypeOK, RequestStatus, SlotStatus, Steps
<1>3. IsFiniteSet(Deciders) /\ Cardinality(Deciders) = 0
  BY <1>1, FS_EmptySet
<1>4. NoticePerDecision
  BY <1>3 DEF EngineInit, Init, NoticePerDecision, Deciders
<1> QED
  BY <1>1, <1>2, <1>3, <1>4
     DEF EngineInit, EngineInv, CallInv, LockInv, DecidedInv, FlushedInv, ReadInv

\* Every step keeps the types.
LEMMA EngineType ==
    ASSUME TypeOK, CallInv, EngineNext
    PROVE  TypeOK'
<1> USE DEF TypeOK, RequestStatus, SlotStatus, Steps
<1>1. ASSUME NEW c \in Callers, Begin(c)
      PROVE  TypeOK'
  BY <1>1 DEF Begin, Goto, gateVars
<1>2. ASSUME NEW c \in Callers, Finish(c), req' \in RequestStatus,
             slot' \in [Users -> SlotStatus], notices' \in Nat
      PROVE  TypeOK'
  BY <1>2 DEF Finish
<1>3. ASSUME NEW c \in Callers, RollBack(c)
      PROVE  TypeOK'
  BY <1>2, <1>3 DEF RollBack, gateVars
<1>4. ASSUME NEW c \in Callers, Step(c)
      PROVE  TypeOK'
  <2>1. CASE Preload(c)
    BY <1>3, <2>1 DEF Preload, Goto, gateVars
  <2>2. CASE ReadSlot(c)
    BY <1>3, <2>2 DEF ReadSlot, Goto, gateVars
  <2>3. CASE FlushReassign(c)
    BY <1>3, <2>3 DEF FlushReassign, Goto, gateVars
  <2>4. CASE LockRequest(c)
    BY <1>3, <2>4 DEF LockRequest, Goto, gateVars
  <2>5. CASE WriteSlot(c)
    BY <2>5 DEF WriteSlot, Goto, gateVars
  <2>6. CASE Commit(c)
    <3>1. op[c] \in Ops
      BY <2>6 DEF Commit, CallInv
    <3>2. CASE CommitDecide(c)
      BY <1>2, <2>6, <3>1, <3>2, OpFields DEF Commit, CommitDecide, Outcomes
    <3>3. CASE CommitCancel(c)
      BY <1>2, <2>6, <3>3 DEF Commit, CommitCancel
    <3>4. CASE CommitReassign(c)
      BY <1>2, <2>6, <3>1, <3>4, OpFields DEF Commit, CommitReassign
    <3> QED
      BY <2>6, <3>2, <3>3, <3>4 DEF Commit
  <2>7. CASE GiveUp(c)
    BY <1>3, <2>7 DEF GiveUp
  <2> QED
    BY <1>4, <2>1, <2>2, <2>3, <2>4, <2>5, <2>6, <2>7 DEF Step
<1> QED
  BY <1>1, <1>4 DEF EngineNext

-----------------------------------------------------------------------------
\* A step that commits nothing keeps the request and its slots.
LEMMA Uncommitted ==
    ASSUME NEW c \in Callers, Step(c), ~Commit(c)
    PROVE  UNCHANGED gateVars
  BY DEF Step, Preload, ReadSlot, FlushReassign, LockRequest, WriteSlot, GiveUp, RollBack, gateVars

\* Of what is a caller's own, a step changes only the caller's.
LEMMA OwnStep ==
    ASSUME TypeOK, NEW c \in Callers, Begin(c) \/ Step(c), NEW d \in Callers \ {c}
    PROVE  /\ pc'[d] = pc[d] /\ op'[d] = op[d]
           /\ reqLock = d => reqLock' = d
           /\ \A u \in Users : slotLock[u] = d => slotLock'[u] = d
<1> USE CallersAssumption DEF TypeOK, Goto, Finish, RollBack
<1>1. CASE Begin(c)
  BY <1>1 DEF Begin
<1>2. CASE Preload(c) \/ ReadSlot(c) \/ GiveUp(c)
  BY <1>2 DEF Preload, ReadSlot, GiveUp
<1>3. CASE FlushReassign(c)
  BY <1>3 DEF FlushReassign, SlotsFree
<1>4. CASE LockRequest(c)
  BY <1>4 DEF LockRequest, RequestFree
<1>5. CASE WriteSlot(c)
  BY <1>5 DEF WriteSlot, SlotsFree
<1>6. CASE Commit(c)
  BY <1>6 DEF Commit
<1> QED
  BY <1>1, <1>2, <1>3, <1>4, <1>5, <1>6 DEF Step

\* A caller that finishes is idle; its step was a call of its own otherwise.
LEMMA CallStep ==
    ASSUME TypeOK, CallInv, EngineNext
    PROVE  CallInv'
<1> USE CallersAssumption DEF TypeOK, CallInv, Goto, Finish, RollBack
<1> SUFFICES ASSUME NEW c \in Callers, Begin(c) \/ Step(c)
             PROVE  CallInv'
  BY DEF EngineNext
<1> SUFFICES pc'[c] # "idle" =>
               /\ op'[c] \in Ops
               /\ pc'[c] \in {"read", "flush"} => op'[c].kind = "reassign"
               /\ pc'[c] = "write" => op'[c].kind = "decide"
               /\ op'[c].kind = "reassign" => c \in Threads
               /\ pc'[c] = "preload" => c \in Pages
  BY OwnStep
<1>1. CASE Begin(c)
  <2>1. PICK o \in Ops :
          /\ o \in ReassignOps => c \in Threads
          /\ op' = [op EXCEPT ![c] = o]
          /\ Goto(c, IF c \in Pages THEN "preload"
                     ELSE IF o.kind = "reassign" THEN "read" ELSE "lock")
    BY <1>1 DEF Begin
  <2>2. o.kind = "reassign" => o \in ReassignOps
    BY DEF Ops, DecideOps, CancelOps, ReassignOps
  <2> QED
    BY <2>1, <2>2
<1>2. CASE Preload(c) \/ ReadSlot(c) \/ FlushReassign(c) \/ GiveUp(c)
  BY <1>2 DEF Preload, ReadSlot, FlushReassign, GiveUp
<1>3. CASE LockRequest(c)
  BY <1>3 DEF LockRequest
<1>4. CASE WriteSlot(c) \/ Commit(c)
  BY <1>4 DEF WriteSlot, Commit
<1> QED
  BY <1>1, <1>2, <1>3, <1>4 DEF Step

\* What a commit does, and that no other caller is past the lock meanwhile.
LEMMA CommitFacts ==
    ASSUME EngineInv, NEW c \in Callers, Commit(c)
    PROVE  /\ \A d \in Callers \ {c} : pc[d] \notin {"write", "commit"}
           /\ pc'[c] = "idle"
           /\ op[c] \in Ops
           /\ \/ /\ CommitDecide(c)
                 /\ op[c].user \in Users /\ op[c].outcome \in Outcomes
                 /\ slot[op[c].user] = "pending"
              \/ CommitCancel(c)
              \/ /\ CommitReassign(c)
                 /\ op[c].user \in Users /\ op[c].to \in Users
                 /\ req = "requested"
                 /\ slotLock[op[c].user] = c /\ slotLock[op[c].to] = c
                 /\ slot[op[c].to] = "none"
                 /\ slot[op[c].user] \in {"pending", "reassigned"}
<1> USE DEF EngineInv, TypeOK
<1>1. reqLock = c /\ pc[c] = "commit" /\ pc'[c] = "idle" /\ op[c] \in Ops
  BY DEF Commit, Finish, LockInv, CallInv
<1>2. \A d \in Callers \ {c} : pc[d] \notin {"write", "commit"}
  BY <1>1 DEF LockInv
<1>3. CASE CommitDecide(c)
  BY <1>1, <1>2, <1>3, OpFields DEF CommitDecide, LockInv
<1>4. CASE CommitCancel(c)
  BY <1>1, <1>2, <1>4
<1>5. CASE CommitReassign(c)
  BY <1>1, <1>2, <1>5, OpFields DEF CommitReassign, LockInv, CallInv, FlushedInv, ReadInv
<1> QED
  BY <1>3, <1>4, <1>5 DEF Commit
\* The request's lock and what was checked under it survive every step.
LEMMA LockStep ==
    ASSUME EngineInv, NEW c \in Callers, Begin(c) \/ Step(c)
    PROVE  LockInv'
<1> USE CallersAssumption DEF EngineInv, TypeOK, Steps, LockInv, Goto, Finish, RollBack
<1>1. CASE Commit(c)
  <2> SUFFICES ASSUME NEW d \in Callers PROVE pc'[d] \notin {"write", "commit"}
    OBVIOUS
  <2> QED
    BY <1>1, CommitFacts, OwnStep
<1>2. CASE ~Commit(c)
  <2>1. UNCHANGED gateVars
    BY <1>2, Uncommitted DEF Begin
  <2>2. ASSUME NEW d \in Callers \ {c}, pc'[d] \in {"write", "commit"}
        PROVE  /\ reqLock' = d
               /\ d \in Threads => req' = "requested"
               /\ op'[d].kind = "decide" => slot'[op'[d].user] = "pending"
    BY <2>1, <2>2, OwnStep DEF gateVars
  <2>3. ASSUME pc'[c] \in {"write", "commit"}
        PROVE  /\ reqLock' = c
               /\ c \in Threads => req' = "requested"
               /\ op'[c].kind = "decide" => slot'[op'[c].user] = "pending"
    <3>1. CASE LockRequest(c)
      BY <2>1, <2>3, <3>1 DEF LockRequest, Passes, gateVars
    <3>2. CASE WriteSlot(c)
      BY <2>1, <3>2 DEF WriteSlot, gateVars
    <3>3. CASE Begin(c)
      BY <2>3, <3>3 DEF Begin
    <3>4. CASE Preload(c) \/ ReadSlot(c) \/ FlushReassign(c) \/ GiveUp(c)
      BY <2>3, <3>4 DEF Preload, ReadSlot, FlushReassign, GiveUp
    <3> QED
      BY <1>2, <3>1, <3>2, <3>3, <3>4 DEF Step
  <2> QED
    BY <2>2, <2>3
<1> QED
  BY <1>1, <1>2

\* A commit decides at most the caller's slot, and then the request.
LEMMA DecidedStep ==
    ASSUME EngineInv, NEW c \in Callers, Begin(c) \/ Step(c)
    PROVE  DecidedInv' /\ NoticePerDecision'
<1> USE DEF EngineInv, DecidedInv
<1>0. NoticePerDecision <=> notices = 2 * Cardinality(Deciders)
  BY DEF NoticePerDecision, Deciders
<1>1. CASE UNCHANGED gateVars
  BY <1>1 DEF gateVars, Deciders, NoticePerDecision
<1>2. CASE Commit(c) /\ CommitDecide(c) /\ op[c].user \in Users
           /\ op[c].outcome \in Outcomes /\ slot[op[c].user] = "pending"
  <2>1. Deciders' = Deciders \cup {op[c].user}
    BY <1>2 DEF CommitDecide, Deciders, TypeOK
  <2>2. op[c].user \notin Deciders
    BY <1>2 DEF Deciders, Outcomes
  <2>3. /\ IsFiniteSet(Deciders')
        /\ Cardinality(Deciders') = Cardinality(Deciders) + 1
    BY <2>1, <2>2, FS_AddElement
  <2>4. Cardinality(Deciders) \in Nat
    BY FS_CardinalityType
  <2>5. notices' = 2 * Cardinality(Deciders')
    BY <1>0, <1>2, <2>3, <2>4 DEF CommitDecide
  <2>6. req' # "requested"
    BY <1>2 DEF CommitDecide, Outcomes
  <2> QED
    BY <2>3, <2>5, <2>6 DEF NoticePerDecision, Deciders
<1>3. CASE Commit(c) /\ CommitCancel(c)
  <2>1. Deciders' = Deciders /\ req' # "requested" /\ notices' = notices
    BY <1>3 DEF CommitCancel, Deciders
  <2> QED
    BY <1>0, <2>1 DEF NoticePerDecision, Deciders
<1>4. CASE Commit(c) /\ CommitReassign(c) /\ req = "requested"
  <2>1. Deciders = {} /\ notices' = notices /\ Deciders' = {}
    BY <1>4 DEF CommitReassign, Deciders, TypeOK, Outcomes
  <2> QED
    BY <1>0, <2>1 DEF NoticePerDecision, Deciders
<1> QED
  BY <1>1, <1>2, <1>3, <1>4, Uncommitted, CommitFacts DEF Begin

\* The slots a reassign holds are nobody else's to write.
LEMMA FlushedStep ==
    ASSUME EngineInv, NEW c \in Callers, Begin(c) \/ Step(c)
    PROVE  FlushedInv'
<1> USE CallersAssumption DEF EngineInv, TypeOK, FlushedInv
<1>1. ASSUME NEW d \in Callers \ {c}, pc[d] \in {"lock", "commit"}, op[d].kind = "reassign"
      PROVE  /\ slotLock'[op[d].user] = d /\ slotLock'[op[d].to] = d
             /\ slot'[op[d].to] = "none"
  <2>1. op[d].user \in Users /\ op[d].to \in Users
    BY <1>1, OpFields DEF CallInv
  <2>2. slotLock'[op[d].user] = d /\ slotLock'[op[d].to] = d
    BY <1>1, <2>1, OwnStep
  <2>3. CASE ~Commit(c)
    <3>1. slot' = slot
      BY <2>3, Uncommitted DEF Begin, gateVars
    <3> QED
      BY <1>1, <2>2, <3>1
  <2>4. CASE Commit(c)
    <3> DEFINE v == op[d].to
    <3>1. slot[v] = "none" /\ v \in Users /\ slotLock[v] = d
      BY <1>1, <2>1
    <3> HIDE DEF v
    <3>2. slot'[v] = "none"
      BY <2>4, <3>1, CommitFacts DEF CommitDecide, CommitCancel, CommitReassign
    <3> QED
      BY <2>2, <3>2 DEF v
  <2> QED
    BY <2>2, <2>3, <2>4
<1>2. ASSUME pc'[c] \in {"lock", "commit"}, op'[c].kind = "reassign"
      PROVE  /\ slotLock'[op'[c].user] = c /\ slotLock'[op'[c].to] = c
             /\ slot'[op'[c].to] = "none"
  <2> USE DEF Goto, Finish, RollBack, gateVars
  <2>1. CASE Begin(c)
    <3>1. PICK o \in Ops :
            /\ op' = [op EXCEPT ![c] = o]
            /\ Goto(c, IF c \in Pages THEN "preload"
                       ELSE IF o.kind = "reassign" THEN "read" ELSE "lock")
            /\ o \in ReassignOps => c \in Threads
      BY <2>1 DEF Begin
    <3>2. o.kind = "reassign" => o \in ReassignOps
      BY DEF Ops, DecideOps, CancelOps, ReassignOps
    <3> QED
      BY <1>2, <3>1, <3>2
  <2>2. CASE FlushReassign(c)
    <3>1. op[c].user \in Users /\ op[c].to \in Users
      BY <2>2, OpFields DEF FlushReassign, CallInv
    <3> QED
      BY <1>2, <2>2, <3>1 DEF FlushReassign
  <2>3. CASE LockRequest(c)
    BY <1>2, <2>3 DEF LockRequest
  <2>4. CASE WriteSlot(c)
    BY <1>2, <2>4 DEF WriteSlot, CallInv
  <2>5. CASE Preload(c)
    BY <1>2, <2>5 DEF Preload, CallInv
  <2>6. CASE ReadSlot(c) \/ GiveUp(c) \/ Commit(c)
    BY <1>2, <2>6 DEF ReadSlot, GiveUp, Commit
  <2> QED
    BY <2>1, <2>2, <2>3, <2>4, <2>5, <2>6 DEF Step
<1> QED
  BY <1>1, <1>2, OwnStep
\* A slot once read pending can only be handed on while the request is open.
LEMMA ReadStep ==
    ASSUME EngineInv, NEW c \in Callers, Begin(c) \/ Step(c)
    PROVE  ReadInv'
<1> USE CallersAssumption DEF EngineInv, TypeOK, ReadInv
<1>1. ASSUME NEW d \in Callers \ {c}, pc[d] \in {"flush", "lock", "commit"},
             op[d].kind = "reassign", req' = "requested"
      PROVE  slot'[op[d].user] \in {"pending", "reassigned"}
  <2> DEFINE v == op[d].user
  <2>1. v \in Users
    BY <1>1, OpFields DEF CallInv
  <2>2. CASE ~Commit(c)
    <3>1. slot' = slot /\ req' = req
      BY <2>2, Uncommitted DEF Begin, gateVars
    <3> QED
      BY <1>1, <3>1
  <2>3. CASE Commit(c)
    <3>1. req = "requested" => slot[v] \in {"pending", "reassigned"}
      BY <1>1
    <3> HIDE DEF v
    <3>2. slot'[v] \in {"pending", "reassigned"}
      BY <1>1, <2>1, <2>3, <3>1, CommitFacts
         DEF CommitDecide, CommitCancel, CommitReassign, Outcomes
    <3> QED
      BY <3>2 DEF v
  <2> QED
    BY <2>2, <2>3
<1>2. ASSUME pc'[c] \in {"flush", "lock", "commit"}, op'[c].kind = "reassign",
             req' = "requested"
      PROVE  slot'[op'[c].user] \in {"pending", "reassigned"}
  <2> USE DEF Goto, Finish, RollBack, gateVars
  <2>1. CASE Begin(c)
    <3>1. PICK o \in Ops :
            /\ op' = [op EXCEPT ![c] = o]
            /\ Goto(c, IF c \in Pages THEN "preload"
                       ELSE IF o.kind = "reassign" THEN "read" ELSE "lock")
            /\ o \in ReassignOps => c \in Threads
      BY <2>1 DEF Begin
    <3>2. o.kind = "reassign" => o \in ReassignOps
      BY DEF Ops, DecideOps, CancelOps, ReassignOps
    <3> QED
      BY <1>2, <3>1, <3>2
  <2>2. CASE ReadSlot(c)
    BY <1>2, <2>2 DEF ReadSlot
  <2>3. CASE FlushReassign(c)
    BY <1>2, <2>3 DEF FlushReassign
  <2>4. CASE LockRequest(c)
    BY <1>2, <2>4 DEF LockRequest
  <2>5. CASE WriteSlot(c)
    BY <1>2, <2>5 DEF WriteSlot, CallInv
  <2>6. CASE Preload(c)
    BY <1>2, <2>6 DEF Preload, CallInv
  <2>7. CASE GiveUp(c) \/ Commit(c)
    BY <1>2, <2>7 DEF GiveUp, Commit
  <2> QED
    BY <2>1, <2>2, <2>3, <2>4, <2>5, <2>6, <2>7 DEF Step
<1> QED
  BY <1>1, <1>2, OwnStep

\* The inductive invariant.
LEMMA EngineInvariant == EngineSpec => []EngineInv
<1>1. EngineInit => EngineInv
  BY EngineInitial
<1>2. EngineInv /\ [EngineNext]_vars => EngineInv'
  <2> SUFFICES ASSUME EngineInv, [EngineNext]_vars
               PROVE  EngineInv'
    OBVIOUS
  <2>1. CASE EngineNext
    BY <2>1, EngineType, CallStep, LockStep, DecidedStep, FlushedStep, ReadStep
       DEF EngineInv, EngineNext
  <2>2. CASE UNCHANGED vars
    BY <2>2 DEF vars, gateVars, EngineInv, TypeOK, CallInv, LockInv, DecidedInv,
                FlushedInv, ReadInv, NoticePerDecision, Deciders
  <2> QED
    BY <2>1, <2>2
<1> QED
  BY <1>1, <1>2, PTL DEF EngineSpec

-----------------------------------------------------------------------------
\* Type correctness of the statements of decide, cancel and reassign.
THEOREM EngineTypeCorrect == EngineSpec => []TypeOK
  BY EngineInvariant, PTL DEF EngineInv

\* Two notices for every slot that decided, however calls interleave, with the
\* stale pages too.
THEOREM NoticesMatchDecisions == EngineSpec => []NoticePerDecision
  BY EngineInvariant, PTL DEF EngineInv

\* A slot is opened by a reassign on an open request only: its re-read of the
\* request under the lock is still true when it commits.
THEOREM SlotsOpenOnOpenRequests == EngineSpec => HandOverOnlyWhileOpen
<1>1. EngineInv /\ [EngineNext]_vars =>
        [\A u \in Users :
            slot[u] = "none" /\ slot'[u] = "pending" => req = "requested"]_vars
  <2> SUFFICES ASSUME EngineInv, NEW c \in Callers, Begin(c) \/ Step(c), NEW u \in Users,
                      slot[u] = "none", slot'[u] = "pending"
               PROVE  req = "requested"
    BY DEF EngineNext
  <2>1. Commit(c)
    BY Uncommitted DEF Begin, gateVars
  <2> QED
    BY <2>1, CommitFacts DEF CommitDecide, CommitCancel, EngineInv, TypeOK, Outcomes
<1> QED
  BY <1>1, EngineInvariant, PTL DEF EngineSpec, HandOverOnlyWhileOpen

\* A decision commits on a slot that is pending at that moment, never on one
\* handed on since it was checked.
THEOREM DecidersHoldSlots == EngineSpec => DeciderHoldsSlot
<1>1. EngineInv /\ [EngineNext]_vars =>
        [\A u \in Users :
            slot'[u] # slot[u] /\ slot'[u] \in Outcomes => slot[u] = "pending"]_vars
  <2> SUFFICES ASSUME EngineInv, NEW c \in Callers, Begin(c) \/ Step(c), NEW u \in Users,
                      slot'[u] # slot[u], slot'[u] \in Outcomes
               PROVE  slot[u] = "pending"
    BY DEF EngineNext
  <2>1. Commit(c)
    BY Uncommitted DEF Begin, gateVars
  <2> QED
    BY <2>1, CommitFacts
       DEF CommitDecide, CommitCancel, CommitReassign, EngineInv, TypeOK, Outcomes
<1> QED
  BY <1>1, EngineInvariant, PTL DEF EngineSpec, DeciderHoldsSlot

\* Without stale pages the engine implements ApprovalGate: its locks make every
\* commit one step of the gate and every other statement a stutter.
THEOREM EngineKeepsGate ==
    ASSUME Pages = {}
    PROVE  EngineSpec => GateKept
<1>1. EngineInit => Gate!Init
  BY DEF EngineInit, Init, Gate!Init
<1>2. EngineInv /\ [EngineNext]_vars => [Gate!Next]_(Gate!gateVars)
  <2> SUFFICES ASSUME EngineInv, NEW c \in Callers, Begin(c) \/ Step(c)
               PROVE  Gate!Next \/ UNCHANGED gateVars
    BY DEF EngineNext, vars, gateVars, Gate!gateVars
  <2> USE DEF EngineInv
  <2>1. CASE ~Commit(c)
    BY <2>1, Uncommitted DEF Begin
  <2>2. CASE Commit(c)
    <3>1. req = "requested"
      BY <2>2, CallersAssumption DEF Commit, LockInv, Callers
    <3>2. notices = 0
      <4>1. Deciders = {}
        BY <3>1 DEF DecidedInv
      <4> QED
        BY <4>1, FS_EmptySet DEF NoticePerDecision, Deciders
    <3>3. CASE CommitDecide(c) /\ op[c].user \in Users /\ op[c].outcome \in Outcomes
               /\ slot[op[c].user] = "pending"
      <4>1. Gate!Decide(op[c].user, op[c].outcome)
        BY <3>1, <3>2, <3>3 DEF CommitDecide, Gate!Decide
      <4> QED
        BY <3>3, <4>1 DEF Gate!Next, Outcomes, Gate!Outcomes
    <3>4. CASE CommitCancel(c)
      BY <3>1, <3>4 DEF CommitCancel, Gate!Cancel, Gate!Next
    <3>5. CASE /\ CommitReassign(c) /\ op[c].user \in Users /\ op[c].to \in Users
               /\ slot[op[c].to] = "none" /\ slot[op[c].user] \in {"pending", "reassigned"}
      <4>1. Gate!HandOver(op[c].user, op[c].to)
        BY <3>1, <3>5 DEF CommitReassign, Gate!HandOver
      <4> QED
        BY <3>5, <4>1 DEF Gate!Next
    <3> QED
      BY <2>2, <3>3, <3>4, <3>5, CommitFacts
  <2> QED
    BY <2>1, <2>2
<1> QED
  BY <1>1, <1>2, EngineInvariant, PTL DEF EngineSpec, GateKept, Gate!Spec

-----------------------------------------------------------------------------
(* Where the promise "a second decision is rejected" breaks. *)

\* A resolution is overwritten by a page that loaded the request before it
\* waited for the lock, and by nobody else.
LEMMA OverwriteIsAPage ==
    ASSUME EngineInv, EngineNext, req # "requested", req' # req
    PROVE  \E c \in Pages : Commit(c)
<1>1. PICK c \in Callers : Begin(c) \/ Step(c)
  BY DEF EngineNext
<1>2. Commit(c)
  BY <1>1, Uncommitted DEF Begin, gateVars
<1>3. c \notin Threads
  BY <1>2 DEF EngineInv, LockInv, Commit
<1> QED
  BY <1>2, <1>3 DEF Callers

\* After the first resolution nothing but the commit of a page, holding the copy
\* it read before it waited, resolves the request anew: the docstring of decide
\* is false by the stale session and by nothing else.
THEOREM OnlyPagesOverwrite ==
    EngineSpec => [][req # "requested" /\ req' # req => \E c \in Pages : Commit(c)]_vars
<1>1. EngineInv /\ [EngineNext]_vars =>
        [req # "requested" /\ req' # req => \E c \in Pages : Commit(c)]_vars
  BY OverwriteIsAPage
<1> QED
  BY <1>1, EngineInvariant, PTL DEF EngineSpec

\* Among the threads of the JSON routes alone a resolution is final: the lock
\* and the fresh read behind it are enough, however many calls race.
THEOREM ThreadsResolveOnce ==
    ASSUME Pages = {}
    PROVE  EngineSpec => ResolvedOnce
<1>1. EngineInv /\ [EngineNext]_vars => [req # "requested" => req' = req]_vars
  BY OverwriteIsAPage
<1> QED
  BY <1>1, EngineInvariant, PTL DEF EngineSpec, ResolvedOnce

-----------------------------------------------------------------------------
(* Why calls end. *)

\* How far a step is from the end of its call.
ToGo(step) ==
    CASE step = "preload" -> 4 [] step = "read"  -> 5 [] step = "flush"  -> 4
      [] step = "lock"    -> 3 [] step = "write" -> 2 [] step = "commit" -> 1
      [] OTHER -> 0

\* A step of a call brings it nearer to its end.
LEMMA StepAdvances ==
    ASSUME TypeOK, NEW c \in Callers, Step(c)
    PROVE  ToGo(pc'[c]) < ToGo(pc[c])
<1> USE DEF TypeOK, Steps, ToGo, Goto, Finish, RollBack
<1>1. CASE Preload(c) \/ ReadSlot(c)
  BY <1>1 DEF Preload, ReadSlot
<1>2. CASE FlushReassign(c)
  BY <1>2 DEF FlushReassign
<1>3. CASE LockRequest(c)
  BY <1>3 DEF LockRequest
<1>4. CASE WriteSlot(c)
  BY <1>4 DEF WriteSlot
<1>5. CASE Commit(c) \/ GiveUp(c)
  BY <1>5 DEF Commit, GiveUp, Blocked
<1> QED
  BY <1>1, <1>2, <1>3, <1>4, <1>5 DEF Step

\* No call is retried or set back, by its own steps or by another caller's:
\* with the fairness of EveryCallEnds, at most five steps end it.
THEOREM CallsOnlyAdvance ==
    EngineSpec => [][\A c \in Callers :
                        pc[c] # "idle" =>
                            \/ pc'[c] = pc[c] /\ op'[c] = op[c]
                            \/ Step(c) /\ ToGo(pc'[c]) < ToGo(pc[c])]_vars
<1>1. ASSUME EngineInv, NEW d \in Callers, Begin(d) \/ Step(d),
             NEW c \in Callers, pc[c] # "idle"
      PROVE  \/ pc'[c] = pc[c] /\ op'[c] = op[c]
             \/ Step(c) /\ ToGo(pc'[c]) < ToGo(pc[c])
  <2>1. CASE c # d
    BY <1>1, <2>1, OwnStep DEF EngineInv
  <2>2. CASE c = d
    <3>1. Step(c)
      BY <1>1, <2>2 DEF Begin
    <3> QED
      BY <1>1, <3>1, StepAdvances DEF EngineInv
  <2> QED
    BY <2>1, <2>2
<1>2. EngineInv /\ [EngineNext]_vars =>
        [\A c \in Callers :
            pc[c] # "idle" =>
                \/ pc'[c] = pc[c] /\ op'[c] = op[c]
                \/ Step(c) /\ ToGo(pc'[c]) < ToGo(pc[c])]_vars
  BY <1>1 DEF EngineNext
<1> QED
  BY <1>2, EngineInvariant, PTL DEF EngineSpec

\* A locked slot belongs to a call that wrote it: a decision about to commit,
\* or a reassign that has flushed.
HolderInv ==
    \A u \in Users, d \in Callers : slotLock[u] = d =>
        \/ pc[d] = "commit"
        \/ pc[d] = "lock" /\ op[d].kind = "reassign"

\* Locks are taken by the statements that write and released with the call.
LEMMA HolderStep ==
    ASSUME EngineInv, HolderInv, NEW c \in Callers, Begin(c) \/ Step(c)
    PROVE  HolderInv'
<1> USE CallersAssumption DEF EngineInv, TypeOK, Steps
<1> SUFFICES ASSUME NEW u \in Users, NEW d \in Callers, slotLock'[u] = d
             PROVE  \/ pc'[d] = "commit"
                    \/ pc'[d] = "lock" /\ op'[d].kind = "reassign"
  BY DEF HolderInv
<1>1. CASE slotLock[u] = d /\ d # c
  BY <1>1, OwnStep DEF HolderInv
<1>2. CASE ~(slotLock[u] = d /\ d # c)
  <2> USE DEF Goto, Finish, RollBack
  <2>1. CASE Begin(c)
    BY <1>2, <2>1 DEF Begin, HolderInv
  <2>2. CASE Preload(c) \/ ReadSlot(c)
    BY <1>2, <2>2 DEF Preload, ReadSlot, HolderInv
  <2>3. CASE FlushReassign(c)
    BY <1>2, <2>3 DEF FlushReassign, HolderInv, CallInv
  <2>4. CASE LockRequest(c)
    BY <1>2, <2>4 DEF LockRequest, HolderInv
  <2>5. CASE WriteSlot(c)
    <3>1. op[c].user \in Users
      BY <2>5, OpFields DEF WriteSlot, CallInv
    <3>2. /\ slotLock' = [slotLock EXCEPT ![op[c].user] = c]
          /\ pc' = [pc EXCEPT ![c] = "commit"]
          /\ UNCHANGED op
      BY <2>5 DEF WriteSlot
    <3> QED
      BY <1>2, <3>1, <3>2 DEF HolderInv
  <2>6. CASE Commit(c) \/ GiveUp(c)
    BY <1>2, <2>6 DEF Commit, GiveUp, HolderInv
  <2> QED
    BY <2>1, <2>2, <2>3, <2>4, <2>5, <2>6 DEF Step
<1> QED
  BY <1>1, <1>2

\* The two lock orders meet in one way only: a decision that finds its slot
\* locked holds the request, and the slot's holder is a reassign that waits
\* for just that request.  Every such wait is a deadlock, and giving up, by
\* lock_timeout or by the deadlock detector, is its one way out.
THEOREM SlotWaitIsDeadlock ==
    EngineSpec =>
        [](\A c \in Callers :
              pc[c] = "write" /\ Blocked(c) =>
                  \E d \in Callers \ {c} :
                      /\ slotLock[op[c].user] = d /\ reqLock = c
                      /\ pc[d] = "lock" /\ op[d].kind = "reassign"
                      /\ Blocked(d))
<1>1. EngineInit => HolderInv
  BY CallersAssumption DEF EngineInit, HolderInv
<1>2. EngineInv /\ HolderInv /\ [EngineNext]_vars => HolderInv'
  <2>1. EngineInv /\ HolderInv /\ EngineNext => HolderInv'
    BY HolderStep DEF EngineNext
  <2>2. HolderInv /\ UNCHANGED vars => HolderInv'
    BY DEF HolderInv, vars
  <2> QED
    BY <2>1, <2>2
<1>3. ASSUME EngineInv, HolderInv, NEW c \in Callers, pc[c] = "write", Blocked(c)
      PROVE  \E d \in Callers \ {c} :
                 /\ slotLock[op[c].user] = d /\ reqLock = c
                 /\ pc[d] = "lock" /\ op[d].kind = "reassign"
                 /\ Blocked(d)
  <2>1. op[c].user \in Users /\ reqLock = c
    BY <1>3, OpFields DEF EngineInv, CallInv, LockInv
  <2>2. PICK d \in Callers \ {c} : slotLock[op[c].user] = d
    BY <1>3, <2>1 DEF Blocked, SlotsFree, EngineInv, TypeOK
  <2>3. pc[d] # "commit"
    BY <1>3, <2>1, <2>2 DEF EngineInv, LockInv
  <2>4. pc[d] = "lock" /\ op[d].kind = "reassign"
    BY <1>3, <2>1, <2>2, <2>3 DEF HolderInv
  <2>5. Blocked(d)
    BY <2>1, <2>4, CallersAssumption DEF Blocked
  <2> QED
    BY <2>1, <2>2, <2>4, <2>5
<1>4. EngineInv /\ HolderInv =>
        \A c \in Callers :
            pc[c] = "write" /\ Blocked(c) =>
                \E d \in Callers \ {c} :
                    /\ slotLock[op[c].user] = d /\ reqLock = c
                    /\ pc[d] = "lock" /\ op[d].kind = "reassign"
                    /\ Blocked(d)
  BY <1>3
<1> QED
  BY <1>1, <1>2, <1>4, EngineInvariant, PTL DEF EngineSpec
=============================================================================
