SPECIFICATION FairEngineSpec
CONSTANTS
    Users = {u1, u2}
    Threads = {t1, t2}
    Pages = {g1}
    Nobody = Nobody
    NoOp = NoOp
INVARIANTS
    TypeOK
    NoticePerDecision
PROPERTIES
    HandOverOnlyWhileOpen
    DeciderHoldsSlot
    EveryCallEnds
