SPECIFICATION MCSpec
CONSTANTS
    Lines = {l1, l2}
    Requests = {r1, r2}
    Prepays = {p1, p2}
    NoLine = NoLine
SYMMETRY Symmetry
INVARIANTS
    TypeOK
    OneOpenGate
    NoUnsentWireOnDeadPlan
    TokenFollowsAuthorisation
    NoUndecidedPOOnEndedPlan
    CompletedDealIsClosed
    AwaitingLineIsClean
    NoDoublePayment
PROPERTIES
    PaidIsNeverVoided
    LastLineEndsPlan
    VoidedForCause
    ImplementsLedger
CHECK_DEADLOCK FALSE
