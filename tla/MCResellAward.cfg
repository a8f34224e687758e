SPECIFICATION FairSpec
CONSTANTS
    Lines = {l1, l2}
    MaxOffers = 3
    Bidders = {b1}
    NoBidder = NoBidder
    NoBuyer = NoBuyer
INVARIANTS
    TypeOK
    OneWinnerPerLine
    LostIsUnwinnable
    RollupFresh
    MirrorTruth
    ExpiredIsUnsold
    LateStaysLate
PROPERTIES
    WithdrawnStaysWithdrawn
    OverdueIsResolved
    ImplementsLotSale
CHECK_DEADLOCK FALSE
