SPECIFICATION FairSpec
CONSTANTS
    Decisions = 2
    MaxFail = 2
    MaxAttempts = 2
    MaxCrashes = 2
INVARIANTS
    TypeOK
    InAppExactlyOnce
    MailsBounded
PROPERTIES
    SettledStaysSettled
    ImplementsBoard
    EveryRowSettles
