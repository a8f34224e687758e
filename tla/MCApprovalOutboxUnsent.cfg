SPECIFICATION Spec
CONSTANTS
    Decisions = 1
    MaxFail = 2
    MaxAttempts = 2
    MaxCrashes = 0
PROPERTIES
    SendErrorIsNotSent
