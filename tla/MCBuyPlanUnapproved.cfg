SPECIFICATION Spec
CONSTANTS
    Lines = {l1}
    Requests = {r1}
    Prepays = {p1}
    NoLine = NoLine
SYMMETRY Symmetry
INVARIANTS
    ActiveWasApproved
CHECK_DEADLOCK FALSE
