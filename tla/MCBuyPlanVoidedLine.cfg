SPECIFICATION Spec
CONSTANTS
    Lines = {l1}
    Requests = {r1}
    Prepays = {p1}
    NoLine = NoLine
SYMMETRY Symmetry
INVARIANTS
    VoidReopensLine
CHECK_DEADLOCK FALSE
