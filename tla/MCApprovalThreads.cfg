SPECIFICATION EngineSpec
CONSTANTS
    Users = {u1, u2, u3}
    Threads = {t1, t2}
    Pages = {}
    Nobody = Nobody
    NoOp = NoOp
SYMMETRY Symmetry
PROPERTIES
    GateKept
