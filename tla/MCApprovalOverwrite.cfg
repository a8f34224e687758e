SPECIFICATION EngineSpec
CONSTANTS
    Users = {u1, u2}
    Threads = {t1}
    Pages = {g1}
    Nobody = Nobody
    NoOp = NoOp
PROPERTIES
    ResolvedOnce
