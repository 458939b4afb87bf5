SPECIFICATION TableSpec
CONSTANTS
    MapLen = 4
    Addrs = {a1, a2, a3, a4, a5}
    Requests = {r1, r2, r3, r4}
    NULL = NULL
    NoRequest = NoRequest
INVARIANTS
    OxidLeadsBack
CHECK_DEADLOCK FALSE
