SPECIFICATION Spec
CONSTANTS
    NULL = NULL
    NoRequest = NoRequest
    VFM = VFM
    NoId = NoId
    h1 = h1
    Hosts = {h1, h2}
    FpHosts <- MCFpHosts
    Requests <- MCRequests
    Processors = {p1, p2}
    Addrs = {a1, a2, a3}
    OtherCodes = {"other"}
    MapLen = 3
    MaxLogins = 1
    MaxDup = 1
    MaxLost = 1
    MaxEls = 0
INVARIANT ExchangeTracked
INVARIANT EntryIsOurs
INVARIANT RepliesMatch
INVARIANT GatewayIdIsOurs
INVARIANT NoLeak
INVARIANT TableIntact
PROPERTY ImplementsLoginService
CHECK_DEADLOCK FALSE
SYMMETRY MCSymmetry
