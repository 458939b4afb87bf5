SPECIFICATION FairSpec
CONSTANTS
    NULL = NULL
    NoRequest = NoRequest
    VFM = VFM
    NoId = NoId
    h1 = h1
    Hosts = {h1}
    FpHosts <- MCFpHosts
    Requests <- MCRequests
    Processors = {p1, p2}
    Addrs = {a1, a2, a3}
    OtherCodes = {}
    MapLen = 4
    MaxLogins = 1
    MaxDup = 0
    MaxLost = 0
    MaxEls = 0
PROPERTY VfmRejectAborts
CHECK_DEADLOCK FALSE
