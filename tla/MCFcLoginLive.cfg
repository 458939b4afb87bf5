SPECIFICATION FairSpec
CONSTANTS
    NULL = NULL
    NoRequest = NoRequest
    VFM = VFM
    NoId = NoId
    h1 = h1
    Hosts = {h1, h2}
    FpHosts <- MCFpHosts
    Requests <- MCRequests
    Processors = {p1, p2}
    Addrs = {1, 2, 3}
    OtherCodes = {}
    MapLen = 4
    MaxLogins = 1
    MaxDup = 0
    MaxLost = 0
    MaxEls = 1
PROPERTY AnswerDelivered
ACTION_CONSTRAINT MCFirstFree
CHECK_DEADLOCK FALSE
