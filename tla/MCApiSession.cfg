SPECIFICATION FairSpec
CONSTANTS
    Clients = {c1}
    Calls <- MCCalls
    MAX_CLIENT = 2
    BufLen = 1
    MaxLen = 2
    MaxConns = 3
    MaxCalls = 3
    MaxExits = 2
    MaxStops = 1
INVARIANT OwnSocket
INVARIANT AnswerIsOurs
INVARIANT NoSigpipe
PROPERTY CallReturns
PROPERTY ThreadsEnd
PROPERTY ImplementsApiCall
CHECK_DEADLOCK FALSE
