SPECIFICATION Spec
CONSTANTS
    Processors = {p1, p2}
    Macs = {m1}
    Clients = {c1, c2}
    NoMac = NoMac
    Protocols <- MCProtocols
    InitialDbs <- MCInitialDbs
    MaxRequests = 2
    MaxRef = 2
    ConstraintError = 1
INVARIANT IdsDense
INVARIANT MacRowsBounded
INVARIANT CreatedIsReported
INVARIANT OnlineReported
CHECK_DEADLOCK FALSE
SYMMETRY MCSymmetry
