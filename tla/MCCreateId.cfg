SPECIFICATION Spec
CONSTANTS
    Processors = {}
    Macs = {}
    Clients = {c1, c2}
    NoMac = NoMac
    Protocols <- MCProtocols
    InitialDbs <- MCEmptyDb
    MaxRequests = 1
    MaxRef = 1
    ConstraintError = 1
INVARIANT CreateReturnsOwnId
CHECK_DEADLOCK FALSE
SYMMETRY MCSymmetry
