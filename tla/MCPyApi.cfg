CONSTANTS
    t1 = t1
    t2 = t2
    Threads = {t1, t2}
    Unset = Unset
    NULL = NULL
    Unreadable = Unreadable
    Offsets <- MCOffsets
    Garbage <- MCGarbage
    InitialDbs <- MCInitialDbs
    Arguments <- MCArguments
    MaxQueries = 1
    MaxUpdates = 2
    MaxRows = 3
SPECIFICATION Spec
SYMMETRY MCSymmetry
INVARIANTS
    WritesInside
    InventoryExact
    IdsAttached
    ExceptionExplained
CHECK_DEADLOCK FALSE
