SPECIFICATION FairSpec
CONSTANTS
    Sniffers = {sniffer}
    Processors = {p1, p2}
    Nodes = {n1, n2, n3}
    Frames = {f1, f2}
    NULL = NULL
    NoThread = NoThread
    NoFrame = NoFrame
INVARIANTS
    ListIsFifo
    OneOwner
    NoLostWakeup
PROPERTIES
    ImplementsFifo
    EveryTaskProcessed
