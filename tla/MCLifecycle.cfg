SPECIFICATION FairSpec
CONSTANTS
    Files <- MCFiles
    Interfaces = {"eth0"}
    MaxSignals = 2
    MaxUses = 1
INVARIANT StartsAsConfigured
INVARIANT MisuseTakesTwo
PROPERTY SigintEnds
CHECK_DEADLOCK FALSE
