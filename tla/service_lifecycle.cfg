SPECIFICATION FairSpec
CONSTANTS
    r1 = r1
    r2 = r2
    Handlers <- TwoHandlers
INVARIANT PoolsOutliveUse
PROPERTY SignalEndsProcess
CHECK_DEADLOCK FALSE
