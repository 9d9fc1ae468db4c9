SPECIFICATION FairSpec
CONSTANTS
    Engine = {e1, e2}
    Slot = {s1, s2}
    NoSlot = NoSlot
    MaxOpen = 2
    MaxFaults = 1
CHECK_DEADLOCK FALSE
PROPERTY ReleaseReturns
