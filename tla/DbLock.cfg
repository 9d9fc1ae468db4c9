SPECIFICATION FairSpec
CONSTANTS
    Engine = {e1, e2}
    Slot = {s1, s2}
    NoSlot = NoSlot
    MaxOpen = 2
    MaxFaults = 2
CHECK_DEADLOCK FALSE
INVARIANTS TypeOK Exclusive OwnerIsUser
PROPERTIES LostIsCancelled HealthyRelease
