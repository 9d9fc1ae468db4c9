CONSTANTS
    w1 = w1
    w2 = w2
    Writer = {w1, w2}
    Stored = Stored
    NoTable = NoTable
    Plans <- AllPlans
    RetryAttempts = 2
    MaxInst = 2
    MaxFaults = 2
SPECIFICATION FairSpec
INVARIANTS TypeOK SavesAreAtomic ReportIsTrue OneVersion EarlyEndIsExplained
PROPERTY EverybodyReturns
CHECK_DEADLOCK FALSE
