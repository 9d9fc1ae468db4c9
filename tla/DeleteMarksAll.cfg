CONSTANTS
    w1 = w1
    w2 = w2
    Writer = {w1, w2}
    Stored = Stored
    NoTable = NoTable
    Plans <- DeletePlan
    RetryAttempts = 2
    MaxInst = 2
    MaxFaults = 0
SPECIFICATION Spec
INVARIANT DeleteMarksAll
CHECK_DEADLOCK FALSE
