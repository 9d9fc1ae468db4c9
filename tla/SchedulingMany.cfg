SPECIFICATION Spec
CONSTANTS
    Engine = {e1, e2, e3}
    Caller = {c1}
    Nobody = Nobody
    Task <- MCTask
    TaskEndID = "END"
    TaskType <- MCTaskType
    Transitions <- MCTransitions
    Action <- MCAction
    CreateTime <- MCCreateTime
    StartTask <- Mixed
    Callbacks = 1
    MaxInstances = 1
    MaxRows = 7
    MaxUuids = 4
    MaxFaults = 1
    RetryAttempts = 2
SYMMETRY Symmetry
CHECK_DEADLOCK FALSE
INVARIANTS AtMostTwoRuns NothingLost PanicLeavesTaskWaiting SleeperHasWaker
