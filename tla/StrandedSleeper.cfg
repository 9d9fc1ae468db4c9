SPECIFICATION Spec
CONSTANTS
    Engine = {e1}
    Caller = {c1}
    Nobody = Nobody
    Task <- MCTask
    TaskEndID = "END"
    TaskType <- MCTaskType
    Transitions <- MCTransitions
    Action <- MCAction
    CreateTime <- MCCreateTime
    StartTask <- ListenOnly
    Callbacks = 1
    MaxInstances = 1
    MaxRows = 3
    MaxUuids = 1
    MaxFaults = 0
    RetryAttempts = 2
INVARIANT NoStrandedSleeper
