SPECIFICATION FairSpec
CONSTANTS
    Engine = {e1}
    Caller = {c1, c2}
    Nobody = Nobody
    Task <- MCTask
    TaskEndID = "END"
    TaskType <- MCTaskType
    Transitions <- MCTransitions
    Action <- MCAction
    CreateTime <- MCCreateTime
    StartTask <- OrderOnly
    Callbacks = 2
    MaxInstances = 1
    MaxRows = 9
    MaxUuids = 6
    MaxFaults = 1
    RetryAttempts = 2
PROPERTIES WaitingIsExecuted CallsReturn
