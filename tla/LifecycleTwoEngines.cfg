SPECIFICATION FairSpec
CONSTANTS
    Engine = {e1, e2}
    Caller = {c1}
    Nobody = Nobody
    Task <- MCTask
    TaskEndID = "END"
    TaskType <- MCTaskType
    Transitions <- MCTransitions
    Action <- MCAction
    CreateTime <- MCCreateTime
    StartTask <- LinearOnly
    Callbacks = 1
    MaxInstances = 1
    MaxRows = 5
    MaxUuids = 0
    MaxFaults = 1
    RetryAttempts = 1
PROPERTY LifecycleSpec
