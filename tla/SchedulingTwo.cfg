SPECIFICATION FairSpec
CONSTANTS
    Engine = {e1, e2}
    Caller = {c1}
    Nobody = Nobody
    Task <- MCTask
    TaskEndID = "END"
    TaskType <- MCTaskType
    Transitions <- MCTransitions
    Action <- MCAction
    CreateTime <- MCCreateTime
    StartTask <- Local
    Callbacks = 1
    MaxInstances = 1
    MaxRows = 9
    MaxUuids = 0
    MaxFaults = 0
    RetryAttempts = 2
PROPERTY InstancesComplete
