SPECIFICATION Spec
CONSTANTS
    Engine = {e1}
    Caller = {c1, c2}
    Nobody = Nobody
    Task <- MCTask
    TaskEndID = "END"
    TaskType <- MCTaskType
    Transitions <- MCTransitions
    Action <- MCAction
    CreateTime <- MCCreateTime
    StartTask <- OrderOnly
    Callbacks = 1
    MaxInstances = 2
    MaxRows = 10
    MaxUuids = 5
    MaxFaults = 1
    RetryAttempts = 2
INVARIANTS TypeOK ExecutingIsWaiting OneToken CompletedIsOver AnnouncedIsQueued
PROPERTY LifecycleSpec
