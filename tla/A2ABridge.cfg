CONSTANTS
    Executor = {e1}
    Ending = {e1}
    Foreign = {f1}
    ReqId = {x}
    Textless = {f1}
    NoId = NoId
    RetryAttempts = 2
    MaxRetry = 2
    MaxForeign = 2
    MaxFaults = 1
SPECIFICATION FairSpec
INVARIANTS TypeOK ResultIsOwn BoundedWork FedBackIsExplained ToldIsKnown
PROPERTY CallEnds
CHECK_DEADLOCK FALSE
