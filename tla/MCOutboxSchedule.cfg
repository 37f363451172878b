SPECIFICATION Spec
CONSTANTS
    MaxId = 4
    Hopeless <- const_Hopeless
    Batch = 3
    RetryDelay = 2
    Lease = 5
    Interval = 3
    JobTime = 1
    MaxFaults = 3
INVARIANT TypeOK
PROPERTIES EveryJobIsDone IsFairOutbox
