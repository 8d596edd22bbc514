SPECIFICATION FairEngineSpec
CONSTANTS
    EventType <- Types
    Priority <- Priorities
    NumJobs = 1
    JobType <- JobTypes
    Horizon = 2
    MaxSubmit = 2
    MaxRuns = 2
    Calls <- SomeCalls
    NewJobs <- SomeJobs
    NoEvent = NoEvent
    NoCap = NoCap
INVARIANTS
    EngineTypeOK
    OccurrenceOnce
    CleanRunsComplete
PROPERTIES
    DeliveryOrder
    CompletedIsDrained
    NothingAfterInvalidation
    RunEnds
CHECK_DEADLOCK FALSE
