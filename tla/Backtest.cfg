SPECIFICATION FairRunnerSpec
CONSTANTS
    EventType <- CascadeTypes
    Priority <- CascadePriority
    NumJobs = 0
    JobType <- NoJobTypes
    Horizon = 1
    MaxSubmit = 0
    MaxRuns = 1
    Calls = {}
    NewJobs = {}
    NoEvent = NoEvent
    NoCap = NoCap
    Instrument = {1, 2}
    Capital = 20
    Frames <- FramesFromZero
    Portfolios <- SomePortfolios
    HalfSpread = 1
    Fee = 1
    MaxLoss = 8
    MaxPauses = 1
    MaxProcesses = 2
    NoTime = NoTime
    NoFile = NoFile
INVARIANTS
    BacktestTypeOK
    BooksReconcile
    OnePointPerBar
    NoOvershoot
    CompletedIsComplete
PROPERTIES
    RunReturns
CHECK_DEADLOCK FALSE
