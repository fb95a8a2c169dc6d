SPECIFICATION Spec
CONSTANTS
    Runs = {r1}
    Requests = {q1, q2}
    Workers = {w1, w2}
    MaxEvents = 2
    FlushEvery = 2
    Handlers <- AllHandlers
    DebugModes = {TRUE, FALSE}
    DeleteUploads = TRUE
    Faults <- AllFaults
    NoRun = NoRun
    NoTask = NoTask
SYMMETRY Symmetry
INVARIANTS
    TypeOK
    AtMostOnePipeline
    DoneIsComplete
    ProgressIsBacked
    UploadIsKept
    StartAllHoldsPending
PROPERTIES
    DeletedStaysDeleted
    OutcomeFreezesResults
    ImplementsRunJob
    DeleteAllSparesStarted
CHECK_DEADLOCK FALSE
