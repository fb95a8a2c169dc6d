SPECIFICATION FairSpec
CONSTANTS
    Runs = {r1}
    Requests = {q1, q2, q3}
    Workers = {w1}
    MaxEvents = 1
    FlushEvery = 5
    Handlers <- AllHandlers
    DebugModes = {TRUE, FALSE}
    DeleteUploads = TRUE
    Faults <- CaughtErrors
    NoRun = NoRun
    NoTask = NoTask
INVARIANT
    NoOrphanUpload
PROPERTIES
    QueuedOnceSettles
    UploadsAreReclaimed
CHECK_DEADLOCK FALSE
