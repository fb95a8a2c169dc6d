SPECIFICATION FairSpec
CONSTANTS
    Runs = {r1}
    Requests = {q1, q2}
    Workers = {w1}
    MaxEvents = 1
    FlushEvery = 5
    Handlers = {"start"}
    DebugModes = {FALSE}
    DeleteUploads = TRUE
    Faults <- NoFaults
    NoRun = NoRun
    NoTask = NoTask
PROPERTY
    QueuedSettles
CHECK_DEADLOCK FALSE
