SPECIFICATION Spec
CONSTANTS
    Runs = {r1}
    Requests = {q1, q2}
    Workers = {w1}
    MaxEvents = 1
    FlushEvery = 5
    Handlers = {"start", "cancel"}
    DebugModes = {FALSE}
    DeleteUploads = TRUE
    Faults <- NoFaults
    NoRun = NoRun
    NoTask = NoTask
PROPERTY
    CancelOnlyPending
CHECK_DEADLOCK FALSE
