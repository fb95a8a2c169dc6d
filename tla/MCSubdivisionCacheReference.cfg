SPECIFICATION Spec
CONSTANTS
    Names = {n1, n2}
    Jobs = {j1, j2, j3}
    ReferenceModes = {"loaded", "missing"}
    MaxRenames = 1
    NoEmb = NoEmb
    NoRow = NoRow
    NoJob = NoJob
SYMMETRY Symmetry
PROPERTY
    SyncRecomputes
CHECK_DEADLOCK FALSE
