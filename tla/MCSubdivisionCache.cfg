SPECIFICATION Spec
CONSTANTS
    Names = {n1, n2}
    Jobs = {j1, j2, j3}
    ReferenceModes = {"loaded"}
    MaxRenames = 2
    NoEmb = NoEmb
    NoRow = NoRow
    NoJob = NoJob
SYMMETRY Symmetry
INVARIANTS
    TypeOK
    EmbeddingMatches
PROPERTY
    OneRunRepairs
CHECK_DEADLOCK FALSE
