SPECIFICATION Spec
CONSTANTS
    Runs = {r1, r2, r3}
    Workers = {w1, w2}
    Keep = 1
    MayRaise = TRUE
    MayDie = TRUE
    MaxDeletes = 1
    NoRun = NoRun
    NoPackage = NoPackage
SYMMETRY Symmetry
CONSTRAINT FewBroken
CHECK_DEADLOCK FALSE
INVARIANTS
    TypeOK
    NamedIsThere
    LatestAreThere
    KeepsAtMost
    NoOrphanPackage
