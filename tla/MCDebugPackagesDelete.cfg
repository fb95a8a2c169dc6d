SPECIFICATION Spec
CONSTANTS
    Runs = {r1, r2, r3}
    Workers = {w1, w2}
    Keep = 1
    MayRaise = FALSE
    MayDie = FALSE
    MaxDeletes = 1
    NoRun = NoRun
    NoPackage = NoPackage
SYMMETRY Symmetry
CHECK_DEADLOCK FALSE
INVARIANT
    DeleteRemovesPackage
