SPECIFICATION FairSpec
CONSTANTS
    a1 = a1
    a2 = a2
    a3 = a3
    b1 = b1
    b2 = b2
    b3 = b3
    n1 = n1
    n2 = n2
    v0 = v0
    f0 = f0
    App = {a1, a2, a3}
    Build = {b1, b2, b3}
    Fn = {f0}
    DefaultFn = f0
    Existing = {a1, a3}
    NameOf <- NamesOf
    RuntimeOf <- Runtimes
    Vars = {v0}
    NoVars = v0
    None = None
    Limit = 2
    ForeignKeys = {TRUE}
    MaxFaults = 1
    MaxRestarts = 1
INVARIANTS
    WorkerInv
    CatalogIsBuilt
PROPERTIES
    NeverStepsBack
    DroppedForCause
    CatalogConverges
CHECK_DEADLOCK FALSE
