SPECIFICATION CPSpec
CONSTANTS
    a1 = a1
    a2 = a2
    b1 = b1
    b2 = b2
    n1 = n1
    n2 = n2
    x1 = x1
    v0 = v0
    v1 = v1
    f0 = f0
    f1 = f1
    r1 = r1
    r2 = r2
    r3 = r3
    App <- OneApp
    Build = {b1, b2}
    Fn = {f0}
    DefaultFn = f0
    Existing = {a1}
    NameOf <- OneName
    RuntimeOf <- Spinkube
    Vars = {v0}
    NoVars = v0
    None = None
    External = {x1}
    Ingress = FALSE
    KubeAnswers = {"ok"}
    StoreAnswers = {"ok"}
    ForeignKeys = {TRUE}
    CallerImages = {x1}
    Replicas = {1}
    MaxCrashes = 0
    Req = {}
    Ops = {}
    Overlap = TRUE
    Omitted = Omitted
SYMMETRY Symmetry
INVARIANTS
    LatestIsDeployed
CHECK_DEADLOCK FALSE
