SPECIFICATION CPSpec
CONSTANTS
    a1 = a1
    a2 = a2
    b1 = b1
    b2 = b2
    n1 = n1
    n2 = n2
    x1 = x1
    v0 = v0
    v1 = v1
    f0 = f0
    f1 = f1
    r1 = r1
    r2 = r2
    r3 = r3
    App <- TwoApps
    Build = {b1}
    Fn = {f0}
    DefaultFn = f0
    Existing = {a1}
    NameOf <- TwoNames
    RuntimeOf <- Spinkube
    Vars = {v0}
    NoVars = v0
    None = None
    External = {x1}
    Ingress = TRUE
    KubeAnswers = {"ok", "err", "lost"}
    StoreAnswers = {"ok", "err"}
    ForeignKeys = {TRUE, FALSE}
    CallerImages = {x1}
    Replicas = {0, 1}
    MaxCrashes = 1
    Req = {r1, r2}
    Ops = {"create", "delete", "patch", "deploy", "addfn", "delfn"}
    Overlap = TRUE
    Omitted = Omitted
SYMMETRY Symmetry
INVARIANTS
    CPInv
    ImageIsOfThatName
PROPERTIES
    BuilderSpec
    OutcomeIsFinal
    LifecycleSpec
    TablesSpec
CHECK_DEADLOCK FALSE
