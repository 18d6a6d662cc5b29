SPECIFICATION FairSpec
CONSTANTS
    a1 = a1
    a2 = a2
    b1 = b1
    b2 = b2
    n1 = n1
    x1 = x1
    v0 = v0
    v1 = v1
    f0 = f0
    f1 = f1
    Fn = {f0}
    DefaultFn = f0
    Existing = {}
    App <- OneApp
    Build = {b1}
    NameOf <- OneName
    RuntimeOf <- Spinkube
    Vars = {v0}
    NoVars = v0
    None = None
    External = {}
    Ingress = FALSE
    KubeAnswers = {"ok"}
    StoreAnswers = {"ok"}
    ForeignKeys = {TRUE}
    CallerImages = {}
    Replicas = {}
    MaxCrashes = 1
PROPERTIES
    RestartFailsRunning
CHECK_DEADLOCK FALSE
