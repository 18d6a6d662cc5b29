SPECIFICATION DispatchFairSpec
CONSTANTS
    c1 = c1
    c2 = c2
    f1 = f1
    f2 = f2
    sp = sp
    Empty = Empty
    Dots = Dots
    NoSlash = NoSlash
    Call = {c1, c2}
    Segment = {f1, f2, sp, Empty, Dots}
    Dotted = {Dots}
    Fn = {f1, f2}
    Rank <- RankDef
    Routes <- RoutesDef
    Typed <- TypedDef
    Unfit = {sp}
    Body = {"fits", "over1MiB", "over8MiB"}
    MaxEdits = 2
    MaxBuilds = 1
    Together = FALSE
INVARIANTS
    DispatchInv
    WaiterIsGuarded
PROPERTIES
    OnlyOverdueCallsBump
    LongestPrefixWins
    FirstSendReaches
    GuestSeesTheRest
    EveryRequestEnds
CHECK_DEADLOCK FALSE
