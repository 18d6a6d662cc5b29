SPECIFICATION FairSpec
CONSTANTS
    c1 = c1
    c2 = c2
    Call = {c1, c2}
PROPERTIES
    RunawaysEnd
CHECK_DEADLOCK FALSE
