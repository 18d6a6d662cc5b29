SPECIFICATION FairSpec
CONSTANTS
    cpu = cpu
    mem = mem
    i1 = i1
    i2 = i2
    p1 = p1
    p2 = p2
    q1 = q1
    None = None
    Unset = Unset
    Garbled = Garbled
    Field = {cpu, mem}
    Size = {1, 2}
    Image = {i1}
    Pod = {p1, p2}
    Replicas = 1
    Poll = {q1}
    Policies <- PoliciesDef
    MaxSaves = 1
    MaxRestarts = 1
    MaxFaults = 1
    Edits <- EditsDef
INVARIANTS
    RolloutInv
    RowIsClean
    ReadyWasComplete
PROPERTIES
    DeployedWithinPolicy
    PageCatchesUp
CHECK_DEADLOCK FALSE
