SPECIFICATION Spec
CONSTANTS
    r1 = r1
    r2 = r2
    r3 = r3
    k1 = k1
    NoKey = NoKey
    Null = Null
    NoRow = NoRow
    None = None
    Requests = {r1, r2, r3}
    Keys = {k1}
    KeyOf <- OneKey
    StaleAfter = 1
    PruneAfter = 3
    Prompts = {TRUE}
    FaultKinds = {"dbError"}
    MaxFaults = 1
    MaxTime = 2
INVARIANT OnePostPerKey
CHECK_DEADLOCK FALSE
