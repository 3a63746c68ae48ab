SPECIFICATION FairSpec
CONSTANTS
    a1 = a1
    h1 = h1
    h2 = h2
    Actors = {a1}
    Handlers = {h1}
    Softwares <- GoodSoftware
    FaultKinds = {"crash"}
    MaxFollows = 1
    MaxFaults = 1
PROPERTY FollowIsAccepted
CHECK_DEADLOCK FALSE
