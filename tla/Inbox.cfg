SPECIFICATION InboundSpec
CONSTANTS
    h1 = h1
    h2 = h2
    Actors = {a1}
    Handlers = {h1, h2}
    Softwares <- AnySoftware
    FaultKinds = {"crash", "dbError", "lostAccept", "lostResponse", "giveUp"}
    MaxFollows = 2
    MaxFaults = 2
    d1 = d1
    d2 = d2
    a1 = a1
    a2 = a2
    p1 = p1
    r1 = r1
    r2 = r2
    r3 = r3
    r4 = r4
    Nobody = Nobody
    Own = Own
    Domains = {d1, d2}
    MaxRequests = 2
    Window = 2
    Limits = {1, 2}
    MaxTime = 2
    MaxAdmitted = 4
    Requests = {r1, r2, r3, r4}
    Authors = {a1, a2}
    DomainOf <- TwoDomains
    Acts = {"post", "answer", "delete", "other", "like", "boost", "update"}
    Act <- Said
    Posts = {p1}
    AuthorOf <- ByA1
    Followees = {a1}
    Blockable = {d1}
    Traffic <- ByWorld
    DateWindow = 1
    MaxKeys = 1
    Worlds <- AllWorlds
SYMMETRY Interchangeable
INVARIANTS AcceptedIsFollower SettledAgreement
           OnlySigned BlockedIsOut OneNotePerDelivery DeletedIsGone TwoWindowBound
PROPERTY ChargedIsFresh
CHECK_DEADLOCK FALSE
