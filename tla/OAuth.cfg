SPECIFICATION Spec
CONSTANTS
    l1 = l1
    a1 = a1
    a2 = a2
    u1 = u1
    p1 = p1
    c1 = c1
    x1 = x1
    x2 = x2
    k1 = k1
    None = None
    Owner = Owner
    Other = Other
    Logins = {l1}
    Apps = {a1, a2}
    Uris = {u1}
    Pages = {p1}
    Codes = {c1}
    Exchanges = {x1, x2}
    Legacy = {x1, x2}
    Calls = {k1}
    AppScopes <- ReadWriteAndRead
    AppUris <- OneUri
    Asks <- NothingOrWrite
    Modes <- FaultsOrLogins
    Endpoints = {"write:statuses", "verify", "admin"}
    CodeTTL = 1
    TokenTTL = 1
    SessionTTL = 0
    MaxTime = 1
SYMMETRY Symmetry
INVARIANTS CodeBuysOneToken AdmittedWasApproved TokensSurviveRestarts
PROPERTIES RevokedIsOut RightIsServed
CHECK_DEADLOCK FALSE
