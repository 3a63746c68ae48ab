SPECIFICATION ServicesSpec
CONSTANTS
    r1 = r1
    r2 = r2
    r3 = r3
    Requests = {r1, r2, r3}
    Original = Original
    NoImage = NoImage
    FaultKinds = {"upload", "swap", "delete", "cancel"}
    MaxFaults = 2
    Tasks = {"timer", "owner"}
    k1 = k1
    k2 = k2
    Seals = {k1, k2}
    Plain = Plain
    Retention = 2
    MaxVersion = 3
    MaxSecond = 3
    MaxPuts = 4
    MaxSlips = 1
    Views = {"home", "public", "tag", "list", "listNone", "account", "pinned",
             "notifications", "favourites"}
    Tables <- SomeTables
    NewRows <- News
    Limits = {1, 2}
    Overfetch = 2
    MaxFetch = 3
    MaxId = 5
    MaxChanges = 2
    w1 = w1
    Warmups = {w1}
    d1 = d1
    d2 = d2
    Lookups = {d1, d2}
    ActorInboxes = {"old", "new"}
    Followers <- SomeFollowers
    Ttl = 1
    PruneEvery = 2
    Deadline = 1
    FetchTimeout = 1
    MaxConcurrent = 1
    MaxNow = 5
    MaxRestarts = 1
SYMMETRY Symmetry
INVARIANTS CurrentIsStored NoOrphans FinishedIsRestorable NothingIsMissed
           NothingTwice MutedIsHidden InboxIsRecent EveryInboxOnce
CHECK_DEADLOCK FALSE
