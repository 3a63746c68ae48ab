SPECIFICATION FairSpec
CONSTANTS
    x = x
    y = y
    a = a
    b = b
    c = c
    Absent = Absent
    None = None
    Rows = {x, y}
    Values = {a, b, c}
    Canon <- BlankLine
    Retention = 2
    StopsAt = {"check", "execute", "promote", "rename", "prune"}
    MaxChanges = 4
    MaxStops = 2
INVARIANTS SnapshotIsRemote RetryIsApplied
PROPERTY EventuallySynced
CHECK_DEADLOCK FALSE
