SPECIFICATION Spec
CONSTANTS
    x = x
    y = y
    a = a
    b = b
    c = c
    Absent = Absent
    None = None
    Rows = {x, y}
    Values = {a, b}
    Canon <- Words
    Retention = 4
    StopsAt = {}
    MaxChanges = 4
    MaxStops = 0
INVARIANT KnownKeyIsApplied
CHECK_DEADLOCK FALSE
