SPECIFICATION Spec
CONSTANTS
    r1 = r1
    r2 = r2
    r3 = r3
    own = own
    theirs = theirs
    Requests = {r1, r2, r3}
    Local = {own}
    Remote = {theirs}
    Ops <- AllOps
    Modes <- AllModes
    None = None
    Unread = Unread
SYMMETRY Symmetry
INVARIANTS UndoneIsGone StandingIsKnown KnownIsStanding
CHECK_DEADLOCK FALSE
