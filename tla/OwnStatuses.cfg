SPECIFICATION Spec
CONSTANTS
    r1 = r1
    r2 = r2
    r3 = r3
    old = old
    new = new
    m1 = m1
    m2 = m2
    a = a
    b = b
    tag = tag
    yes = yes
    no = no
    Requests = {r1, r2, r3}
    Statuses = {old, new}
    Before <- FirstText
    Media = {m1, m2}
    Texts = {a, b}
    Hashtags = {tag}
    TagsOf <- TagOfB
    Options = {yes, no}
    Ops <- AllOps
    Modes <- AllModes
    None = None
    NoRow = NoRow
    Unattached = Unattached
SYMMETRY Symmetry
INVARIANT UploadsAreWhole
PROPERTIES MediaIsKept BallotIsFinal ImplementsHistory
CHECK_DEADLOCK FALSE
