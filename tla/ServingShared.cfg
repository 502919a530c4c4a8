SPECIFICATION Spec
CONSTANTS
    u1 = u1
    u2 = u2
    u3 = u3
    p1 = p1
    p2 = p2
    c1 = c1
    c2 = c2
    None = None
    Users = {u1, u2}
    Admins = {}
    Contributors = {}
    Phrases = {p1}
    Assigned <- NoneAssigned
    Calls = {c1, c2}
    SkipLimit = 1
    ReportCap = 1
    Quorum = 2
SYMMETRY Symmetry
INVARIANT TypeOK
INVARIANT QuorumHides
INVARIANT LimitsNearlyHold
