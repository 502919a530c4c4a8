SPECIFICATION Spec
CONSTANTS
    u1 = u1
    u2 = u2
    u3 = u3
    p1 = p1
    p2 = p2
    c1 = c1
    c2 = c2
    None = None
    Users = {u1, u2}
    Admins = {u2}
    Contributors = {u1}
    Phrases = {p1}
    Assigned <- FirstAssigned
    Calls = {c1, c2}
    SkipLimit = 1
    ReportCap = 0
    Quorum = 1
SYMMETRY CallSymmetry
PROPERTY OnlyRacesCollide
