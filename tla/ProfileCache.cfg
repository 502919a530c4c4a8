SPECIFICATION Spec
CONSTANTS
    None = None
    Clients = {a, b}
    Workers = {w1, w2}
    MaxLogins = 2
    MaxBans = 2
INVARIANT TypeOK
INVARIANT StaleOnlyIfOvertaken
PROPERTY OutsidersSignedOut
CHECK_DEADLOCK FALSE
