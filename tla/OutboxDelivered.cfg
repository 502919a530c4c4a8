SPECIFICATION FairOutboxSpec
CONSTANTS
    u1 = u1
    p1 = p1
    p2 = p2
    i1 = i1
    i2 = i2
    t1 = t1
    t2 = t2
    None = None
    Users = {u1}
    Phrases = {p1}
    Items = {i1, i2}
    Author <- ByOneUser
    PhraseOf <- SamePhrase
    Recording <- OwnAudio
    Defect <- Sound
    Requests = {q1, q2, q3}
    Recoverers = {}
    Award = 15
    FlashAllowed = FALSE
    FaultsAllowed = TRUE
    VaultMayFail = FALSE
    Tabs = {t1}
    MaxAttempts = 1
    MaxFaults = 1
PROPERTY Delivered
CHECK_DEADLOCK FALSE
