SPECIFICATION FairSpec
CONSTANTS
    u1 = u1
    u2 = u2
    p1 = p1
    p2 = p2
    i1 = i1
    i2 = i2
    q1 = q1
    q2 = q2
    q3 = q3
    a1 = a1
    a2 = a2
    None = None
    Users = {u1}
    Phrases = {p1, p2}
    Items = {i1, i2}
    Author <- ByOneUser
    PhraseOf <- TwoPhrases
    Recording <- SameAudio
    Defect <- Sound
    Requests = {q1, q2}
    Recoverers = {a1, a2}
    Award = 15
    FlashAllowed = FALSE
    FaultsAllowed = FALSE
    VaultMayFail = FALSE
INVARIANT OpenRowsRecoverable
INVARIANT RejectMeansVaulted
PROPERTY LedgerSpec
PROPERTY EveryRequestAnswered
