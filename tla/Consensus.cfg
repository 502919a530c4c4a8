SPECIFICATION Spec
CONSTANTS
    author = author
    e1 = e1
    e2 = e2
    e3 = e3
    c1 = c1
    p1 = p1
    k1 = k1
    k2 = k2
    None = None
    Users = {author, e1, e2, e3}
    Contributions = {c1}
    Phrases = {p1}
    AuthorOf <- ByOneAuthor
    PhraseOf <- OnePhrase
    Marks <- GoodOrBad
    Exempt = {e1, e2, e3}
    MinApproved = 1
    Calls = {k1, k2}
    Moderated = {author, e1}
    Enough = 2
    Plenty = 3
    GradePay = 3
    VotePay = 2
    Bonus = 10
    Credit = 15
    FlashAllowed = TRUE
    MaxUpsets = 1
    Before <- OneOfTwo
SYMMETRY Symmetry
INVARIANT TypeOK
INVARIANT BonusBound
INVARIANT DecidedByQuorum
INVARIANT NeverOverpaid
PROPERTY DecisionStands
CHECK_DEADLOCK FALSE
