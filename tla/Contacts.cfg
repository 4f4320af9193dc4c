\* Two requests of two tenants, two spellings of an address, and feedback.
SPECIFICATION HSpec
CONSTANTS
    t1 = t1
    t2 = t2
    c1 = c1
    c2 = c2
    plain = plain
    blanks = blanks
    r1 = r1
    r2 = r2
    Tenants = {t1, t2}
    ContactIds = {c1, c2}
    Spellings = {plain, blanks}
    NormalOf <- TwoSpellings
    Requests = {r1, r2}
    Inputs <- SmallInputs
    MaxSuppressions = 2
SYMMETRY Symmetric
INVARIANTS
    TypeOK
    OneContactPerAddress
    AnswerPartsTrue
    CreateEndsEnabled
PROPERTIES
    TenantsApart
    RemovesWhatItFound
