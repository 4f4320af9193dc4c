\* Two contacts and two requests of a tab whose user signs in twice.
SPECIFICATION FSpec
CONSTANTS
    k1 = k1
    k2 = k2
    a1 = a1
    a2 = a2
    Contacts = {k1, k2}
    Calls = {a1, a2}
    MaxSignIns = 2
SYMMETRY Symmetric
INVARIANTS
    TypeOK
    StaleOnlyByOverlap
    NoneTwice
    SessionsAgree
PROPERTIES
    SignInCompletes
