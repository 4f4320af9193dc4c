\* Two requests of two tenants about one property and one lease.
SPECIFICATION FairSpec
CONSTANTS
    t1 = t1
    t2 = t2
    p1 = p1
    l1 = l1
    r1 = r1
    r2 = r2
    a = a
    b = b
    Tenants = {t1, t2}
    PropertyIds = {p1}
    LeaseIds = {l1}
    Requests = {r1, r2}
    Texts = {a, b}
    LastDate = 1
    Inputs <- SmallInputs
INVARIANTS
    TypeOK
    LeaseDatesOrdered
    EditAnsweredAsMade
    TenantsApart
PROPERTIES
    AuditNamesChanges
    RequestsAnswered
