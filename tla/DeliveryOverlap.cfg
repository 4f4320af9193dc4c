\* Two invocations at work on one delivery, with feedback, a crash, and a tenant
\* who disables, re-enables and removes suppressions.
SPECIFICATION HSpec
CONSTANTS
    t1 = t1
    n1 = n1
    c1 = c1
    c2 = c2
    w1 = w1
    w2 = w2
    Tenants = {t1}
    Notifications = {n1}
    Contacts = {c1}
    TenantOf <- OneTenant
    Workers = {w1, w2}
    MaxAttempts = 2
    BatchSize = 1
    Unsendable = {}
    FeedbackTypes = {"bounce"}
    BypassRLS = TRUE
    MaxCrashes = 1
INVARIANTS
    TypeOK
    AttemptBound
    SentMeansAccepted
PROPERTIES
    BarsHonoured
    ReopenedOnlyBarred
    RefinesContract
