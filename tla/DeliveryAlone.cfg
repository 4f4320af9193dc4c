\* One invocation at a time over a delivery of each of two tenants, one of which
\* no message can be built for, with feedback, resending and a crash.
SPECIFICATION Spec
CONSTANTS
    t1 = t1
    t2 = t2
    n1 = n1
    n2 = n2
    c1 = c1
    c2 = c2
    w1 = w1
    w2 = w2
    Tenants = {t1, t2}
    Notifications = {n1, n2}
    Contacts = {c1, c2}
    TenantOf <- TwoTenants
    Workers = {w1}
    MaxAttempts = 3
    BatchSize = 2
    Unsendable = {c2}
    FeedbackTypes = {"bounce"}
    BypassRLS = TRUE
    MaxCrashes = 1
INVARIANTS
    CopiesAccounted
    ExhaustionReported
PROPERTIES
    OutcomeRecorded
