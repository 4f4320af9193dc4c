\* Progress: two invocations abort each other over two deliveries and a batch of one.
SPECIFICATION FairSpec
CONSTANTS
    t1 = t1
    t2 = t2
    n1 = n1
    n2 = n2
    c1 = c1
    c2 = c2
    w1 = w1
    w2 = w2
    Tenants = {t1}
    Notifications = {n1}
    Contacts = {c1, c2}
    TenantOf <- OneTenant
    Workers = {w1, w2}
    MaxAttempts = 1
    BatchSize = 1
    Unsendable = {}
    FeedbackTypes = {}
    BypassRLS = TRUE
    MaxCrashes = 0
PROPERTIES
    EveryDeliverySettles
