\* A reminder the delivery worker has prepared a row for, and an edit.
SPECIFICATION HSpec
CONSTANTS
    t1 = t1
    t2 = t2
    l1 = l1
    l2 = l2
    s1 = s1
    s2 = s2
    Tenants = {t1}
    Leases = {l1}
    TenantOf <- OneTenant
    Scans = {s1}
    DueDays <- SmallDueDays
    DueDates <- SmallDueDates
    Terms <- LongTerms
    Windows = {2}
    AsOfDates = {}
    LastDay = 1
INVARIANTS
    EditsSucceed
