\* Scans of two tenants, one at a time, as their leases change.
SPECIFICATION HSpec
CONSTANTS
    t1 = t1
    t2 = t2
    l1 = l1
    l2 = l2
    s1 = s1
    s2 = s2
    Tenants = {t1, t2}
    Leases = {l1, l2}
    TenantOf <- TwoTenants
    Scans = {s1}
    DueDays <- SmallDueDays
    DueDates <- SmallDueDates
    Terms <- ShortTerms
    Windows = {2}
    AsOfDates = {2}
    LastDay = 1
INVARIANTS
    ScansMissNothing
