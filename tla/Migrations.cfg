\* Two runs, by events or by hand, from every revision to every revision.
SPECIFICATION FairSpec
CONSTANTS
    r1 = r1
    r2 = r2
    Runs = {r1, r2}
INVARIANTS
    TypeOK
    SchemaFollowsVersion
    FailsOnlyByOverlap
    SomebodyReachesHead
PROPERTIES
    RunsEnd
CHECK_DEADLOCK FALSE
