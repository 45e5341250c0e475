SPECIFICATION Spec
CONSTANTS
    None = None
    Malformed = Malformed
    Header = Header
    M1 = M1
    M2 = M2
    Junk = Junk
    MaxU64 = 3
    MaxChunks = 3
    MaxMembers = 3
INVARIANTS
    ObjectAccounting
    CountersAreReported
    SseUsageIsTheLastReported
    SseLifecycle
PROPERTY UsageSurvivesGrowth
CHECK_DEADLOCK FALSE
