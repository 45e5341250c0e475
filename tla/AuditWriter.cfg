SPECIFICATION FairSpec
CONSTANTS
    Record = {r1, r2, r3, r4}
    QueueCapacity = 2
    MaxFails = 2
    MaxKills = 1
    MaxExits = 1
INVARIANTS
    TypeOK
    FileFollowsQueue
    NothingVanishes
    LossIsBounded
    DamageIsExplained
PROPERTIES
    CountedSurvives
    AcceptedIsSettled
CHECK_DEADLOCK FALSE
