SPECIFICATION Spec
CONSTANTS
    Record = {r1, r2}
    QueueCapacity = 1
    MaxFails = 0
    MaxKills = 1
    MaxExits = 0
INVARIANT WrittenIsCounted
CHECK_DEADLOCK FALSE
