SPECIFICATION Spec
CONSTANTS
    Base <- CodexBase
    NoMachine = NoMachine
    MaxSegments = 4
    MaxKeys = 2
    MaxHeaders = 3
INVARIANTS
    AttributionIsExact
    MeteringCannotBeAvoided
    HeadersFollowPolicy
CHECK_DEADLOCK FALSE
