SPECIFICATION PolledSpec
CONSTANTS
    None = None
    Malformed = Malformed
    MaxU64 = 1
    Chunk <- TwoChunks
    Requests <- OneRequest
    Responses <- AllResponses
    Capacity = 1
    MaxChunks = 3
PROPERTIES
    EndReachesCaller
    AbandonmentIsRecorded
    LifecycleIsRecorded
CHECK_DEADLOCK FALSE
