SPECIFICATION FairSpec
CONSTANTS
    None = None
    Malformed = Malformed
    MaxU64 = 1
    Chunk <- TwoChunks
    Requests <- OneRequest
    Responses <- AllResponses
    Capacity = 1
    MaxChunks = 2
PROPERTY CancellationIsRecorded
CHECK_DEADLOCK FALSE
