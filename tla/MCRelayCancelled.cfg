SPECIFICATION Spec
CONSTANTS
    None = None
    Malformed = Malformed
    MaxU64 = 1
    Chunk <- TwoChunks
    Requests <- OneRequest
    Responses <- AllResponses
    Capacity = 1
    MaxChunks = 2
INVARIANT CancelledAlwaysMeansAbandoned
CHECK_DEADLOCK FALSE
