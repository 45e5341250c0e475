SPECIFICATION Spec
CONSTANTS
    None = None
    Malformed = Malformed
    MaxU64 = 1
    Chunk <- AllChunks
    Requests <- AllRequests
    Responses <- AllResponses
    Capacity = 2
    MaxChunks = 4
INVARIANTS
    TypeOK
    RelayedInOrder
    EndIsFaithful
    OutcomeIsTruthful
    CancelledMeansAbandoned
    TerminalUsageIsRecorded
    OneRecordPerLifecycle
    RelayInv
PROPERTIES
    EffortIsWhatWasForwarded
    ImplementsDelivery
    ImplementsLifecycle
CHECK_DEADLOCK FALSE
