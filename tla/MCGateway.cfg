SPECIFICATION FairSpec
CONSTANTS
    Base <- CodexBase
    NoMachine = NoMachine
    Record = {r1, r2}
    Files <- TwoFiles
    Inputs <- SomeInputs
    QueueCapacity = 1
    MaxFails = 0
    MaxKills = 1
    MaxExits = 1
INVARIANTS
    NobodyIsCut
    EndedIsOffered
    FailClosed
PROPERTIES
    FailOpen
    DrainEnds
CHECK_DEADLOCK FALSE
