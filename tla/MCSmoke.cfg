SPECIFICATION FairSpec
CONSTANTS
    Number <- SmallNumbers
    MaxPort = 1
    Default <- SmallDefault
    Lists <- AllLists
    Reports <- AllReports
    MaxTaken = 3
INVARIANTS
    PassMeansReconciled
    NothingLeftBehind
PROPERTIES
    SmokeEnds
    ArgumentsAreHonoured
CHECK_DEADLOCK FALSE
