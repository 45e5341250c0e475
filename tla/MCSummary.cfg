SPECIFICATION Spec
CONSTANTS
    None = None
    MaxU64 = 4
    r1 = r1
    r2 = r2
    r3 = r3
    r4 = r4
    r5 = r5
    Record = {r1, r2, r3, r4, r5}
    Facts <- SomeFacts
    MaxLines = 3
INVARIANTS
    TablesAreTotals
    NothingMissed
CHECK_DEADLOCK FALSE
