SPECIFICATION Spec
CONSTANTS
    None = None
    Malformed = Malformed
    Header = Header
    M1 = M1
    M2 = M2
    MaxU64 = 3
    MaxChunks = 3
    Junk = Junk
    MaxMembers = 0
INVARIANT HeaderModelIsRecorded
CHECK_DEADLOCK FALSE
