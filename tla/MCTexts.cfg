SPECIFICATION Spec
CONSTANTS
    SomeBytes = {0, 1, 15, 64, 255}
    MaxBytes = 5
    SomeChars = {0, 1, 16, 32, 63, 64, 65, 66}
    MaxChars = 5
    MaxMessage = 40
    BufLen = 32
    MaxNames = 4
    TagLengths = {0, 2, 4, 7}
INVARIANTS
    RoundTrip
    Canonical
    RoomEnough
    SealedReadsBack
    Dispatched
    LineWellFormed
    LevelAndTagFound
CHECK_DEADLOCK FALSE
