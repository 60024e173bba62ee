SPECIFICATION FairSpec
CONSTANTS
    HeaderLen = 2
    MaxBody = 2
    BufLen = 2
    Width = 8
    MaxFrames = 2
    MaxConnections = 3
INVARIANTS
    TypeOK
    FramesIntact
    InBounds
PROPERTIES
    Delivered
    LeavesBody
CHECK_DEADLOCK FALSE
