SPECIFICATION FairSpec
CONSTANTS
    Cap = 1
    MaxConn = 2
    DhIds = 2
    GwIds = 3
    Timely = TRUE
    DhFaults = {}
    Requests = FALSE
    DropWhen = "any"
PROPERTIES
    LostLinkIsReplaced
CHECK_DEADLOCK FALSE
