SPECIFICATION Spec
CONSTANTS
    Cap = 2
    MaxConn = 1
    DhIds = 1
    GwIds = 3
    Timely = TRUE
    DhFaults = {}
    Requests = FALSE
    DropWhen = "never"
INVARIANT
    EncryptedUnderRealKey
