SPECIFICATION FairSpec
CONSTANTS
    Cap = 2
    MaxConn = 3
    DhIds = 2
    GwIds = 6
    Timely = TRUE
    DhFaults = {"init", "compute"}
    Requests = TRUE
    DropWhen = "registered"
INVARIANTS
    TypeOK
    KeyAgreement
    CrashesKnown
    RegistrationEncrypted
    NegotiationFirst
PROPERTIES
    LinkStateMonotone
    Reregisters
CHECK_DEADLOCK FALSE
