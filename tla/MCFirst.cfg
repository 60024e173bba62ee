SPECIFICATION FairSpec
CONSTANTS
    Cap = 3
    MaxConn = 1
    DhIds = 1
    GwIds = 4
    Timely = FALSE
    DhFaults = {}
    Requests = FALSE
    DropWhen = "never"
INVARIANTS
    KeyAgreement
    RegistrationEncrypted
PROPERTIES
    LinkStateMonotone
    Registers
