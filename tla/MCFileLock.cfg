SPECIFICATION FairSpec
CONSTANTS
    a = a
    b = b
    p = p
    q = q
    Processes = {p, q}
    Writers = {a, b}
    ProcessOf <- TwoProcesses
    MaxSize = 0
    MaxRotate = 1
    Inodes = {f1, f2, f3, f4}
    NoFile = NoFile
    MaxCalls = 3
    MaxCrashes = 1
    InitSafe = FALSE
    FopenFails = TRUE
INVARIANTS TypeOK OneWriter
PROPERTY LockGranted
CHECK_DEADLOCK FALSE
