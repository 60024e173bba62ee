SPECIFICATION Spec
CONSTANTS
    a = a
    b = b
    p = p
    q = q
    Processes = {p}
    Writers = {a, b}
    ProcessOf <- OneProcess
    MaxSize = 1
    MaxRotate = 2
    Inodes = {f1, f2, f3, f4}
    NoFile = NoFile
    MaxCalls = 9
    MaxCrashes = 2
    InitSafe = TRUE
    FopenFails = FALSE
INVARIANT SizeBounded
PROPERTY KeepsRecords
CHECK_DEADLOCK FALSE
