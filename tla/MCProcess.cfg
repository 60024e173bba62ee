SPECIFICATION FairSpec
CONSTANTS
    MaxFd = 6
    Outputs = {0, 1, 4}
    Room = 2
    PipeSize = 1
    AddrLen = 1
    PromptLocal = TRUE
INVARIANTS TypeOK OwnDescriptor DescriptorsInUse EndsOnlyExhausted
PROPERTIES PopenReturns Reconnects
CHECK_DEADLOCK FALSE
