SPECIFICATION FairSpec
CONSTANTS
    Producers = {p1, p2}
    BufSize = 4
    PollSize = 2
    Byte = {"a", "b", "c", "d", "e", "f"}
    Nul = "0"
    Lines <- MCLines
    Levels = {3, 4}
    MaxLines = 3
    PromptInit = TRUE
INVARIANTS TypeOK FlagsAgree NoLostWakeup
PROPERTIES IsBoundedQueue Drains
CHECK_DEADLOCK FALSE
