SPECIFICATION Spec
CONSTANTS
    Producers = {p1, p2}
    BufSize = 4
    PollSize = 2
    Byte = {"a", "b", "c", "d", "e", "f"}
    Nul = "0"
    Lines <- MCLines
    Levels = {3, 4}
    MaxLines = 1
    PromptInit = FALSE
INVARIANT InitAsserted
CHECK_DEADLOCK FALSE
