CONSTANTS
    Writer = {w1}
    WriteThread = WriteThread
    Main = Main
    Line = {l1}
    NoLine = NoLine
    Free = Free
    Async = TRUE
    Capacity = 1
    MaxLines = 1
    MaxDay = 0
SPECIFICATION Spec
PROPERTY JoinReturns
CHECK_DEADLOCK FALSE
