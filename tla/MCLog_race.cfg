CONSTANTS
    Writer = {w1, w2}
    WriteThread = WriteThread
    Main = Main
    Line = {l1, l2, l3}
    NoLine = NoLine
    Free = Free
    Async = TRUE
    Capacity = 1
    MaxLines = 2
    MaxDay = 0
SPECIFICATION Spec
INVARIANT FileIsOpen
CHECK_DEADLOCK FALSE
