CONSTANTS
    Writer = {w1, w2}
    WriteThread = WriteThread
    Main = Main
    Line = {l1, l2}
    NoLine = NoLine
    Free = Free
    Async = TRUE
    Capacity = 1
    MaxLines = 1
    MaxDay = 1
SPECIFICATION Spec
INVARIANTS TypeOK NoWaitWithLock WrittenOnce
PROPERTIES EveryLineWritten CallsReturn
CHECK_DEADLOCK FALSE
