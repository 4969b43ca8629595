CONSTANTS
    Worker = {w1}
    Main = Main
    Fd = {f1, f2}
    NoTask = NoTask
    NoFd = NoFd
    TriggerMode = 1
    MaxFd = 1
    MaxOut = 2
    LTRest = 1
    MaxLines = 1
    MaxBacklog = 2
    MaxConnects = 2
    MaxSends = 2
SPECIFICATION Spec
INVARIANT NoTruncation
PROPERTIES RequestServed BacklogServed ImplementsLife
