CONSTANTS
    Worker = {w1}
    Main = Main
    Fd = {f1}
    NoTask = NoTask
    NoFd = NoFd
    TriggerMode = 0
    MaxFd = 1
    MaxOut = 2
    LTRest = 1
    MaxLines = 1
    MaxBacklog = 2
    MaxConnects = 1
    MaxSends = 1
SPECIFICATION Spec
INVARIANT NoTruncation
