CONSTANTS
    Worker = {w1, w2}
    Main = Main
    Fd = {f1, f2}
    NoTask = NoTask
    NoFd = NoFd
    TriggerMode = 3
    MaxFd = 2
    MaxOut = 1
    LTRest = 1
    MaxLines = 1
    MaxBacklog = 1
    MaxConnects = 3
    MaxSends = 2
SYMMETRY Symmetry
SPECIFICATION Spec
INVARIANTS TypeOK OneOwner NoOrphan UserCountExact
