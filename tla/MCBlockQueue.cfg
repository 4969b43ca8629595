CONSTANTS
    Producer = {p1, p2}
    Consumer = {c1}
    TimedConsumer = {d1}
    Closer = {k1}
    Item = {i1}
    NoItem = NoItem
    Capacity = 2
SPECIFICATION Spec
INVARIANTS TypeOK NoLostWakeup
PROPERTIES ItemsAreTaken CloseReleases
CHECK_DEADLOCK FALSE
