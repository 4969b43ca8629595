CONSTANTS
    User = {u1, u2, u3, u4}
    MaxConn = 3
SPECIFICATION Spec
INVARIANTS TypeOK SemCountsQueue SafeUse
PROPERTY WaitersServed
