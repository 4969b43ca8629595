CONSTANTS
    User = {u1, u2}
    MaxConn = 1
SPECIFICATION Spec
INVARIANT NeverNull
