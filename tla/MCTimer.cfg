CONSTANTS
    Id = {i1, i2, i3, i4, i5, i6}
    NoId = NoId
    Placeholders = 1
    Timeouts = {1, 2}
    MaxNow = 2
SYMMETRY Symmetry
SPECIFICATION Spec
INVARIANTS TypeOK RefExact SiftStaysInside HeapOrder
PROPERTY ImplementsTable
