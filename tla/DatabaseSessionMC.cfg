\* An application may have nothing left to do.
CONSTANTS
    a = a
    b = b
    Item = {a, b}
    Shapes <- MCShapes
    Version = {v1, v2}
    Absent = Absent
    Quiet = TRUE
    MaxRound = 2
    MaxFlush = 2
SYMMETRY Symmetry
SPECIFICATION Spec
INVARIANTS SnapshotIsStored NothingLost
PROPERTIES NoDoubleInsert
CHECK_DEADLOCK FALSE
