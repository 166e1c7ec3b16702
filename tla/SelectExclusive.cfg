\* Three nodes on three descriptors, under the callers' discipline.
CONSTANTS
    n1 = n1
    n2 = n2
    n3 = n3
    NoNode = NoNode
    Nodes = {n1, n2, n3}
    Fds = {0, 1, 2}
    FdKinds = {"socket"}
    AddTypes = {"read", "error"}
    Capacity = 3
    Exclusive = TRUE
SYMMETRY NodeSymmetry
SPECIFICATION Spec
INVARIANTS
    TableConsistent
    WaitersHaveBits
    PassedOverOnlyIfMoved
PROPERTY PositionNeverGrows
