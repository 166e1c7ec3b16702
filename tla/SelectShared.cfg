\* Two nodes without any discipline: descriptors closed and opened again under
\* them, popen pipes, an invalid descriptor.  No symmetry, for the liveness.
CONSTANTS
    n1 = n1
    n2 = n2
    n3 = n3
    NoNode = NoNode
    Nodes = {n1, n2}
    Fds <- MCFdsWithInvalid
    FdKinds = {"socket", "pipe"}
    AddTypes = {"read", "write"}
    Capacity = 2
    Exclusive = FALSE
SPECIFICATION FairSpec
INVARIANTS
    TypeOK
    MaxFdCovers
    BitsHaveWaiters
PROPERTIES
    NoStarvation
    RepairsEnd
    ImplementsPromise
