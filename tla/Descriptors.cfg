\* Three numbers: a listener, what it accepts or dials, and one more.
CONSTANTS
    Fds = {3, 4, 5}
    MaxWaiting = 2
SPECIFICATION FairSpec
INVARIANTS
    HandsOutReady
PROPERTIES
    ImplementsCalls
    CallsReturn
