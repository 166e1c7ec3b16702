\* Two timers, two signal objects and two numbers, two objects registered at a time;
\* the loop and time going on.  Liveness: no symmetry.
CONSTANTS
    t1 = t1
    t2 = t2
    t3 = t3
    x1 = x1
    x2 = x2
    NoTimer = NoTimer
    NoSigNode = NoSigNode
    Timers = {t1, t2}
    Intervals = {2}
    Ceiling = 3
    Signums = {2, 3}
    SigNodes = {x1, x2}
    MaxRegistered = 2
SPECIFICATION BoundedSpec
INVARIANTS
    TimersConsistent
    HeardUntilOusted
    NoStaleFlag
PROPERTIES
    NeverEarly
    OverdueFires
    PendingEnds
    InterruptIsHeard
    ExitEnds
