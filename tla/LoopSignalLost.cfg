\* A signal that arrives while a callback runs.
CONSTANTS
    t1 = t1
    t2 = t2
    t3 = t3
    x1 = x1
    x2 = x2
    NoTimer = NoTimer
    NoSigNode = NoSigNode
    Timers = {t1}
    Intervals = {1}
    Ceiling = 2
    Signums = {2}
    SigNodes = {x1}
SPECIFICATION Spec
INVARIANT NoSignalLeftBehind
