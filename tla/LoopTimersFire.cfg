\* One timer is enough: it reaches its interval to the millisecond.
CONSTANTS
    t1 = t1
    t2 = t2
    t3 = t3
    x1 = x1
    x2 = x2
    NoTimer = NoTimer
    NoSigNode = NoSigNode
    Timers = {t1}
    Intervals = {2}
    Ceiling = 3
    Signums = {}
    SigNodes = {}
SPECIFICATION FairSpec
PROPERTY TimersFire
