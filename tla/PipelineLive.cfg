\* Liveness: no symmetry.
CONSTANTS
    c1 = c1
    c2 = c2
    c3 = c3
    id1 = id1
    id2 = id2
    id3 = id3
    id4 = id4
    NoCo = NoCo
    NoId = NoId
    Coroutines = {c1, c2}
    Ids = {id1, id2, id3}
    Fds = {3, 4, 5}
    Signums = {}
    Uses = {"read", "sleep"}
    MayFail = FALSE
SPECIFICATION FairSpec
PROPERTIES
    ReadersServed
