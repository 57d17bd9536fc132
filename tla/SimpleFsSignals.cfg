\* Signals interrupt the waits for the mutexes.
CONSTANTS
    t1 = t1  t2 = t2  t3 = t3
    root = root  welcome = welcome  d = d  f = f  g = g  h = h  k = k
    none = none
    Task = {t1, t2}
    Path = {root, welcome, d, f, g}
    Root = root
    Welcome = welcome
    Parent <- ParentOf
    Dirs = {root, d}
    NoPath = none
    MaxObjects = 10
    IntBits = 5
    ShiftMasks = TRUE
    RecordsPerBlock = 4
    MaxSize = 1
    MaxSignals = 2
    MaxCrashes = 0
SPECIFICATION Spec
SYMMETRY TaskSymmetry
INVARIANTS
    UpdatesExclusive
    LocksReturned
