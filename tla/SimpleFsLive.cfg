\* No faults; a free map no wider than an int, three creates for two blocks.
CONSTANTS
    t1 = t1  t2 = t2  t3 = t3
    root = root  welcome = welcome  d = d  f = f  g = g  h = h  k = k
    none = none
    Task = {t1, t2, t3}
    Path = {root, welcome, d, f, g}
    Root = root
    Welcome = welcome
    Parent <- ParentOf
    Dirs = {root, d}
    NoPath = none
    MaxObjects = 6
    IntBits = 6
    ShiftMasks = TRUE
    RecordsPerBlock = 4
    MaxSize = 1
    MaxSignals = 0
    MaxCrashes = 0
SPECIFICATION FairSpec
INVARIANTS
    TypeOK
    
PROPERTY
    CallsReturn
