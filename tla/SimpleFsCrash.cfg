\* Two tasks that create and write; the machine may crash three times.
\* The root's block has room for exactly its two children.
CONSTANTS
    t1 = t1  t2 = t2  t3 = t3
    root = root  welcome = welcome  d = d  f = f  g = g  h = h  k = k
    none = none
    Task = {t1, t2}
    Path = {root, welcome, d, f}
    Root = root
    Welcome = welcome
    Parent <- ParentOfSmall
    Dirs = {root, d}
    NoPath = none
    MaxObjects = 10
    IntBits = 5
    ShiftMasks = TRUE
    RecordsPerBlock = 2
    MaxSize = 1
    MaxSignals = 0
    MaxCrashes = 3
SPECIFICATION Spec
SYMMETRY TaskSymmetry
INVARIANTS
    RecordsNameInodes
    RecordsInBlock
    BlocksOwnedOnce
PROPERTY
    IsNameTree
