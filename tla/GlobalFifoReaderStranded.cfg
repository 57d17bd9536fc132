\* A KILLABLE reader asleep while a writer writes.
CONSTANTS
    r1 = r1  r2 = r2  w1 = w1  w2 = w2  c1 = c1  e1 = e1
    b0 = b0  b1 = b1  none = none
    Readers = {r1}
    Writers = {w1}
    Clearers = {}
    EpollClients = {}
    NonBlock = {}
    Asyncs = {}
    Faulty = {}
    Catchers = {}
    Mortals = {}
    Size = 2
    MaxCount = 2
    Byte = {b0}
    Zero = b0
    ReadSleep = "KILLABLE"
    EdgeTriggered = TRUE
    NoTask = none
SPECIFICATION Spec
\* Every task may be closed, dead or asleep for good.
CHECK_DEADLOCK FALSE
INVARIANT
    ReaderNotStranded
