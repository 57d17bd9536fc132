\* The "#if 0" build: a reader with a signal handler that also clears, beside
\* the epoll client; an O_NONBLOCK writer with faulting buffers.
CONSTANTS
    r1 = r1  r2 = r2  w1 = w1  w2 = w2  c1 = c1  e1 = e1
    b0 = b0  b1 = b1  none = none
    Readers = {r1}
    Writers = {w1}
    Clearers = {r1}
    EpollClients = {e1}
    NonBlock = {w1}
    Asyncs = {}
    Faulty = {w1}
    Catchers = {r1}
    Mortals = {}
    Size = 3
    MaxCount = 2
    Byte = {b0, b1}
    Zero = b0
    ReadSleep = "INTERRUPTIBLE"
    EdgeTriggered = TRUE
    NoTask = none
SPECIFICATION Spec
\* Every task may be closed, dead or asleep for good.
CHECK_DEADLOCK FALSE
INVARIANTS
    TypeOK
    MutualExclusion
    ReaderNotStranded

    
