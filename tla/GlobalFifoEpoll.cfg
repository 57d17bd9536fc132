\* epoll.c (EPOLLET) as the only reader, beside two writers.
CONSTANTS
    r1 = r1  r2 = r2  w1 = w1  w2 = w2  c1 = c1  e1 = e1
    b0 = b0  b1 = b1  none = none
    Readers = {}
    Writers = {w1, w2}
    Clearers = {}
    EpollClients = {e1}
    NonBlock = {}
    Asyncs = {}
    Faulty = {}
    Catchers = {}
    Mortals = {e1}
    Size = 2
    MaxCount = 2
    Byte = {b0}
    Zero = b0
    ReadSleep = "KILLABLE"
    EdgeTriggered = TRUE
    NoTask = none
SPECIFICATION FairSpec
\* Every task may be closed, dead or asleep for good.
CHECK_DEADLOCK FALSE
INVARIANT
    EdgeNotLost
PROPERTY
    EpollClientServed
