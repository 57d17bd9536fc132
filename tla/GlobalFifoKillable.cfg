\* KILLABLE readers as built, a SIGIO listener, caught and fatal signals.
CONSTANTS
    r1 = r1  r2 = r2  w1 = w1  w2 = w2  c1 = c1  e1 = e1
    b0 = b0  b1 = b1  none = none
    Readers = {r1}
    Writers = {w1, w2}
    Clearers = {}
    EpollClients = {}
    NonBlock = {}
    Asyncs = {w2}
    Faulty = {}
    Catchers = {r1}
    Mortals = {r1, w1}
    Size = 1
    MaxCount = 1
    Byte = {b0}
    Zero = b0
    ReadSleep = "KILLABLE"
    EdgeTriggered = TRUE
    NoTask = none
SPECIFICATION FairSpec
\* Every task may be closed, dead or asleep for good.
CHECK_DEADLOCK FALSE
INVARIANTS
    WriterNotStranded
    
    NoDanglingEntries
PROPERTY
    KilledTaskDies
