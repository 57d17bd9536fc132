\* Two barriers per side in counters of four bits, one failing system call.
CONSTANTS
    BARRIER_ABORTION = 7
    MaxPlaces = 2
    MaxErrors = 1
SPECIFICATION FairSpec
\* Both sides may wait for a barrier that the other never places.
CHECK_DEADLOCK FALSE
INVARIANTS
    TypeOK
    SyncMeansPlaced
PROPERTIES
    HangupComesLast
    WaitersReturn
