\* A disk, its partition and an interface; two workers, one fault, one reload.
CONSTANTS
    Device <- SomeDevices
    Pid = {p1, p2}
    NoPid = NoPid
    NoDevice = NoDevice
    MaxEvents = 3
    MaxReloads = 1
    MaxFaults = 1
SPECIFICATION Spec
SYMMETRY Symmetry
\* The daemon may exit.
CHECK_DEADLOCK FALSE
INVARIANTS
    TypeOK
    EarlierFirst
    RelatedApart
    
    QueueFileTold
