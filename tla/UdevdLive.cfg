\* Two events of one device, two faults, one reload.
CONSTANTS
    Device <- OneDevice
    Pid = {p1, p2}
    NoPid = NoPid
    NoDevice = NoDevice
    MaxEvents = 2
    MaxReloads = 1
    MaxFaults = 2
SPECIFICATION FairSpec
\* The daemon may exit.
CHECK_DEADLOCK FALSE
PROPERTIES
    EventsHandled
    ExitEnds
