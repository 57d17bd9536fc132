\* Two hosts and two addresses; one lost transmission less than there are probes.
CONSTANTS
    Host = {h1, h2}
    Addr = {a1, a2}
    NoAddr = NoAddr
    PROBE_NUM = 3
    ANNOUNCE_NUM = 2
    MaxLost = 2
    MaxSocket = 2
SPECIFICATION FairSpec
INVARIANTS
    TypeOK
    Unique
PROPERTIES
    SharedResolved
    AttemptEnds
