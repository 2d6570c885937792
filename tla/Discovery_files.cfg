SPECIFICATION FairSpec
CONSTANTS
    Process = {p, q}
    Name = {m, n}
    Interval = 1
    Threshold = 2
    MaxFaults = 1
    Missing = Missing
    Empty = Empty
    Mixed = Mixed
INVARIANTS
    TypeOK
    BeatingIsFresh
    StoppedStaysGone
    ListsTheLiving
PROPERTIES
    DeadIsSeen
    LiveIsFound
    KeepsRegistry
