SPECIFICATION FairSpec
CONSTANTS
    a = a
    b = b
    s1 = s1
    s2 = s2
    Path = {a, b}
    Scanner = {s1, s2}
    FirstScan = s1
    Sender <- MCSender
    Client = {c}
    Url = {u}
    Filters <- MCFilters
    Worlds <- MCWorlds
    Delay = 1
    MaxFlushers = 2
    QueueMax = 1
    MaxRetries = 2
    MaxFailCount = 2
    BufferMax = 2
    BufferKeep = 1
    Nothing = Nothing
    Gone = Gone
CHECK_DEADLOCK FALSE
INVARIANTS
    TypeOK
    PendingIsTimed
    ScansDoNotOverlap
    LastDispatchIsTrue
    BufferAgrees
PROPERTIES
    ReportsTheLatest
    ChangesDispatched
    DispatchEnds
    DeliveriesEnd
