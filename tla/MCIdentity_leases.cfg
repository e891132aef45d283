SPECIFICATION IdentitySpec
CONSTANTS
    None = None
    w1 = w1
    w2 = w2
    w3 = w3
    p1 = p1
    p2 = p2
    s1 = s1
    s2 = s2
    Sandboxes = {s1, s2}
    Uids = {10, 11}
    Gids = {20, 21}
    InitialRecords <- Legacy
    Workers = {w1, w2, w3}
    Processes = {p1, p2}
    ProcessOf <- ThreadsAndProcess
    MaxLeases = 3
    MaxCrashes = 1
    IOFails = TRUE
    c1 = c1
    c2 = c2
    c3 = c3
    Clients = {c1, c2, c3}
    Daemon <- OwnIds
    Lease <- LeasedIds
    Initial = Initial
    MAX_HANDLER_THREADS = 1
    MaxExits = 1
    MaxChanges = 1
INVARIANTS
    UniqueLeases
    SweepSparesLiveTemps
    NeverStuck
    ViewsMatchLease
    PermitsExact
PROPERTY
    ImplementsTable
    MountCallsReturn
CHECK_DEADLOCK FALSE
