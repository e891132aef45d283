SPECIFICATION Spec
CONSTANTS
    None = None
    w1 = w1
    w2 = w2
    w3 = w3
    p1 = p1
    p2 = p2
    s1 = s1
    s2 = s2
    Sandboxes = {s1, s2}
    Uids = {10, 11}
    Gids = {20, 21}
    InitialRecords = {}
    Workers = {w1, w2, w3}
    Processes = {p1, p2}
    ProcessOf <- ThreadsAndProcess
    MaxLeases = 3
    MaxCrashes = 0
    IOFails = FALSE
INVARIANT
    UniqueLeases
