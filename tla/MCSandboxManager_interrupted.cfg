SPECIFICATION FairSpec
CONSTANTS
    Workers = {w1}
    Boot = boot
    Sandboxes = {s1}
    Principals = {o1}
    Admins = {}
    None = None
    Isolated = TRUE
    Pairs = {10, 11}
    Ops = {"launch", "delete"}
    MaxSandboxes = 2
    MaxPerOwner = 2
    MaxLaunches = 1
    Faults = {}
    MaxCrashes = 1
PROPERTY DeletesComplete
