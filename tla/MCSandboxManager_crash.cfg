SPECIFICATION FairSpec
CONSTANTS
    Workers = {w1, w2}
    Boot = boot
    Sandboxes = {s1}
    Principals = {o1}
    Admins = {}
    None = None
    Isolated = TRUE
    Pairs = {10, 11}
    Ops = {"launch", "delete", "shutdown"}
    MaxSandboxes = 2
    MaxPerOwner = 2
    MaxLaunches = 2
    Faults = {"create", "delegation", "lease", "mark", "resources", "spawn", "sync", "timeout", "tree"}
    MaxCrashes = 1
INVARIANTS WorkspaceOutlivesProcesses ShutdownBarrier
PROPERTIES LeaseOutlivesProcesses RequestsReturn
