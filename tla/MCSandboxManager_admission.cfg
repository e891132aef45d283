SPECIFICATION Spec
CONSTANTS
    Workers = {w1, w2}
    Boot = boot
    Sandboxes = {s1, s2}
    Principals = {o1, o2}
    Admins = {o2}
    None = None
    Isolated = TRUE
    Pairs = {10, 11}
    Ops = {"launch", "delete"}
    MaxSandboxes = 1
    MaxPerOwner = 1
    MaxLaunches = 1
    Faults = {"create", "delegation", "spawn"}
    MaxCrashes = 1
SYMMETRY Symmetry
INVARIANTS CapsHold LedgerMatchesDisk LeaseSpansSandbox
PROPERTY RestartFinishesDeletes
