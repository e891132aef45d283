SPECIFICATION ApartSpec
CONSTANTS
    Sandboxes = {s1}
    Launches = {l1, l2}
    Deleters = {d1}
    Shutdown = sd
    Identities = {i1, i2}
    MaxGen = 3
    Faults = {"create", "dupfd", "kill", "observe", "rmdir", "temp", "timeout"}
    Signals = {"first", "second"}
INVARIANTS LeasesProtect PopulatedDomainIsOwned ShutdownMeansGone
PROPERTIES ReleaseMeansGone CreatingResolves
