SPECIFICATION SumSpec
CONSTANTS
    IdSpace = 6
    Wide = 36
    Starts <- AllIds
    Counts <- NarrowCounts
    MaxRanges = 3
    Requests = {r1, r2}
    Boot = boot
    Keys = {k1}
    NsecRange = 4
    MaxInvalidations = 1
    Threads = {t1, t2}
    None = None
    Restores = FALSE
    HelperFails = TRUE
    MaxEdits = 2
SYMMETRY Symmetry
INVARIANTS IntervalsExact CacheExact OneMoment
PROPERTY FreshAnswer
CHECK_DEADLOCK FALSE
