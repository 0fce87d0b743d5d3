\* Two tasks, four inodes in memory and three on a disk with two zones.
CONSTANTS
    Task = {p, q}
    Slot = {s1, s2, s3, s4}
    NInodes = 3
    NZones = 2
    StopAtRaces = TRUE
    NULL = NULL
    Names = {"a", "b", "d"}
    DIR = "d"
    NEntries = 2
    Calls <- MCCalls
    MaxCalls = 4
SYMMETRY Sym
SPECIFICATION Spec
INVARIANTS
    TableExact
    CleanIsSaved
    LinksExact
    ZonesOwned
CHECK_DEADLOCK FALSE
