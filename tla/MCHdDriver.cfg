\* A bad disk, or a busy one.
CONSTANTS
    r1 = r1
    r2 = r2
    r3 = r3
    bad = bad
    w1 = w1
    w2 = w2
    p1 = p1
    NoReq = NoReq
    Reqs = {r1, r2, r3, bad, w1, w2, p1}
    Writes = {w1, w2}
    Pages = {p1}
    BadReqs = {bad}
    Sector <- SectorOf
    Sectors = 2
    MaxErrors = 3
    Drives = 2
    Loads <- MCLoads
SPECIFICATION FairSpec
INVARIANTS
    HandlerFits
    Watched
    OkMeansMoved
    TwoSweeps

    
CHECK_DEADLOCK FALSE
