\* All operations; no errors.  Two tasks with read-ahead may wait for each other's
\* buffers, so deadlock is not checked here.
CONSTANTS
    Proc = {p1, p2}
    Block = {b1, b2, b3}
    Buf = {x1, x2}
    NReq = 2
    NULL = NULL
    Ops = {"block_read", "block_write", "file_write", "sys_sync", "ll_rw_page"}
    AheadLen = 1
    MayFault = FALSE
    MayFail = FALSE
SYMMETRY Sym
SPECIFICATION Spec
INVARIANTS
    UniqueBuffer
    RefCount
    
    LockedIsBusy
    NoLostWrite
    UptodateIsCurrent
CHECK_DEADLOCK FALSE
