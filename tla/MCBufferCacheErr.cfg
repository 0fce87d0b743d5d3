\* Two tasks, one buffer, disk errors and page faults: whoever finds the buffer in use
\* sleeps on buffer_wait.
CONSTANTS
    Proc = {p1, p2}
    Block = {b1, b2}
    Buf = {x1}
    NReq = 2
    NULL = NULL
    Ops = {"block_write", "file_read", "sys_sync"}
    AheadLen = 0
    MayFault = TRUE
    MayFail = TRUE
SPECIFICATION FairSpec
INVARIANTS
    NoLostWrite

    
