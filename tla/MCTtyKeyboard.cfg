SPECIFICATION Spec
CONSTANTS
    t1 = t1
    t2 = t2
    NULL = NULL
    Task = {t1, t2}
    Pgrp <- MCPgrp
    Foreground = 1
    Orphaned = {2}
    BufSize = 4
    KbdSize = 8
    WriteRoom = 2
    Startup = 1
    Kinds = {"con"}
    Keys <- MCKeys
    Texts <- MCTexts
    Lengths = {2}
    Settings <- MCSettings
    MaxTyped <- MCManyTyped
    MaxWritten <- MCMaxWritten
    MaxIoctl = 0
INVARIANTS
    KeyboardInRing
CHECK_DEADLOCK FALSE
