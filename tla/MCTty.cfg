SPECIFICATION Spec
CONSTANTS
    t1 = t1
    t2 = t2
    NULL = NULL
    Task = {t1, t2}
    Pgrp <- MCPgrp
    Foreground = 1
    Orphaned = {2}
    BufSize = 4
    KbdSize = 8
    WriteRoom = 2
    Startup = 1
    Kinds = {"con", "rs", "pty"}
    Keys <- MCKeys
    Texts <- MCTexts
    Lengths = {2}
    Settings <- MCSettings
    MaxTyped <- MCMaxTyped
    MaxWritten <- MCMaxWritten
    MaxIoctl = 1
INVARIANTS
    
    
    ReaderHasReason
PROPERTY
    SerialWritersReturn
CHECK_DEADLOCK FALSE
