\* A reader whose pages may be swapped out and two writers share a pipe with a page of four bytes.
CONSTANTS
    Reader = {r1}
    Writer = {w1, w2}
    NULL = NULL
    PageSize = 4
    Counts = {2, 3}
    MaxBytes = 6
    Faulting = {r1}
SPECIFICATION FairSpec
CHECK_DEADLOCK FALSE
INVARIANTS
    InOrder
    SleepsForReason
PROPERTIES
    EndIsSeen
