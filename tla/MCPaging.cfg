\* Two tasks that together need more frames than there are.
CONSTANTS
    Task = {i, t1}
    InitTask = i
    NULL = NULL
    NFrame = 6
    NSwap = 2
    StopAtRaces = TRUE
SPECIFICATION Spec
VIEW View
INVARIANTS
    CountsExact
    SwapOwned
    
CHECK_DEADLOCK FALSE
