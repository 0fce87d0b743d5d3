\* Three tasks and init with forks that sleep, or a shell and its job; the pids wrap.
CONSTANTS
    i = i
    t1 = t1
    t2 = t2
    t3 = t3
    Task = {i, t1, t2, t3}
    InitTask = i
    NULL = NULL
    MaxPid = 7
    Scenes <- MCScenes
SPECIFICATION FairSpec
INVARIANTS
    TreeSound
    AdopterHasChild
    

    
