\* Three tasks, one interrupt nested in a wake_up of a task.
CONSTANTS
    Task = {t1, t2, t3}
    Task0 = Task0
    NULL = NULL
    bwait = bwait
    iwait = iwait
    Queue <- MCQueue
    IntrWake <- MCIntrWake
    Unmasked <- MCUnmasked
    MaxNest = 2
SPECIFICATION FairSpec
INVARIANTS
    NoLostSleeper
PROPERTIES
    WakeWakesAll
    ImplementsWaitSet
    WokenEventually
