\* Three tasks that sleep, wake each other and change their priority.
CONSTANTS
    NTask = 3
    Priority = 1
    MaxPriority = 2
    Increments <- MCIncrements
SPECIFICATION FairSpec

    
PROPERTIES
    ReadyRuns
