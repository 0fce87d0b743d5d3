SPECIFICATION Spec
CONSTANTS
    Con <- MCCon
    Cols = 2
    Lines = 3
    Tab = 2
    VideoCells = 8
    Boot <- MCBoot
    NPAR = 2
    Digits = {"1", "2"}
    MaxPar = 0
    MaxOps = 3
INVARIANTS
    Geometry
    

    
VIEW View
CHECK_DEADLOCK FALSE
