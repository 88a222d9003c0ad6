SPECIFICATION FairSpec
CONSTANTS
    d1 = d1
    d2 = d2
    Pid <- OnePid
    Timer <- TwoTimers
    DriversMax = 3
    PipeCap = 2
    MaxTasks = 3
    SaFlags <- AnyFlags
    Faults = {"interrupt"}
INVARIANTS IInv BusyTimerRight
PROPERTIES TaskRunsDown  ViewCatchesUp 
CHECK_DEADLOCK FALSE
