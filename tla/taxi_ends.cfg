SPECIFICATION FairSpec
CONSTANTS
    d1 = d1
    d2 = d2
    Pid <- OnePid
    Timer <- OneTimer
    DriversMax = 3
    PipeCap = 2
    MaxTasks = 1
    SaFlags <- RestartOrNot
    Faults = {}
PROPERTIES TaskEnds
CHECK_DEADLOCK FALSE
