SPECIFICATION Spec
CONSTANTS
    d1 = d1
    d2 = d2
    Pid <- MCPid
    Timer <- TwoTimers
    DriversMax = 3
    PipeCap = 2
    MaxTasks = 2
    SaFlags <- AnyFlags
    Faults = {"exec", "crash"}
SYMMETRY PidSymmetry
INVARIANTS TypeOK ViewBusyHasCause
PROPERTIES BoardSpec
CHECK_DEADLOCK FALSE
