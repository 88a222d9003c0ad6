SPECIFICATION ProcSpec
CONSTANTS
    c1 = c1
    c2 = c2
    c3 = c3
    server = server
    n1 = n1
    n2 = n2
    r = r
    prod = prod
    cons1 = cons1
    cons2 = cons2
    f1 = f1
    f2 = f2
    r1 = r1
    r2 = r2
    NoFile = NoFile
    Server <- server
    Talkers <- ThreeTalkers
    MaxMsg = 8
    Queues = {1, 2, 3, 4, 5, 6, 7, 8}
    Enders <- ThreeTalkers
    Programs = {"chat", "talk", "files", "named", "shm", "counter", "halves"}
    Client <- ThreeClients
    MaxClients = 2
    QueueCap = 2
    MaxTyped = 2
    MaxLines = 3
    Private <- ToServer
    Leavers <- ThreeClients
    Stops = TRUE
    Killed <- FirstReaders
    Files <- Single
    FileLines <- OneLine
    Lines <- SomeLines
    MaxFile = 2
    Runs <- TwoRuns
    FileThere = FALSE
    MaxSets = 2
    Signals = TRUE
    Kills = TRUE
    MaxSignals = 4
    MaxNumbers = 1
    MaxArgs = 6
    BufLines = 2
SYMMETRY Symmetry
INVARIANTS TypesOK CountRight  TurnsRight OneInside 
PROPERTIES LogsRight
CHECK_DEADLOCK FALSE
