SPECIFICATION ProcSpec
CONSTANTS
    c1 = c1
    c2 = c2
    c3 = c3
    server = server
    n1 = n1
    n2 = n2
    r = r
    prod = prod
    cons1 = cons1
    cons2 = cons2
    f1 = f1
    f2 = f2
    r1 = r1
    r2 = r2
    NoFile = NoFile
    Server <- server
    Talkers <- ThreeTalkers
    MaxMsg = 8
    Queues = {1, 2, 3, 4, 5, 6, 7, 8}
    Enders <- ThreeTalkers
    Programs = {"chat"}
    Client <- TwoClients
    MaxClients = 2
    QueueCap = 4
    MaxTyped = 0
    MaxLines = 0
    Private <- Nobody
    Leavers <- TwoClients
    Stops = FALSE
    Killed = {}
    Files <- Single
    FileLines <- OneLine
    Lines <- OneLine
    MaxFile = 1
    Runs <- OneRun
    FileThere = TRUE
    MaxSets = 1
    Signals = FALSE
    Kills = FALSE
    MaxSignals = 0
    MaxNumbers = 0
    MaxArgs = 1
    BufLines = 1
INVARIANTS RosterRight
CHECK_DEADLOCK FALSE
