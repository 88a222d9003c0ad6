SPECIFICATION FairProcSpec
CONSTANTS
    c1 = c1
    c2 = c2
    c3 = c3
    server = server
    n1 = n1
    n2 = n2
    r = r
    prod = prod
    cons1 = cons1
    cons2 = cons2
    f1 = f1
    f2 = f2
    r1 = r1
    r2 = r2
    NoFile = NoFile
    Server <- server
    Talkers <- ThreeTalkers
    MaxMsg = 8
    Queues = {1, 2, 3, 4, 5, 6, 7, 8}
    Enders <- ThreeTalkers
    Programs = {"chat", "talk", "files", "named", "shm", "counter"}
    Client <- TwoClients
    MaxClients = 2
    QueueCap = 8
    MaxTyped = 1
    MaxLines = 2
    Private <- ToServer
    Leavers <- Nobody
    Stops = FALSE
    Killed = {}
    Files <- Both
    FileLines <- OneLine
    Lines <- OneLine
    MaxFile = 1
    Runs <- OneRun
    FileThere = TRUE
    MaxSets = 3
    Signals = FALSE
    Kills = FALSE
    MaxSignals = 3
    MaxNumbers = 0
    MaxArgs = 1
    BufLines = 1
PROPERTIES MessagesArrive WorkDone
CHECK_DEADLOCK FALSE
