SPECIFICATION FairSocketSpec
CONSTANTS
    c1 = c1
    c2 = c2
    c3 = c3
    NoClient = NoClient
    EchoClient = {e1, e2}
    Callers = {k1}
    Sizes <- SmallSizes
    BufSize = 3
    Ports <- ThreePorts
    Peer <- AllToY
    Watched = "x"
    Programs = {"poll", "echo", "calc", "transfer"}
    Client <- TwoClients
    SlotsMax = 4
    Words <- NoFiles
    MaxTyped = 2
    Leaves = FALSE
    MaxMessages = 2
    MaxRuns = 3
    Signals = FALSE
    Loss = FALSE
    Inputs = {0, 1, 2, 5, 9, 10}
    EmptyLines = TRUE
    MaxInputs = 5
    Network = "any"
    Names <- PlainNames
    Partial = FALSE
    MaxLength = 1
    MaxSent = 2
PROPERTIES  SessionsEnd
CHECK_DEADLOCK FALSE
