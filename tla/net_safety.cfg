SPECIFICATION SocketSpec
CONSTANTS
    c1 = c1
    c2 = c2
    c3 = c3
    NoClient = NoClient
    EchoClient = {e1, e2}
    Callers = {k1}
    Sizes <- SmallSizes
    BufSize = 3
    Ports <- ThreePorts
    Peer <- AllToY
    Watched = "x"
    Programs = {"poll", "echo", "calc", "transfer", "udp"}
    Client <- ThreeClients
    SlotsMax = 4
    Words = {"calc", "file", "text"}
    MaxTyped = 2
    Leaves = TRUE
    MaxMessages = 2
    MaxRuns = 3
    Signals = TRUE
    Loss = TRUE
    Inputs = {0, 1, 2, 5, 9, 10}
    EmptyLines = TRUE
    MaxInputs = 9
    Network = "kind"
    Names <- AllNames
    Partial = TRUE
    MaxLength = 1
    MaxSent = 2
SYMMETRY Symmetry
INVARIANTS TypesOK SlotsRight ReceivedRight 
CHECK_DEADLOCK FALSE
