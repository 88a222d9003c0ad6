SPECIFICATION KernelSpec
CONSTANTS
    null = null
    None = None
    Programs = {"device", "message", "leds", "block", "watch"}
    Users = {u1, u2}
    Files = {f1, f2}
    Letters = {x, y}
    BUF_LEN = 3
    MaxWrite = 3
    ReadSizes = {1, 3}
    MaxPos = 3
    Callers = {k1, k2}
    Texts = {"old", "new"}
    MSG_MAX_LEN = 2
    MaxCount = 3
    Consoles = {1, 2, 3}
    NoTty = {3}
    Values = {0, 2, 7, 255}
    Nodes = {1, 2, 3}
    Addresses = {a1, a2, a3}
    Packets = {p1}
    Observers = {"o1", "o2"}
    Pids = {q1, q2, q3, q4}
    MaxRuns = 3
SYMMETRY Symmetry
INVARIANTS TypesOK DeviceRight LedsRight ListRight
PROPERTIES OnlyRemovalTakes TextsRight DecidesRight
CHECK_DEADLOCK FALSE
