SPECIFICATION DriverSpec
CONSTANTS
    Procs = {p1, p2, p3}
    Mods = {m1, m2}
    CardTypes = {"4000PCI", "429MX"}
    MaxRaised = 2
    MaxIoctls = 3
    Users = {u1, u2, u3}
    Boards = {"4000", "807", "AFDX"}
    MaxRequests = 4
    DmaBuffer = 1
    MemLength = 2
    Kinds = {"c4000", "pcie", "c807", "eth", "afdx", "c1394", "e1394", "pcipx", "amcc"}
    MaxCards = 2
    MaxBoards = 4
INVARIANTS
    WakeNotLost
    NeverIdle PacketAlive
    NothingLeft BanksFit
SYMMETRY DriverSymmetry
CHECK_DEADLOCK FALSE
