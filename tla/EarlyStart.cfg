SPECIFICATION Spec
CONSTANTS
    Conns = {c1, c2}
    NoConn = NoConn
    KeepAliveMax = 5
    KeepAlive = 5
    MaxBoot = 5
    MaxResets = 2
INVARIANTS
    StartMeetsNewServer
