SPECIFICATION FairSpec
CONSTANTS
    Conns = {c1, c2}
    NoConn = NoConn
    KeepAliveMax = 5
    KeepAlive = 5
    MaxBoot = 5
    MaxResets = 5
INVARIANTS
    OneTimer
    StopsInTime
    FirstPollMeetsNewServer
PROPERTIES
    ServerReturns
