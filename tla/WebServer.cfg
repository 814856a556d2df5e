SPECIFICATION FairSpec
CONSTANTS
    Workers = {w1, w2}
    Tasks = {c1, c2}
    NoTask = NoTask
    Requests <- MCRequests
    KeepAliveMax = 2
    MaxRequests = 2
INVARIANTS
    TypeOK
    TasksRunOnce
    ShutdownDrains
    WholeRequests
    AnswersMatch
    LastAnswerSaysClose
    StopAsserts
PROPERTIES
    ImplementsHttpService
    ConnectionsEnd
    ListenReturns
