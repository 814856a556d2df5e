SPECIFICATION FairSpec
CONSTANTS
    j1 = j1
    b1 = b1
    h1 = h1
    h2 = h2
    NoJob = NoJob
    Jobs = {j1}
    background_jobs <- MCNoBackground
    Second = 2
    Handlers = {h1, h2}
    Sleepers = {h1}
    Routes = {"query", "addTime", "start", "addJob"}
    NodeCount = 2
    RequestSizes = {2}
    Increments = {4}
    MaxNow = 1
    MaxSkip = 4
    MaxCancels = 1
    MaxLate = 1
CHECK_DEADLOCK FALSE
INVARIANTS SimulationBehindClock
PROPERTIES ClockNeverBack AddTimeAnswers
