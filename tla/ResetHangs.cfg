SPECIFICATION FairSpec
CONSTANTS
    j1 = j1
    b1 = b1
    h1 = h1
    h2 = h2
    NoJob = NoJob
    Jobs = {j1}
    background_jobs <- MCNoBackground
    Second = 1
    Handlers = {h1, h2}
    Sleepers = {h1}
    Routes = {"query", "addTime", "reset"}
    NodeCount = 2
    RequestSizes = {2}
    Increments = {1}
    MaxNow = 0
    MaxSkip = 1
    MaxCancels = 1
    MaxLate = 0
CHECK_DEADLOCK FALSE
PROPERTIES ResetRestarts
