SPECIFICATION Spec
CONSTANTS
    j1 = j1
    j2 = j2
    b1 = b1
    h1 = h1
    NoJob = NoJob
    Jobs = {j1, j2}
    background_jobs <- MCBackground
    Second = 2
    Handlers = {h1}
    Sleepers = {h1}
    Routes = {"query", "addTime", "addJob", "cancelJob", "getQueue"}
    NodeCount = 2
    RequestSizes <- MCSizes
    Increments = {2}
    MaxNow = 0
    MaxSkip = 4
    MaxCancels = 1
    MaxLate = 0
SYMMETRY JobSymmetry
PROPERTIES ImplementsJobLifecycle
