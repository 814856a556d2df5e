SPECIFICATION FairSpec
CONSTANTS
    j1 = j1
    b1 = b1
    h1 = h1
    h2 = h2
    NoJob = NoJob
    Jobs = {j1}
    background_jobs <- MCNoBackground
    Second = 1
    Handlers = {h1, h2}
    Sleepers = {h1}
    Routes = {"query", "addJob", "start", "stop", "reset"}
    NodeCount = 2
    RequestSizes <- MCSizes
    Increments = {2}
    MaxNow = 1
    MaxSkip = 2
    MaxCancels = 1
    MaxLate = 2
INVARIANTS EndsAfterSimulation
PROPERTIES ResetRestarts JobsAreSubmitted EventsAreTaken
