SPECIFICATION Spec
CONSTANTS
    Jobs = {1}
    MaxQueued = 1
    MaxParallel = 1
    Results = {"success"}
    Troubles = {"signal", "update"}
    FaultsEnd = FALSE
INVARIANT CleanExitSettlesJobs
