SPECIFICATION Spec
CONSTANTS
    Jobs = {1, 2}
    MaxQueued = 1
    MaxParallel = 1
    Results = {"success"}
    Troubles = {"crash", "signal", "serve", "store", "update", "build", "exec"}
    FaultsEnd = FALSE
INVARIANTS
    HandoffIsQuiet
    UpdateSparesJobs
    FailedUpdateResumes
    StopSettlesJobs
PROPERTY ImplementsCommitStatus
