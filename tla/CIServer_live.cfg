SPECIFICATION FairSpec
CONSTANTS
    Jobs = {1, 2}
    MaxQueued = 1
    MaxParallel = 1
    Results = {}
    Troubles = {"crash", "update", "remains", "github"}
    FaultsEnd = TRUE
PROPERTIES
    JobsEnd
    UpdatesEnd
    VerdictsShown
