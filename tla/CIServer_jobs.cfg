SPECIFICATION Spec
CONSTANTS
    Jobs = {1, 2}
    MaxQueued = 1
    MaxParallel = 1
    Results = {"success", "failure"}
    Troubles = {"crash", "signal", "store", "log", "cleanup", "remains", "github"}
    FaultsEnd = FALSE
INVARIANTS
    TableIsSound
    ExecutionHoldsRow
    SlotsAreSound
    ReportedIsShown
    CleanupIsSafe
PROPERTIES
    RowsMoveForward
