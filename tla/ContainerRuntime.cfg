SPECIFICATION FairSpec
CONSTANT MaxRuns = 2
INVARIANT OutcomesAreTrue
PROPERTIES
    LogsAreKept
    ReleaseSucceeds
CHECK_DEADLOCK FALSE
