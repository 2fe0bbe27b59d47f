SPECIFICATION FairSpec
INVARIANT VerdictIsEarned
INVARIANT BundleOutlivesContainer
INVARIANT NothingIsLeft
PROPERTY ExecutionReturns
PROPERTY CleanupFinishes
CHECK_DEADLOCK FALSE
