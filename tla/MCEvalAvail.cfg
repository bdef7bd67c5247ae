SPECIFICATION Spec
CONSTANTS
    Port = {"a", "b"}
    Values <- MCValues
    Exprs <- MCExprs
    BackupSupport = FALSE
    MaxMoves = 0
    MaxCalls = 3
    MaxFailures = 0
INVARIANT AvailabilityReaches
