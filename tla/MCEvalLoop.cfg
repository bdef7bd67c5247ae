SPECIFICATION FairSpec
CONSTANTS
    Port = {"a", "b"}
    Values <- MCValues
    Exprs <- MCExprs
    BackupSupport = TRUE
    MaxMoves = 1
    MaxCalls = 2
    MaxFailures = 1
INVARIANTS ValueChangesReach AttrChangesReach
PROPERTY ExpressionsCatchUp
