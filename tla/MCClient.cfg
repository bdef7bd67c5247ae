SPECIFICATION FairSpec
CONSTANTS
    Item = {"a"}
    Part = {"ports"}
    PartOf <- MCOnePart
    Upserted = {}
    MaxChanges = 1
    MaxFailures = 1
    MaxRestarts = 1
INVARIANTS ListeningGoesOn 
CHECK_DEADLOCK FALSE
