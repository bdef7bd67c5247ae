SPECIFICATION MCSpec
CONSTANTS
    Form = {1, 2}
    MaxWire = 2
    MaxUses = 2
    MaxUpdates = 1
INVARIANTS DevicesFollow DoneIsDone
PROPERTIES FormsRecover CloseComesBack
CHECK_DEADLOCK FALSE
