SPECIFICATION MCSpec
CONSTANTS
    UseBackup = TRUE
    MaxChanges = 4
    MaxCrashes = 3
    WriteQueueSize = 1
    MaxRequests = 2
    Transforms = {TRUE, FALSE}
    Saver = {saveLoop, api}
    SaveLoop = saveLoop
    MaxStops = 1
    None = None
    Run = {r1, r2}
    RetryCount = 1
    MaxItemChanges = 2
    MaxFaults = 2
INVARIANTS AckedOnDisk SavesHold ProvisioningHolds
PROPERTY RestartRecovers
CHECK_DEADLOCK FALSE
