SPECIFICATION FairSpec
CONSTANTS
    EventQueueSize = 2
    ExpiryFactor = 2
    Timeouts = {1, 2}
    Kind = {portUpdate, valueChange, deviceUpdate}
    Coalesced = {portUpdate, deviceUpdate}
    Restricted = {deviceUpdate}
    MaxCalls = 3
    MaxEvents = 4
INVARIANTS DeliveryHolds OneListener
PROPERTY ListenersAnswered
CHECK_DEADLOCK FALSE
