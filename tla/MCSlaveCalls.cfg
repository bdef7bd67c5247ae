SPECIFICATION FairSpec
CONSTANTS
    Worker = {w1, w2}
    MaxQueued = 2
    RetryCount = 2
    MaxCalls = 4
INVARIANTS SomeWorkerServes NoGhostAttempt
PROPERTY CallsAnswered
CHECK_DEADLOCK FALSE
