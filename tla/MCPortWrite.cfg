SPECIFICATION FairSpec
CONSTANTS
    WriteQueueSize = 2
    MaxRequests = 3
    Transforms = {TRUE, FALSE}
INVARIANTS NoOrphanedCaller OneWriteAtATime HonestAnswers
PROPERTIES ImplementsService CallersAnswered LockNotStarved
CHECK_DEADLOCK FALSE
