SPECIFICATION FairSandbox
CHECK_DEADLOCK FALSE
INVARIANTS
    CleanUpSound
    PassedWithinLimits
PROPERTIES
    ContainersEnd
