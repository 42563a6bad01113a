SPECIFICATION FairSpec
CONSTANTS
    Resumers = {r1}
    Pids = {p1, p2}
    RunPid = p1
    MaxLocalAttempts = 2
    AttemptLimit = 2
    MaxRecovers = 1
    MaxCleanups = 1
    MaxCrashes = 1
    MaxClock = 3
    Stalls = TRUE
    Faults = TRUE
    NoRec = NoRec
    NoTask = NoTask
    NoLease = NoLease
CHECK_DEADLOCK FALSE
INVARIANTS NoFalseSuccess OnlyCompletedTreesDeleted 
  
