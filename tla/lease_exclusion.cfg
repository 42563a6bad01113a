SPECIFICATION FairLease
CONSTANTS
    Owners = {o1, o2, o3}
    Faults = TRUE
    MaxOwnerCrashes = 2
    NoLease = NoLease
CHECK_DEADLOCK FALSE
INVARIANTS MutualExclusion FileSound
PROPERTIES WaitersAnswered
