SPECIFICATION FairSpec
CONSTANTS
    Creators = {c1, c2}
    Recoverers = {r1}
    MaxFaults = 2
    MaxRecovers = 5
    MaxUser = 2
    MaxCrashes = 2
    None = None
    User = User
CHECK_DEADLOCK FALSE
INVARIANTS CreationAccounted
  
