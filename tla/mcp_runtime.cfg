SPECIFICATION FairSpec
CONSTANTS
    Hubs = {h1}
    Consumers = {c1}
    Pool = {l1, l2}
    Stops = {s1}
    MaxAttempts = 2
    Threshold = 2
    MaxPolls = 0
    MaxDisturbances = 1
    None = None
CHECK_DEADLOCK FALSE
INVARIANTS OwnershipSound NotIdempotentOnce
PROPERTIES LiveGenerationSpared NobodyStuck
