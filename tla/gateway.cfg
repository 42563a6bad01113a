SPECIFICATION Spec
CONSTANTS
    Requests = {1, 2, 3}
    MayAsk <- MCMayAsk
    MaxAttempts = 2
    MaxCancels = 2
    MaxFaults = 1
INVARIANTS LocksHeld JournalSound
PROPERTIES DecidedStays AllServed
