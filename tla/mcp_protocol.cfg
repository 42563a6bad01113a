SPECIFICATION FairSession
CONSTANTS
    Lists = {l1}
    Calls = {c1, c2}
    Protocol = {p1}
    Keys = {k1, k2}
    MaxSent = 3
    AuditFaults = 1
    Nothing = Nothing
CHECK_DEADLOCK FALSE
INVARIANTS AnswerMatches AuditExact
PROPERTIES FailureEndsSession
