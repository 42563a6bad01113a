SPECIFICATION Spec
CONSTANTS
    Tasks = {t1, t2}
    Sources = {s1}
    Paths = {p1, p2}
    Branches = {b1}
    NoBranch = NoBranch
    Pids = {pid1, pid2}
    Times <- MCTimes
    LastTime = 1
    MaxVersion = 9
    NoTask = NoTask
    NoWorktree = NoWorktree
SYMMETRY StoreSymmetry
CONSTRAINT Explored
CHECK_DEADLOCK FALSE
INVARIANTS CompletionWasReviewed LiveWorktreesDisjoint RecordsSound
PROPERTIES KeepsPromise
