SPECIFICATION Spec
CONSTANTS
    Files = {f1}
    Contents = {x, y}
    Absent = Absent
    NoMap = NoMap
    Workers = {w1, w2}
    MaxGens = 3
    MaxOps = 4
    MaxEdits = 2
    MaxCrashes = 1
SYMMETRY Symmetry
CHECK_DEADLOCK FALSE
INVARIANTS IndexSound ImportsAreKept MemoryFollowsIndex
PROPERTIES PurgedStaysPurged
