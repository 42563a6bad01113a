SPECIFICATION Spec
CONSTANTS
    change = change
    other = other
    Contents = {base, change, other}
    BaseTree = base
    Empty = Empty
    Nothing = Nothing
    MaxWrites = 3
SYMMETRY GateSymmetry
CHECK_DEADLOCK FALSE
INVARIANTS CommitIsReviewed GateDecidesRight
