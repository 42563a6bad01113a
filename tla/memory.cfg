SPECIFICATION Spec
CONSTANTS
    c1 = c1
    c2 = c2
    NoCommit = NoCommit
    NoValue = NoValue
    Values = {v1, v2, v3}
    Sources <- MCSources
    Commits <- MCCommits
    Reviewers = {rev}
    Retrievers = {ret}
    MaxWrites = 3
SYMMETRY Symmetry
CHECK_DEADLOCK FALSE
INVARIANTS RecordsSound ServedRight
PROPERTIES ConfirmsWhatWasRead
