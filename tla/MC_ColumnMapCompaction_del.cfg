CONSTANTS
    w1 = w1
    w2 = w2
    NotFound = NotFound
    Writers <- MCWriters
    Keys = {1, 2, 3}
    PageRows <- MCPageSingle
    InsertRows <- MCInserts
    FirstVersion = 3
    MinVersion = 3
    MaxVersion = 5
    MaxFill = 3
    MaxPages = 3
    DelChoices = {FALSE, TRUE}
SPECIFICATION Spec
INVARIANT LatestValuePreserved OldestKeptNotDelete
PROPERTY GcTerminates
