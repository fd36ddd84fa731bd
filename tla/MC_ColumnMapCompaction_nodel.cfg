CONSTANTS
    w1 = w1
    w2 = w2
    NotFound = NotFound
    Writers <- MCWriters
    Keys = {1, 2, 3}
    PageRows <- MCPageFloor
    InsertRows <- MCInserts
    FirstVersion = 3
    MinVersion = 4
    MaxVersion = 5
    MaxFill = 2
    MaxPages = 3
    DelChoices = {FALSE}
SPECIFICATION Spec
INVARIANT TypeOK RowsMatchEntries GcBound
PROPERTY AbsSpec GcTerminates
