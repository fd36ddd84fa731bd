CONSTANTS
    w1 = w1
    w2 = w2
    NotFound = NotFound
    Writers <- MCWriters
    Keys = {1, 2}
    PageRows <- MCPage
    InsertRows <- MCNoInserts
    FirstVersion = 3
    MinVersion = 4
    MaxVersion = 5
    MaxFill = 1
    MaxPages = 3
    DelChoices = {FALSE}
SPECIFICATION Spec
INVARIANT NoEmptyFlush
