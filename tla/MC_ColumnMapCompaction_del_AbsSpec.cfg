CONSTANTS
    w1 = w1
    w2 = w2
    NotFound = NotFound
    Writers <- MCWriters
    Keys = {1, 2}
    PageRows <- MCPageSingle
    InsertRows <- MCNoInserts
    FirstVersion = 3
    MinVersion = 3
    MaxVersion = 5
    MaxFill = 3
    MaxPages = 3
    DelChoices = {FALSE, TRUE}
SPECIFICATION Spec
PROPERTY AbsSpec
