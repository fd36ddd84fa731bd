CONSTANTS
    t1 = t1
    t2 = t2
    t3 = t3
    NULL = NULL
    Threads <- PushOnlyThreads
    Ops <- PushOnlyOps
    Capacity = 4
    Prefill = 0
SPECIFICATION Spec
INVARIANT TypeOK
INVARIANT ElementsConserved
PROPERTY AllOpsComplete StackRefinement
