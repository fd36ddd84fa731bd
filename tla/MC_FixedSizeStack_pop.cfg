CONSTANTS
    t1 = t1
    t2 = t2
    t3 = t3
    NULL = NULL
    Threads <- PopOnlyThreads
    Ops <- PopOnlyOps
    Capacity = 4
    Prefill = 4
SPECIFICATION Spec
INVARIANT NoDoublePop
PROPERTY AllOpsComplete StackRefinement
