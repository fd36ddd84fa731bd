CONSTANTS
    t1 = t1
    t2 = t2
    t3 = t3
    NULL = NULL
    Threads <- MixedThreads
    Ops <- MixedOps
    Capacity = 2
    Prefill = 1
SPECIFICATION Spec
PROPERTY AllOpsComplete
