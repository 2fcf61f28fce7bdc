SPECIFICATION Spec
CONSTANTS
    t1 = t1
    t2 = t2
    a = a
    b = b
    c = c
    Threads <- TwoThreads
    None = None
    Selectors <- ThreeSelectors
    Value <- Addresses
    Builds <- BothBuilds
    Buffers <- ThreeBuffers
    Changeable <- OneSelector
    MaxChanges = 1
SYMMETRY ThreadSymmetry
CHECK_DEADLOCK FALSE
INVARIANTS CacheInv HitIsRight FreshAfterChange
PROPERTIES SearchAdvances
