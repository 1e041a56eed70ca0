CONSTANTS
    g = g
    a = a
    b = b
    c = c
    d = d
    e = e
    unknown = unknown
    Genesis = g
    Headers <- MCHeaders
    Parent <- MCParent
    Checkpoints <- LateCheckpoint
    DiskMayFail = FALSE
    MaxReread = 0
    MaxHeaders = 4
SPECIFICATION HCSpec
INVARIANT ChainContinuity
