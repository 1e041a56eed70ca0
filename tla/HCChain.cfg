CONSTANTS
    g = g
    a = a
    b = b
    c = c
    d = d
    e = e
    unknown = unknown
    Genesis = g
    Headers <- MCHeaders
    Parent <- MCParent
    Checkpoints <- LateCheckpoint
    DiskMayFail = TRUE
    MaxReread = 2
    MaxHeaders = 3
SPECIFICATION HCSpec
INVARIANTS
    HCTypeOK
    ChainIndexed
    Ancestry
    CheckpointsHeld
    DiskMirrorsChain
PROPERTIES
    HistoryStable
    AcceptsConnected
