CONSTANTS
    T1 = T1
    T2 = T2
    A1 = A1
    A2 = A2
    S1 = S1
    S2 = S2
    NoThread = NoThread
    Threads <- TwoThreads
    Addrs <- TwoAddrs
    Sources <- TwoSources
    Buckets = {1, 2}
    NewBucket <- NewBucketTable
    TriedBucket <- TriedBucketTable
    BUCKET_SIZE = 1
    MAX_ADDRESSES = 1
    Methods <- MethodsCalled
    MaxAttempts = 1
SPECIFICATION AMSpec
SYMMETRY ThreadSymmetry
INVARIANTS
    BucketsSound
    CircleNeedsReader
PROPERTIES
    ForgottenForAnother
CHECK_DEADLOCK FALSE
