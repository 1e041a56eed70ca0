CONSTANTS
    P1 = P1
    P2 = P2
    G = G
    B1 = B1
    B2 = B2
    B3 = B3
    B4 = B4
    F2 = F2
    Unknown = Unknown
    NoPeer = NoPeer
    Genesis = G
    Peers <- OnePeer
    Hashes <- Long
    Headers <- Long
    Parent <- LongParent
    Checkpoints <- NoCheckpoints
    DiskMayFail = FALSE
    MaxReread = 0
    MaxHeaders = 2
    GLOBAL_INFLIGHT = 2
    PER_PEER_INFLIGHT = 1
    MaxBatch = 5
    MaxTotal = 5
    HEADER_SYNC_THRESHOLD = 2
    MaxBoot = 2
    MAX_OUTBOUND_FROM_ADDR = 2
    FewPeers = 2
    FullNodes <- OnePeer
    PeerChain <- Same4
    Claims <- HonestClaims
    Announces <- Tips
    MaxAsked = 1
    MaxDrops = 0
    MayReturn = TRUE
    MaxCrashes = 0
    AllowExpiry = FALSE
    AllowInv = FALSE
    Responsive <- OnePeer
SPECIFICATION PMFairSpec
PROPERTIES
    BlocksReachTip
CHECK_DEADLOCK FALSE
