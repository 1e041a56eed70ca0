CONSTANTS
    P1 = P1
    P2 = P2
    G = G
    B1 = B1
    B2 = B2
    B3 = B3
    B4 = B4
    F2 = F2
    Unknown = Unknown
    NoPeer = NoPeer
    Genesis = G
    Peers <- TwoPeers
    Hashes <- Short
    Headers <- Short
    Parent <- ShortParent
    Checkpoints <- NoCheckpoints
    DiskMayFail = FALSE
    MaxReread = 0
    MaxHeaders = 2
    GLOBAL_INFLIGHT = 2
    PER_PEER_INFLIGHT = 1
    MaxBatch = 3
    MaxTotal = 3
    HEADER_SYNC_THRESHOLD = 0
    MaxBoot = 2
    MAX_OUTBOUND_FROM_ADDR = 2
    FewPeers = 2
    FullNodes <- TwoPeers
    PeerChain <- Lagging2
    Claims <- HonestClaims
    Announces <- Anything
    MaxAsked = 1
    MaxDrops = 1
    MayReturn = TRUE
    MaxCrashes = 1
    AllowExpiry = TRUE
    AllowInv = TRUE
    Responsive <- TwoPeers
SPECIFICATION PMSpec
INVARIANTS
    PMTypeOK
    BlocksAfterHeaders
    PlanTracked
    SkippedBlocksStored
    SlotsSound
    WindowsRespected
PROPERTIES
    NothingDropped
    ImplementsDownloader
    ImplementsHeaderChain
    ImplementsHeadersFirst
