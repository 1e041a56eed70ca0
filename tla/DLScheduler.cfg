CONSTANTS
    p1 = p1
    p2 = p2
    h1 = h1
    h2 = h2
    h3 = h3
    h4 = h4
    NoPeer = NoPeer
    Peers <- MCPeers
    Hashes <- MCHashes
    GLOBAL_INFLIGHT = 3
    PER_PEER_INFLIGHT = 2
    MaxBatch = 2
    MaxTotal = 7
SPECIFICATION DLSpec
SYMMETRY Symmetric
INVARIANTS
    DLTypeOK
    SlotsSound
    WindowsRespected
PROPERTY NothingDropped
