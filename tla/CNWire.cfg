CONSTANTS
    Kinds <- MCKinds
    Payload <- MCPayload
    HeaderChunks = 2
    HANDSHAKE_MESSAGES = 3
    MaxSent = 5
    MaxGarbage = 3
SPECIFICATION CNSpec
INVARIANTS
    ReceivedInOrder
    NegotiatedBothWays
PROPERTIES
    HandshakeEnds
CHECK_DEADLOCK FALSE
