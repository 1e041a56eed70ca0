CONSTANTS
    Kinds <- MCKinds
    Payload <- MCPayload
    HeaderChunks = 2
    HANDSHAKE_MESSAGES = 3
    MaxSent = 5
    MaxGarbage = 3
SPECIFICATION CNSpec
INVARIANTS
    RelayBeforeVerack
CHECK_DEADLOCK FALSE
