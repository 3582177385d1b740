CONSTANTS
    Chunk = {"b1", "b2", "c2"}
    Magic = {"b1"}
    Images <- MCImages
    Announced <- MCAnnounced
    NoHash = NoHash
    Size = 3
    QOS_MAX_PENDING = 2
    QOS_MAX_RETRIES = 2
    MaxPackets = 2
    RateWindow = 1
    RateLimit = 2
    SessionLife = 2
    MaxTime = 5
    MaxCounter = 2
    MAX_CHUNK_SIZE = 4
    RX_BUF_SIZE = 6
    RX_SLOTS = 2
    MaxWrites = 4
SPECIFICATION Spec
INVARIANT VerifyIsTrue
INVARIANT AlwaysBoots
INVARIANT PrefixAgrees
INVARIANT TransmissionsBounded
INVARIANT QuietAfterAck
INVARIANT ExecutedOnce
INVARIANT NoneExecutedStale
INVARIANT LinesAreTheStream
CHECK_DEADLOCK FALSE
