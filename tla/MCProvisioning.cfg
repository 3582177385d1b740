\* Phones configure a device, with old and new values, that loses power or fails a write once.
SPECIFICATION SafetySpec
CONSTANTS
    Creds = {c1, c2}
    Chunks = {"a"}
    Tasks = {t1, t2}
    CERT_CHUNKS = 1
    RX_QUEUE = 1
    RX_BUFFER = 2
    None = None
    MaxCommands = 3
    MaxFaults = 1
VIEW AllButTheReport
SYMMETRY Interchangeable
CHECK_DEADLOCK FALSE
INVARIANTS
    TypeOK
    PairedCredentials
    CommitOkIsStored
    PublicKeyHasPrivate
PROPERTIES
    CertUnderHandshake
