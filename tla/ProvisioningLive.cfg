\* The phone is served and the host freed, whatever waits for the certificate.
SPECIFICATION Spec
CONSTANTS
    Creds = {"c1"}
    Chunks = {"a"}
    Tasks = {t1, t2}
    CERT_CHUNKS = 1
    RX_QUEUE = 2
    RX_BUFFER = 2
    None = None
    MaxCommands = 2
    MaxFaults = 1
CHECK_DEADLOCK FALSE
PROPERTIES
    DisconnectCompletes
    WritesTaken
