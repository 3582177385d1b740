CONSTANTS
    Self = dev
    NoDevice = NoDevice
    NoSocket = NoSocket
    WindowSize = 2
    RotateAt = 4
    CallOutcomes = {TRUE, FALSE}
    DeriveOutcomes = {TRUE, FALSE}
    MaxConnections = 2
    MaxHellos = 2
    MaxPresses = 0
    MaxReports = 0
    MaxSessions = 2
    MaxCommands = 1
    CommandKinds <- MCCommands
SPECIFICATION FairSpec
PROPERTY HandshakeCompletes
CHECK_DEADLOCK FALSE
