CONSTANTS
    Self = dev
    NoDevice = NoDevice
    NoSocket = NoSocket
    WindowSize = 2
    RotateAt = 3
    CallOutcomes = {TRUE, FALSE}
    DeriveOutcomes = {TRUE, FALSE}
    MaxConnections = 2
    MaxHellos = 2
    MaxPresses = 0
    MaxReports = 1
    MaxSessions = 2
    MaxCommands = 0
    CommandKinds <- MCCommands
SPECIFICATION Spec
INVARIANT SessionAgreed
CHECK_DEADLOCK FALSE
