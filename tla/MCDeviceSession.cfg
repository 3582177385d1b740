CONSTANTS
    Self = dev
    WindowSize = 2
    RotateAt = 3
    CallOutcomes = {TRUE, FALSE}
    MaxConnections = 1
    MaxHellos = 2
    MaxPresses = 1
    MaxReports = 0
    MaxInjected = 1
SPECIFICATION AnySpec
INVARIANT RotationRemembered
PROPERTY RotationStarts
CHECK_DEADLOCK FALSE
