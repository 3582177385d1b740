CONSTANTS
    d1 = d1
    s1 = s1
    s2 = s2
    Devices = {d1}
    Sockets = {s1, s2}
    NoDevice = NoDevice
    NoSocket = NoSocket
    WindowSize = 2
    DeriveOutcomes = {TRUE, FALSE}
    MaxSessions = 2
    MaxCommands = 1
    MaxPackets = 3
    PacketIds = {1}
    Owner <- MCOwner
SPECIFICATION MCSpec
INVARIANT ActiveIsRoutable
INVARIANT RoutableHasSession
CHECK_DEADLOCK FALSE
