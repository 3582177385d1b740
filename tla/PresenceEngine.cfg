CONSTANTS
    MaxSockets = 2
    MaxMarks = 3
SPECIFICATION Spec
INVARIANT ConnectedHasHeartbeat
PROPERTY ConnectedEndsOnline
CHECK_DEADLOCK FALSE
