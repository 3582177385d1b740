SPECIFICATION Spec
CONSTANTS
    Size = 6
    NestingLimit = 2
    CircularLimit = 2
    EditRoom = 4
INVARIANTS RingsClosed OwnedOnce
PROPERTIES CopyIsTrue ImplementsLists
CHECK_DEADLOCK FALSE
