CONSTANTS
    Tasks = {t1, t2}
    MaxFrames = 2
    MAX_FAILS = 2
    MaxFaults = 3
    MaxEvents = 2
SPECIFICATION Spec
INVARIANT HelloFirst
INVARIANT ConnectedIsOpen
INVARIANT WifiStateTrue
PROPERTY EndsOnline
CHECK_DEADLOCK FALSE
