CONSTANTS
    WindowSize = 3
    MaxId = 8
SPECIFICATION PairSpec
INVARIANT WindowExact
INVARIANT SameVerdict
PROPERTY ImplementsReplaySpec
