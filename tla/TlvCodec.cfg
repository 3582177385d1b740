CONSTANTS
    Cap = 64
    Types = {4, 9}
    Uints = {23, 24, 256, 65536}
    Floats = {65535}
    Texts <- MCTexts
    MaxFields = 3
    HeaderSize = 33
    TagSize = 16
    RawSize = 100
    StaticBuf = 90
    StackBuf = 80
    Claims <- MCClaims
    Sizes <- MCSizes
SPECIFICATION FramingSpec
INVARIANT WholeFieldsSurvive
INVARIANT ReadsAsBuilt
INVARIANT BuffersHold
INVARIANT ReadsInside
INVARIANT ServerReadsDevice
CHECK_DEADLOCK FALSE
