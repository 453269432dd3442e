SPECIFICATION FairSpec
CONSTANTS
    SmallMax = 2
    MediumMax = 4
    MaxPayloadLen = 6
    WireMax = 7
    Key = {k1}
    NoKey = NoKey
    MaxChunkSize = 2
    config <- MCConfig
    Headers <- MCHeaders
INVARIANTS
    StageIsTrue ReadsAreBounded
PROPERTIES
    ErrorsStickUntilReset FramesEnd
