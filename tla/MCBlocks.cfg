SPECIFICATION MCSpec
CONSTANTS
    Element = {a, b}
    Capacity = 3
    SmallMax = 2
    MediumMax = 4
    MaxPayloadLen = 6
    WireMax = 7
    Key = {k1}
    NoKey = NoKey
    NotSent = NotSent
    EncodeOpcodes <- MCOpcodes
    PayloadLen = 17
    WordSizes = {4, 8}
    MAX_HANDSHAKE = 8
    StreamLen = 8
    Char = {",", " ", "u", "x"}
    Token <- MCToken
    MaxValue = 7
    Connections = 2
    Repetitions = 2
    MAX_RTT_SAMPLES = 3
    Rtt = {1, 2}
    MaxOperations = 4
CHECK_DEADLOCK FALSE
INVARIANTS
    TailFollowsHead CodecIsExact EveryByteInPlace SearchIsRight
    SampleIsRight EndsHonestly
PROPERTIES
    RingIsDeque OnlyTheBuffer RequestSplitsRight
