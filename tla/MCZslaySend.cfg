\* Client: masked frames, the scratch chunk, a peer with the same limits.
SPECIFICATION Spec
CONSTANTS
    SmallMax = 2
    MediumMax = 4
    MaxPayloadLen = 6
    WireMax = 7
    Key = {k1}
    NoKey = NoKey
    TxKey = k1
    config <- MCClient
    Foreign <- MCForeign
    Requests <- MCClientRequests
    Capacity = 2
    MaxFrames = 3
    MaxChunkSize = 2
    MaxUnmaskedChunkSize = 2
    MaxSendCallbacksPerCall = 3
    MaxSendBytesPerCall = 6
INVARIANTS
    FramesLeaveWhole
