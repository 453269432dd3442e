\* Server: unmasked frames, order, fragments and the budget of a call,
\* and with fairness every queued frame leaves.
SPECIFICATION FairSpec
CONSTANTS
    SmallMax = 2
    MediumMax = 4
    MaxPayloadLen = 6
    WireMax = 7
    Key = {k1}
    NoKey = NoKey
    TxKey = k1
    config <- MCServer
    Foreign <- MCForeignServer
    Requests <- MCServerRequests
    Capacity = 2
    MaxFrames = 3
    MaxChunkSize = 2
    MaxUnmaskedChunkSize = 2
    MaxSendCallbacksPerCall = 3
    MaxSendBytesPerCall = 4
INVARIANTS
    FramesLeaveWhole PendingIsExact FragmentAhead PreparedControlQueues SendBounded
PROPERTIES
    EveryFrameLeaves
