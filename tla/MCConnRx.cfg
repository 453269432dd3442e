SPECIFICATION Spec
CONSTANTS
    SmallMax = 2
    MediumMax = 4
    MaxPayloadLen = 6
    WireMax = 7
    Key = {k1}
    NoKey = NoKey
    MaxBytes = 5
    Configs <- MCConfigs
    Headers <- MCHeaders
INVARIANTS
    TypeOK
    RxConsistent
    FragmentIsMessage
PROPERTIES
    FramesFormMessages
    ErrorsStick
