CONSTANTS
    Peer = {p1, p2, p3}
    NoPeer = NoPeer
    Casts <- MCCasts
    MAX_CLIENTS = 2
    MAX_MESSAGE = 3
    MAX_CONTROL = 2
    MAX_HANDSHAKE = 5
    WS_INPUT_SIZE = 4
    STAGE_SIZE = 2
    RECV_BUDGET = 2
    MAX_ROUNDS = 2
    ACCEPT_BUDGET = 1
    IDLE_TIMEOUT = 2
    RESPONSE_LEN = 4
    SocketBuffer = 3
SPECIFICATION FairSpec
INVARIANTS
    EchoesInOrder BuffersFit TableIsTrue
PROPERTIES
    OnlyTheBudgetLeavesInput ClientsComeToAnEnd
