CONSTANTS
    Peer = {p1}
    NoPeer = NoPeer
    Casts <- Quiet
    MAX_CLIENTS = 1
    MAX_MESSAGE = 3
    MAX_CONTROL = 2
    MAX_HANDSHAKE = 5
    WS_INPUT_SIZE = 4
    STAGE_SIZE = 2
    RECV_BUDGET = 2
    MAX_ROUNDS = 2
    ACCEPT_BUDGET = 1
    IDLE_TIMEOUT = 2
    RESPONSE_LEN = 2
    SocketBuffer = 3
SPECIFICATION Spec
INVARIANT SleepsOnlyWhenDrained
