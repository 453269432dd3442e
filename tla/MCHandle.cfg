\* Two handles, nested callbacks, storage offered in and out of place.
SPECIFICATION Spec
CONSTANTS
    client = client
    server = server
    Handles <- MCHandles
    Clients <- MCClients
    AddrMax = 28
    ConnSize = 4
    NodeSize = 4
    NodeAlign = 2
    ConnAt <- MCConnAt
    Rings <- MCRings
    NodesAt <- MCNodesAt
    Payloads <- MCPayloads
    Chunk <- MCChunk
INVARIANTS
    CallbacksNest InUseIsSafe QueueIsSafe
