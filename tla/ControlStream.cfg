SPECIFICATION FairSpec
CONSTANTS
    Ids = {}
    None = None
    Peers <- MCPeers
    MaxFrames = 2
    TlsCap = 8
    TcpCap = 21
INVARIANTS NothingLost
PROPERTIES QueueSpec AllButBuffered
CHECK_DEADLOCK FALSE
