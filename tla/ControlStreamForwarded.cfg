SPECIFICATION FairSpec
CONSTANTS
    Ids = {}
    None = None
    Peers <- FewPeers
    MaxFrames = 3
    TlsCap = 30
    TcpCap = 19
PROPERTIES Forwarded
CHECK_DEADLOCK FALSE
