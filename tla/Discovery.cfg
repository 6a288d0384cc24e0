SPECIFICATION Spec
CONSTANTS
    Ids = {relayId, nodeId}
    RelayId = relayId
    NodeId = nodeId
    None = None
    RelayIfaces <- MCRelayIfaces
    NodeIfaces <- HostLists
    RelayBinds <- MCRelayBinds
    NodeBinds <- MCNodeBinds
    MaxBinds = 2
    OtherUrls <- MCUrls
    Hosts <- MCHosts
    IpWord <- MCIpWord
INVARIANTS TypeOK PublishesPreferred DialsListening DialOrder
PROPERTIES HandedOn
CHECK_DEADLOCK FALSE
