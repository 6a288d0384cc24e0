--------------------------- MODULE MCControlStream ---------------------------
(***************************************************************************)
(* The instances of ControlStream that TLC checks: a peer of each kind of  *)
(* address - ipv4, ipv6, ipv6 that begins like a mapped one, ipv4-mapped.  *)
(***************************************************************************)
EXTENDS ControlStream

Peer(ip, port, token) == [ip |-> ip, port |-> port, token |-> token]
MCPeers == {
    Peer(<<192, 168, 0, 7>>, 443, 1),
    Peer(<<8193, 3512, 0, 0, 0, 1, 256, 255>>, 65535, 2),
    Peer(<<0, 0, 0, 0, 0, 0, 49320, 7>>, 256, 3),
    Peer(<<0, 0, 0, 0, 0, 65535, 49320, 7>>, 255, 4)}
FewPeers == {Peer(<<192, 168, 0, 7>>, 443, 1)}
=============================================================================
