----------------------------- MODULE MCDiscovery ----------------------------
(***************************************************************************)
(* The instances of Discovery that TLC checks: hosts with interfaces on    *)
(* both sides of every boundary of the special blocks, and with several    *)
(* global addresses.                                                       *)
(***************************************************************************)
EXTENDS Discovery, TLC

\* The last address before a block, its first, its last and the one after.
Edges == <<<<1, 0, 0, 0>>, <<9, 255, 255, 255>>, <<10, 0, 0, 0>>, <<10, 255, 255, 255>>,
    <<11, 0, 0, 0>>, <<100, 63, 255, 255>>, <<100, 64, 0, 0>>, <<100, 127, 255, 255>>,
    <<100, 128, 0, 0>>, <<126, 255, 255, 255>>, <<127, 0, 0, 1>>, <<128, 0, 0, 0>>,
    <<169, 253, 255, 255>>, <<169, 254, 0, 1>>, <<169, 255, 0, 0>>, <<172, 15, 255, 255>>,
    <<172, 16, 0, 0>>, <<172, 31, 255, 255>>, <<172, 32, 0, 0>>, <<191, 255, 255, 255>>,
    <<192, 0, 0, 0>>, <<192, 0, 0, 9>>, <<192, 0, 0, 11>>, <<192, 0, 1, 0>>, <<192, 0, 2, 5>>,
    <<192, 167, 255, 255>>, <<192, 168, 0, 1>>, <<192, 169, 0, 0>>, <<198, 17, 255, 255>>,
    <<198, 18, 0, 0>>, <<198, 19, 255, 255>>, <<198, 20, 0, 0>>, <<198, 51, 100, 7>>,
    <<198, 51, 101, 0>>, <<203, 0, 113, 7>>, <<239, 255, 255, 255>>, <<240, 0, 0, 0>>,
    <<255, 255, 255, 255>>>>
Seg8(a, b, h) == <<a, b, 0, 0, 0, 0, 0, h>>
Edges6 == <<Seg8(0, 0, 1), Seg8(0, 0, 2), Seg8(64511, 65535, 1), Seg8(64512, 0, 1),
    Seg8(65023, 65535, 1), Seg8(65024, 0, 1), Seg8(65151, 0, 1), Seg8(65152, 0, 1),
    Seg8(65215, 0, 1), Seg8(65216, 0, 1), Seg8(65279, 0, 1), Seg8(65280, 0, 1),
    Seg8(8193, 3511, 1), Seg8(8193, 3512, 1), Seg8(8193, 3513, 1), Seg8(8192, 3512, 1)>>

Any4 == <<0, 0, 0, 0>>
Any6 == <<0, 0, 0, 0, 0, 0, 0, 0>>
Net1 == <<5, 5, 5, 5>>  Net2 == <<6, 6, 6, 6>>  Lan == <<192, 168, 0, 7>>
Local == <<127, 0, 0, 1>>
Net6 == Seg8(8193, 1, 1)  Lan6 == Seg8(64512, 0, 1)  Local6 == Seg8(0, 0, 1)

\* Eighteen hosts share the edges; the others have no, one or two global addresses.
AllEdges == Edges \o Edges6
HostLists == {<<Local>>, <<Local, Lan6, Net6, Lan>>}
MCRelayIfaces == HostLists
    \cup {SubSeq(AllEdges, 3 * n - 2, 3 * n) : n \in 1 .. Len(AllEdges) \div 3}
    \cup {<<>>, <<Net1, Local, Net2>>, <<Local, Lan, <<10, 0, 0, 9>>, Local6, Lan6, Seg8(65152, 0, 2)>>}
MCRelayBinds == {<<Local>>, <<Lan, Any4>>, <<Any6>>}

MCIpWord(ip) == ToString(ip)
StNamed == <<"-", "/", "st", "/", "host", "/", "st", "/", IpWord(Any4), "/">>
MCNodeBinds == {StNamed}
MCHosts == "host" :> <<Local, Lan>>
\* The dialler's other urls: an odd word at the end, a stack of another kind
\* in the middle, rst without an id, a name that does not resolve, values
\* that are empty or hold a slash, words that are no identifier.
MCUrls == {
    <<NodeId, "/", "st", "/", "host", "/", "st">>,
    <<NodeId, "/", "st", "/", "host", "/", "quic", "/", "x", "/", "st", "/", IpWord(Lan), "/">>,
    <<"-", "/", "st", "/", IpWord(Lan), "/", "rst", "/", IpWord(Net1)>>,
    <<NodeId, "/", "rst", "/", "host", "/", "st", "/", "nohost", "/", "st", "/", "host">>,
    <<"host", "/", "st", "/", "/", "/">>, <<NodeId, NodeId, "/", "/", "/", "st", "/">>,
    <<"/", "st", "/", "host">>, <<NodeId, "/", "st", "/", "host", "/", "/">>, <<NodeId, "/", "st">>,
    <<NodeId, "/", "/", "host">>, <<"-", "/", "/", "/", "/", "/">>, <<"-">>, <<"/">>, <<>>}
=============================================================================
