----------------------------- MODULE Discovery ------------------------------
(***************************************************************************)
(* How a node becomes known and is dialled: Tx3Relay::new and Tx3Node::new *)
(* publish the addresses they bound (relay.rs, node.rs), the url travels   *)
(* as text, and Tx3Node::connect works through the stacks of the url.      *)
(*                                                                         *)
(* The port is left out of a socket address: every address published for   *)
(* a listener has its port.  What goes wrong while binding is in module    *)
(* Node, what happens on the wire in Relay and Tunnel: a dial here         *)
(* succeeds or fails.                                                      *)
(*                                                                         *)
(* A definition named X_Y is X with a fault, Y, that such code could have. *)
(***************************************************************************)
EXTENDS Addr

CONSTANTS RelayId, NodeId, \* digests of the relay's and the node's certificate
          RelayIfaces,     \* what get_if_addrs can return on the relay's host
          NodeIfaces,      \* and on the node's
          RelayBinds,      \* the relay's config.bind: a sequence of ips
          NodeBinds,       \* urls the node's config.bind can list
          MaxBinds,        \* how many of them
          OtherUrls,       \* texts that are dialled besides the node's url
          Hosts,           \* host name -> ips it resolves to
          IpWord(_)        \* an ip and the port, as text

AllIps ==
    UNION {ToSet(l) : l \in RelayIfaces \cup NodeIfaces \cup RelayBinds
                            \cup {Hosts[h] : h \in DOMAIN Hosts}}

ASSUME DiscoveryAssumption ==
    /\ RelayId \in Ids /\ NodeId \in Ids /\ RelayId # NodeId
    /\ MaxBinds \in Nat
    /\ RelayIfaces \cup NodeIfaces \cup RelayBinds \subseteq Seq(Ips)
    /\ \A h \in DOMAIN Hosts : Hosts[h] \in Seq(Ips)

\* The text of an address is read back as that address; it has no "/" and is
\* not the name of a host.  The other texts are sequences of words.
ASSUME TextAssumption ==
    /\ \A a, b \in AllIps : IpWord(a) = IpWord(b) => a = b
    /\ \A a \in AllIps : IpWord(a) \notin DOMAIN Hosts \cup {"/"}
    /\ \A u \in NodeBinds \cup OtherUrls : u \in Seq(ToSet(u))

\* There is one relay: the other urls that the node binds hold no rst stack.
ASSUME BindsAssumption ==
    \A u \in NodeBinds : \A s \in ToSet(FromUrl(u).stack_list) : s[1] # <<"rst">>

VARIABLES
    relay,  \* the relay: what it bound, on which host, its url, the ips
            \* it accepts on
    node,   \* the node: its url, the ips it accepts st connections on
    dial,   \* the dialler: idle, told a url, dialling, ok, err
    text,   \* the url it was told
    peer,   \* the address that connect was given
    stacks, \* the stacks it has yet to look at
    addrs,  \* the addresses of the present stack it has yet to try
    tried   \* the addresses it tried

vars == <<relay, node, dial, text, peer, stacks, addrs, tried>>

Unbound == [ips |-> <<>>, ifaces |-> <<>>, url |-> <<>>, accepts |-> {}]

Init ==
    /\ relay = Unbound /\ node = Unbound
    /\ dial = "idle"
    /\ text = <<>>
    /\ peer = FromUrl(<<>>)
    /\ stacks = <<>> /\ addrs = <<>> /\ tried = <<>>

-----------------------------------------------------------------------------
(* Socket addresses as text, and lookup_host.                              *)

IpText(ip) == <<IpWord(ip)>>
IpOf == [t \in {IpText(ip) : ip \in AllIps} |-> CHOOSE ip \in AllIps : IpText(ip) = t]

Resolve(value) ==
    IF value # <<>> /\ value[1] \in DOMAIN Hosts THEN Hosts[value[1]]
    ELSE IF value \in DOMAIN IpOf THEN <<IpOf[value]>> ELSE <<>>
Resolves(value) == Resolve(value) # <<>>

-----------------------------------------------------------------------------
(* Publishing.                                                             *)

\* The listeners of a sequence of ips, and the stacks published for them.
Accepts(ip, ifaces) ==
    IF ~Unspecified(ip) THEN {ip}
    ELSE {i \in ToSet(ifaces) : Len(i) = Len(ip) \/ ~IsV4(ip)}
Publish(key, ip, ifaces) ==
    LET out == UpgradeAddr(ip, ifaces)
    IN  [i \in DOMAIN out |-> <<<<key>>, IpText(out[i])>>]
PublishAll(key, ips, ifaces) ==
    FlattenSeq([i \in DOMAIN ips |-> Publish(key, ips[i], ifaces)])

RelayNew ==
    /\ relay = Unbound
    /\ \E ips \in RelayBinds, ifaces \in RelayIfaces :
          relay' = [ips |-> ips, ifaces |-> ifaces,
                    url |-> ToUrl([id |-> RelayId,
                                   stack_list |-> PublishAll("rst", ips, ifaces)]),
                    accepts |-> UNION {Accepts(ip, ifaces) : ip \in ToSet(ips)}]
    /\ UNCHANGED <<node, dial, text, peer, stacks, addrs, tried>>

\* bind_tx3_rst publishes every stack of the relay's url; one that is not rst
\* fails the assertion.  It runs once for each stack of that url.
RelayedStacks(bind) == bind.stack_list
BindStack(bind, stack, ifaces) ==
    IF stack[1] = <<"st">> THEN PublishAll("st", Resolve(stack[2]), ifaces)
    ELSE RelayedStacks(bind)
BindAll(bind, ifaces) ==
    FlattenSeq([i \in DOMAIN bind.stack_list |-> BindStack(bind, bind.stack_list[i], ifaces)])

IsRst(stack) == stack[1] = <<"rst">>
Bindable(bind, stack) ==
    /\ Resolves(stack[2])
    /\ \/ stack[1] = <<"st">>
       \/ /\ IsRst(stack) /\ bind.id # None
          /\ \A s \in ToSet(bind.stack_list) : IsRst(s)

Listens(stack, ifaces) ==
    UNION {Accepts(ip, ifaces) : ip \in IF IsRst(stack) THEN {} ELSE ToSet(Resolve(stack[2]))}

NodeNew ==
    /\ node = Unbound /\ relay # Unbound
    /\ \E urls \in BoundedSeq(NodeBinds \cup {relay.url}, MaxBinds), ifaces \in NodeIfaces :
          LET binds == [i \in DOMAIN urls |-> FromUrl(urls[i])]
              all == UNION {{<<b, s>> : s \in ToSet(b.stack_list)} : b \in ToSet(binds)}
          IN  /\ \A bs \in all : Bindable(bs[1], bs[2])
              /\ node' = [ips |-> <<>>, ifaces |-> ifaces,
                          url |-> ToUrl([id |-> NodeId,
                                         stack_list |-> FlattenSeq(
                                             [i \in DOMAIN binds |-> BindAll(binds[i], ifaces)])]),
                          accepts |-> UNION {Listens(bs[2], ifaces) : bs \in all}]
    /\ UNCHANGED <<relay, dial, text, peer, stacks, addrs, tried>>

-----------------------------------------------------------------------------
(* The url on its way: who receives it parses it and prints it again, into *)
(* a log, a configuration file or a message (serde uses the same two).     *)

Learn(url) ==
    /\ dial = "idle" /\ node # Unbound
    /\ dial' = "told"
    /\ text' = url
    /\ UNCHANGED <<relay, node, peer, stacks, addrs, tried>>

HandOn ==
    /\ dial = "told"
    /\ text' = ToUrl(FromUrl(text))
    /\ UNCHANGED <<relay, node, dial, peer, stacks, addrs, tried>>

-----------------------------------------------------------------------------
(* Tx3Node::connect.                                                       *)

Connect ==
    /\ dial = "told"
    /\ dial' = "dialling"
    /\ peer' = FromUrl(text)
    /\ stacks' = peer'.stack_list
    /\ UNCHANGED <<relay, node, text, addrs, tried>>

\* What the match on a stack accepts: st, and rst when the peer has an id.
Dialable(p, stack) ==
    /\ stack[1] = <<"st">> \/ (IsRst(stack) /\ p.id # None)
    /\ Resolves(stack[2])

Between_TooEarly == dial = "dialling"
Between == dial = "dialling" /\ addrs = <<>>

NextStack ==
    /\ Between /\ stacks # <<>> /\ Dialable(peer, Head(stacks))
    /\ addrs' = [i \in DOMAIN Resolve(Head(stacks)[2]) |->
                    <<Head(stacks)[1], Resolve(Head(stacks)[2])[i]>>]
    /\ stacks' = Tail(stacks)
    /\ UNCHANGED <<relay, node, dial, text, peer, tried>>

\* An unknown stack, an rst stack without an id or a name that does not
\* resolve ends the call, whatever stacks follow; no stack is left otherwise.
StackFails ==
    /\ Between /\ (stacks # <<>> => ~Dialable(peer, Head(stacks)))
    /\ dial' = "err"
    /\ UNCHANGED <<relay, node, text, peer, stacks, addrs, tried>>

\* connect_tx3_st or connect_tx3_rst fails: the next address.
AfterFailure_NextStack == <<>>
AfterFailure == Tail(addrs)

AddrFails ==
    /\ dial = "dialling" /\ addrs # <<>>
    /\ tried' = Append(tried, Head(addrs))
    /\ addrs' = AfterFailure
    /\ UNCHANGED <<relay, node, dial, text, peer, stacks>>

AddrConnects ==
    /\ dial = "dialling" /\ addrs # <<>>
    /\ tried' = Append(tried, Head(addrs))
    /\ dial' = "ok"
    /\ UNCHANGED <<relay, node, text, peer, stacks, addrs>>

Next ==
    \/ RelayNew \/ NodeNew
    \/ \E url \in OtherUrls \cup {node.url} : Learn(url)
    \/ HandOn \/ Connect
    \/ NextStack \/ StackFails \/ AddrFails \/ AddrConnects

Spec == Init /\ [][Next]_vars

-----------------------------------------------------------------------------
(* Properties.                                                             *)

\* Addresses that are not global, as blocks: a prefix and its length in bits
\* (the list of the standard library's is_global that addr.rs copies).
SpecialV4 == {<<<<0, 0, 0, 0>>, 8>>, <<<<10, 0, 0, 0>>, 8>>, <<<<100, 64, 0, 0>>, 10>>,
    <<<<127, 0, 0, 0>>, 8>>, <<<<169, 254, 0, 0>>, 16>>, <<<<172, 16, 0, 0>>, 12>>,
    <<<<192, 0, 0, 0>>, 24>>, <<<<192, 0, 2, 0>>, 24>>, <<<<192, 168, 0, 0>>, 16>>,
    <<<<198, 18, 0, 0>>, 15>>, <<<<198, 51, 100, 0>>, 24>>, <<<<203, 0, 113, 0>>, 24>>,
    <<<<240, 0, 0, 0>>, 4>>}
SpecialV6 == {<<<<65280>>, 8>>, <<<<65152>>, 10>>, <<<<64512>>, 7>>, <<<<8193, 3512>>, 32>>,
    <<<<0, 0, 0, 0, 0, 0, 0, 0>>, 128>>, <<<<0, 0, 0, 0, 0, 0, 0, 1>>, 128>>}

\* The first n bits of two addresses agree, in parts of w bits.
SamePrefix(a, b, n, w) ==
    \A i \in 1 .. (n + w - 1) \div w :
        LET rest == IF i * w > n THEN i * w - n ELSE 0
        IN  a[i] \div 2 ^ rest = b[i] \div 2 ^ rest

Special(ip) ==
    IF IsV4(ip)
    THEN /\ ip \notin {<<192, 0, 0, 9>>, <<192, 0, 0, 10>>}
         /\ \E b \in SpecialV4 : SamePrefix(ip, b[1], b[2], 8)
    ELSE \E b \in SpecialV6 : SamePrefix(ip, b[1], b[2], 16)

\* What a listener should publish: every global address of the host, or else
\* one address of the lan, or else loopback.
AndIf(ips, ip, S) == IF ip \in S THEN Append(ips, ip) ELSE ips
Those(ips, S) ==
    LET those[n \in 0 .. Len(ips)] ==
            IF n = 0 THEN <<>> ELSE AndIf(those[n - 1], ips[n], S)
    IN  those[Len(ips)]
First(s) == IF s = <<>> THEN s ELSE <<s[1]>>
Preferred(ip, ifaces) ==
    LET family == {i \in ToSet(ifaces) : Len(i) = Len(ip)}
        global == Those(ifaces, {i \in family : ~Special(i)})
        lan == Those(ifaces, {i \in family : ~Loopback(i)})
    IN  IF ~Unspecified(ip) THEN <<ip>>
        ELSE IF global # <<>> THEN global
        ELSE IF lan # <<>> THEN First(lan)
        ELSE First(Those(ifaces, family))

\* For every interface list and bound address: what a peer parses from the
\* url of the relay is what is preferred (addr.rs, 223-276, 282-385).
PublishesPreferred ==
    relay # Unbound =>
        FromUrl(relay.url) =
            [id |-> RelayId,
             stack_list |-> FlattenSeq([i \in DOMAIN relay.ips |->
                LET out == Preferred(relay.ips[i], relay.ifaces)
                IN  [j \in DOMAIN out |-> <<<<"rst">>, IpText(out[j])>>]])]

\* A dialler that was given the node's url tries only addresses at which the
\* node, or for rst its relay, accepts (node.rs, 92-136, 260-265, 327-336).
DialsListening ==
    peer = FromUrl(node.url) =>
        \A i \in DOMAIN tried :
            tried[i][2] \in IF tried[i][1] = <<"st">> THEN node.accepts ELSE relay.accepts

\* The addresses of an address, in the order of its stacks, down to the first
\* stack that cannot be dialled.
Targets(p) ==
    LET stop == {i \in DOMAIN p.stack_list : ~Dialable(p, p.stack_list[i])}
        n == IF stop = {} THEN Len(p.stack_list) ELSE (CHOOSE i \in stop : \A j \in stop : i <= j) - 1
    IN  FlattenSeq([i \in 1 .. n |->
            LET s == p.stack_list[i]
            IN  [j \in DOMAIN Resolve(s[2]) |-> <<s[1], Resolve(s[2])[j]>>]])

\* connect tries the addresses in the order of priority, each until one
\* connects; it fails only when none did before the first stack that cannot
\* be dialled.  A stack after that one is never tried (171-220).
DialOrder ==
    /\ IsPrefix(tried, Targets(peer))
    /\ dial = "err" => tried = Targets(peer)
    /\ dial = "ok" => tried # <<>>

\* Handing an address on as text may normalise the text - a key without a
\* value and an identifier that does not decode are dropped - but does not
\* change the address: empty keys and values, words left over and missing
\* final slashes included (addr.rs, 145-276).
HandedOn == [][dial = "told" => FromUrl(text') = FromUrl(text)]_vars

\* Every variable keeps to its type; no address is left untried when connect
\* has failed (171-220).
TypeOK ==
    /\ dial \in {"idle", "told", "dialling", "ok", "err"}
    /\ relay = Unbound => node = Unbound
    /\ node = Unbound => dial = "idle"
    /\ DOMAIN peer = {"id", "stack_list"} /\ peer.id \in Ids \cup {None}
    /\ IsSuffix(stacks, peer.stack_list)
    /\ \A i \in DOMAIN tried : tried[i][2] \in AllIps
    /\ dial = "err" => addrs = <<>>
=============================================================================
