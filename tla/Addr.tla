-------------------------------- MODULE Addr --------------------------------
(***************************************************************************)
(* Addresses and urls (crates/tx3/src/addr.rs).                            *)
(*                                                                         *)
(* The path of a tx3: url is a sequence of words and of "/", itself a      *)
(* word here; a segment is what lies between two "/".  A stack is the pair *)
(* of its key and value (Tx3Stack::as_pair), each a sequence of words: a   *)
(* value made in a program may hold a "/" or nothing.  An ip address is    *)
(* the tuple of its 4 octets or 8 segments.  A text must not start with    *)
(* "//" (a url with an authority) nor hold "?", "#" or "." as a segment.   *)
(*                                                                         *)
(* A definition named X_Y is X with a fault, Y, that such code could have. *)
(***************************************************************************)
EXTENDS Integers, Sequences, FiniteSets, SequencesExt

CONSTANTS Ids, \* the words that decode to a Tx3Id
          None \* no identifier

ASSUME IdsAssumption == None \notin Ids /\ Ids \cap {"/", "-", "st", "rst"} = {}

-----------------------------------------------------------------------------
(* Urls.                                                                   *)

\* str::split: the segments before, between and after the slashes.
Extend(segs, word) ==
    IF word = "/" THEN Append(segs, <<>>)
    ELSE [segs EXCEPT ![Len(segs)] = Append(@, word)]
Split(path) ==
    LET split[n \in 0 .. Len(path)] ==
            IF n = 0 THEN <<<<>>>> ELSE Extend(split[n - 1], path[n])
    IN  split[Len(path)]

\* str::split_terminator: an empty segment at the end does not count.
SplitTerminator(path) ==
    LET segs == Split(path) IN IF Last(segs) = <<>> THEN Front(segs) ELSE segs

\* Tx3Id::from_b64: any other text decodes to no identifier.
FromB64(seg) == IF Len(seg) = 1 /\ seg[1] \in Ids THEN seg[1] ELSE None

\* From<Url> for Tx3Addr: an identifier, then pairs; a key alone is dropped.
FromUrl(path) ==
    LET segs == SplitTerminator(path) IN
    IF segs = <<>> THEN [id |-> None, stack_list |-> <<>>]
    ELSE [id |-> FromB64(segs[1]),
          stack_list |-> [i \in 1 .. (Len(segs) - 1) \div 2 |->
                             <<segs[2 * i], segs[2 * i + 1]>>]]

\* to_url, which serde and Display use too.
StackText_Unended(pair) == pair[1] \o <<"/">> \o pair[2]
StackText(pair) == pair[1] \o <<"/">> \o pair[2] \o <<"/">>
ToUrl(addr) ==
    <<IF addr.id = None THEN "-" ELSE addr.id, "/">>
        \o FlattenSeq([i \in DOMAIN addr.stack_list |-> StackText(addr.stack_list[i])])

-----------------------------------------------------------------------------
(* Ip addresses.                                                           *)

MaxU8 == 255
MaxU16 == 65535
U8 == 0 .. MaxU8
U16 == 0 .. MaxU16

\* Ipv4Addr has 4 octets, Ipv6Addr 8 segments.
Ips == [1 .. 4 -> U8] \cup [1 .. 8 -> U16]

IsV4(ip) == Len(ip) = 4
Unspecified(ip) == \A i \in DOMAIN ip : ip[i] = 0
Loopback(ip) ==
    IF IsV4(ip) THEN ip[1] = 127 ELSE ip = <<0, 0, 0, 0, 0, 0, 0, 1>>

Shared_LowBit(ip) == ip[1] = 100 /\ ip[2] \div 128 = 0
Shared(ip) == ip[1] = 100 /\ ip[2] \div 64 = 1

\* ext_is_global of Ipv4Addr and Ipv6Addr.
GlobalV4(ip) ==
    LET a == ip[1]  b == ip[2]  c == ip[3]  d == ip[4] IN
    \/ <<a, b, c>> = <<192, 0, 0>> /\ d \in {9, 10}
    \/ /\ ~(a = 10 \/ (a = 172 /\ b \div 16 = 1) \/ (a = 192 /\ b = 168))
       /\ ~Loopback(ip)
       /\ ~(a = 169 /\ b = 254)
       /\ <<a, b, c>> \notin {<<192, 0, 2>>, <<198, 51, 100>>, <<203, 0, 113>>}
       /\ ~Shared(ip)
       /\ <<a, b, c>> # <<192, 0, 0>>
       /\ a \div 16 # 15
       /\ ~(a = 198 /\ b \div 2 = 9)
       /\ a # 0

GlobalV6(ip) ==
    /\ ip[1] \div 256 # 255
    /\ ~Loopback(ip) /\ ~Unspecified(ip)
    /\ ip[1] \div 64 # 1018
    /\ ip[1] \div 512 # 126
    /\ ~(ip[1] = 8193 /\ ip[2] = 3512)

IsGlobal(ip) == IF IsV4(ip) THEN GlobalV4(ip) ELSE GlobalV6(ip)

\* upgrade_addr: the addresses to publish for a bound address, on a host with
\* these interfaces.  The loop keeps every global address of the family, and
\* the first lan and the first loopback address in case there is none.
Better(acc, ip) ==
    IF IsGlobal(ip) THEN [acc EXCEPT !.out = Append(@, ip)]
    ELSE IF Loopback(ip)
         THEN [acc EXCEPT !.loopback = IF @ = <<>> THEN <<ip>> ELSE @]
         ELSE [acc EXCEPT !.lan = IF @ = <<>> THEN <<ip>> ELSE @]

SameFamily_Either(ip, iface) == TRUE
SameFamily(ip, iface) == Len(iface) = Len(ip)

NextBest(acc, ip, iface) == IF SameFamily(ip, iface) THEN Better(acc, iface) ELSE acc
Best(ip, ifaces) ==
    LET best[n \in 0 .. Len(ifaces)] ==
            IF n = 0 THEN [out |-> <<>>, lan |-> <<>>, loopback |-> <<>>]
            ELSE NextBest(best[n - 1], ip, ifaces[n])
    IN  best[Len(ifaces)]

UpgradeAddr(ip, ifaces) ==
    LET acc == Best(ip, ifaces)
    IN  IF ~Unspecified(ip) THEN <<ip>>
        ELSE IF acc.out # <<>> THEN acc.out
        ELSE IF acc.lan # <<>> THEN acc.lan
        ELSE acc.loopback
=============================================================================
