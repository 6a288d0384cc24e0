---------------------------- MODULE ControlStream ----------------------------
(***************************************************************************)
(* The bytes on a control stream: process_relay_control_inner (relay.rs)   *)
(* writes one frame for each peer that dials, 16 octets of ip address, 2   *)
(* of port and a splice token, and the task of bind_tx3_rst_inner (node.rs)*)
(* reads them back.                                                        *)
(*                                                                         *)
(* write_all hands the frame to the TLS session, which buffers up to a     *)
(* limit, and takes what the session accepted as written; poll_write then  *)
(* sends what it can, and nothing else in the relay's loop does: there is  *)
(* no flush.  The session accepts and the socket sends any number of bytes;*)
(* a splice token, 32 octets that nobody looks into, is one byte here.     *)
(*                                                                         *)
(* A definition named X_Y is X with a fault, Y, that such code could have. *)
(***************************************************************************)
EXTENDS Addr

CONSTANTS Peers,     \* the ip, port and token of peers that dial
          MaxFrames, \* bound on the peers that dial
          TlsCap,    \* bytes the TLS session buffers
          TcpCap     \* bytes the sockets of the two ends buffer

ASSUME StreamAssumption == MaxFrames \in Nat /\ {TlsCap, TcpCap} \subseteq Nat \ {0}

ASSUME PeersAssumption ==
    \A p \in Peers :
        /\ p = [ip |-> p.ip, port |-> p.port, token |-> p.token]
        /\ p.ip \in Ips /\ p.port \in U16

VARIABLES
    sent,  \* peers the relay's loop took from its channel, in order
    out,   \* what is left of the buffer write_all was given
    tls,   \* bytes in the relay's TLS session
    tcp,   \* bytes on their way
    buf,   \* bytes of a frame that read_exact has so far
    got,   \* what the node decoded, in order
    alive  \* the stream is open

vars == <<sent, out, tls, tcp, buf, got, alive>>

Init ==
    /\ sent = <<>> /\ out = <<>> /\ tls = <<>> /\ tcp = <<>>
    /\ buf = <<>> /\ got = <<>>
    /\ alive = TRUE

-----------------------------------------------------------------------------
(* The frame.                                                              *)

\* Its octets, where the token counts as one.
FrameLen == 19

Mapped == [i \in 1 .. 12 |-> IF i > 10 THEN 255 ELSE 0]

\* to_be_bytes and from_be_bytes of 16 bits.
Be(n) == <<n \div 256, n % 256>>
FromBe(hi, lo) == 256 * hi + lo

\* octets(), of a v4 address after to_ipv6_mapped().
Octets(ip) ==
    IF IsV4(ip) THEN Mapped \o ip
    ELSE [k \in 1 .. 16 |-> Be(ip[(k + 1) \div 2])[2 - (k % 2)]]

\* The two patterns that the node matches.
IsMapped_Compatible(o) == \A i \in 1 .. 10 : o[i] = 0
IsMapped(o) == SubSeq(o, 1, 12) = Mapped
FromOctets(o) ==
    IF IsMapped(o) THEN SubSeq(o, 13, 16)
    ELSE [i \in 1 .. 8 |-> FromBe(o[2 * i - 1], o[2 * i])]

Encode(p) == Octets(p.ip) \o Be(p.port) \o <<p.token>>
Decode(bytes) ==
    [ip |-> FromOctets(SubSeq(bytes, 1, 16)), port |-> FromBe(bytes[17], bytes[18]),
     token |-> bytes[19]]

-----------------------------------------------------------------------------
(* The relay.                                                              *)

Least(a, b) == IF a < b THEN a ELSE b

\* ctrl_recv.recv() returns a command.
TakeCmd(p) ==
    /\ alive /\ out = <<>> /\ Len(sent) < MaxFrames
    /\ sent' = Append(sent, p)
    /\ out' = Encode(p)
    /\ UNCHANGED <<tls, tcp, buf, got, alive>>

\* poll_write: the session takes what it has room for, then sends what the
\* socket accepts; Pending when it could do neither.  write_all goes on until
\* all is taken.
AfterWrite_Once(n) == <<>>
AfterWrite(n) == SubSeq(out, n + 1, Len(out))

PollWrite ==
    LET n == Least(Len(out), TlsCap - Len(tls))
        held == tls \o SubSeq(out, 1, n)
        m == Least(Len(held), TcpCap - Len(tcp))
    IN  /\ alive /\ out # <<>> /\ n + m > 0
        /\ out' = AfterWrite(n)
        /\ tls' = SubSeq(held, m + 1, Len(held))
        /\ tcp' = tcp \o SubSeq(held, 1, m)
        /\ UNCHANGED <<sent, buf, got, alive>>

-----------------------------------------------------------------------------
(* The node: read_exact, then the connection goes to the application.      *)

FrameEnds_Late(b) == Len(b) > FrameLen
FrameEnds(b) == Len(b) = FrameLen

Read ==
    /\ alive /\ tcp # <<>>
    /\ tcp' = Tail(tcp)
    /\ LET b == Append(buf, Head(tcp)) IN
           IF FrameEnds(b) THEN buf' = <<>> /\ got' = Append(got, Decode(b))
           ELSE buf' = b /\ UNCHANGED got
    /\ UNCHANGED <<sent, out, tls, alive>>

\* Either end closes or fails, whatever was under way: a frame that is not
\* complete is not decoded.
StreamEnds ==
    /\ alive /\ alive' = FALSE
    /\ UNCHANGED <<sent, out, tls, tcp, buf, got>>

Next == (\E p \in Peers : TakeCmd(p)) \/ PollWrite \/ Read \/ StreamEnds

Spec == Init /\ [][Next]_vars

\* The relay polls its write when the socket takes more, the node reads on
\* because the application keeps receiving.
FairSpec == Spec /\ WF_vars(PollWrite) /\ WF_vars(Read)

-----------------------------------------------------------------------------
(* Properties.                                                             *)

\* The peer as the node should be told of it: an ipv4-mapped address, which a
\* listener on [::] reports for an ipv4 peer, stands for the ipv4 address.
Canonical(p) ==
    IF ~IsV4(p.ip) /\ SubSeq(p.ip, 1, 6) = <<0, 0, 0, 0, 0, 65535>>
    THEN [p EXCEPT !.ip = Be(p.ip[7]) \o Be(p.ip[8])]
    ELSE p

Queue == INSTANCE NotificationQueue WITH Reported <- Canonical

\* The stream implements the queue of notifications: however frames are cut,
\* buffered and read, the node decodes what was sent, in order, once each,
\* with the address of the peer (node.rs, 362-397; relay.rs, 649-666).
QueueSpec == Queue!Spec

\* The bytes of all the frames sent are those the node decoded, those it has
\* of the next frame and those in the buffers, in this order: none is lost,
\* doubled or out of place, so the node never reads out of step.
Frames(peers) ==
    [k \in 1 .. FrameLen * Len(peers) |->
        Encode(peers[(k - 1) \div FrameLen + 1])[((k - 1) % FrameLen) + 1]]
NothingLost ==
    /\ Frames(sent) =
          Frames(SubSeq(sent, 1, Len(got))) \o buf \o tcp \o tls \o out
    /\ Len(buf) < FrameLen /\ Len(tls) <= TlsCap /\ Len(tcp) <= TcpCap

\* All but what the TLS session can hold back arrives, while the stream lasts.
Written == FrameLen * Len(sent) - Len(out)
AllButBuffered ==
    \A n \in 1 .. FrameLen * MaxFrames :
        (Written >= n + TlsCap) ~> (FrameLen * Len(got) + Len(buf) >= n \/ ~alive)

\* "The server ... forwards that splice token over the secure control channel
\* to the target client" (relay.rs, 29-31).
Forwarded ==
    \A n \in 1 .. MaxFrames : (Len(sent) >= n) ~> (Len(got) >= n \/ ~alive)
=============================================================================
