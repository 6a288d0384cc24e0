------------------------------- MODULE Tunnel -------------------------------
(***************************************************************************)
(* Relayed connections from end to end: nodes (crates/tx3/src/node.rs,     *)
(* connection.rs, tls.rs) composed with what the relay promises (module    *)
(* Rendezvous, which module Relay implements).                             *)
(*                                                                         *)
(* A node opens a TCP connection to the relay to bind (a control stream),  *)
(* to connect to the digest of another node, or to accept a connection     *)
(* that it was notified of.  When the relay has joined two of them, their  *)
(* ends handshake TLS 1.3 through the relay: the accepting end sends its   *)
(* certificate, the dialling end checks it, sends its own and is done, the *)
(* accepting end checks that one.  Both ends take the digest of the other's*)
(* certificate for its identity.                                           *)
(*                                                                         *)
(* A node stands for the digest of its certificate.  Nodes in Foreign were *)
(* given one that the well-known authority of tls.rs did not sign.  TLS    *)
(* itself is external: an end gets what the end it is joined to sent.      *)
(*                                                                         *)
(* A definition named X_Y is X with a fault, Y, that such code could have. *)
(***************************************************************************)
EXTENDS Naturals

CONSTANTS Nodes,   \* the nodes, and the digests of their certificates
          Foreign, \* those with a certificate of another authority
          Conns,   \* TCP connections made to the relay
          Nobody   \* no node, no connection

ASSUME TunnelAssumption ==
    /\ Foreign \subseteq Nodes
    /\ Nobody \notin Nodes \cup Conns /\ Nodes \cap Conns = {}

VARIABLES
    conn, auth, dialled, offered, partner, \* the relay: see Rendezvous
    owner,  \* the node that opened each connection
    use,    \* what for: control, dial, accept
    token,  \* what it sends first: the digest it dials, the peer it accepts
    met,    \* the connection the relay joined each one to
    said,   \* the end has sent its certificate
    call,   \* the call that opened it: none, going, up (returned Ok),
            \* failed (returned Err, or was dropped), closed after it was up
    remote  \* remote_id of the Tx3Connection

R == INSTANCE Rendezvous WITH Digests <- Nodes

relay == <<conn, auth, dialled, offered, partner>>
opened == <<owner, use, token>>
tls == <<said, remote>>
vars == <<relay, opened, met, tls, call>>

Init ==
    /\ R!Init
    /\ owner = [c \in Conns |-> Nobody]
    /\ use = [c \in Conns |-> "none"]
    /\ token = [c \in Conns |-> Nobody]
    /\ met = [c \in Conns |-> Nobody]
    /\ said = [c \in Conns |-> FALSE]
    /\ call = [c \in Conns |-> "none"]
    /\ remote = [c \in Conns |-> Nobody]

-----------------------------------------------------------------------------
(* The nodes open connections.                                             *)

Open(n, c, what, tok) ==
    /\ R!Open(c)
    /\ owner' = [owner EXCEPT ![c] = n]
    /\ use' = [use EXCEPT ![c] = what]
    /\ token' = [token EXCEPT ![c] = tok]
    /\ call' = [call EXCEPT ![c] = "going"]
    /\ UNCHANGED <<met, tls>>

\* bind_tx3_rst_inner.
BindRelay(n, c) == Open(n, c, "control", Nobody)

\* connect_tx3_rst.
ConnectTo(n, c, k) == Open(n, c, "dial", k)

\* Tx3InboundAcceptRst::accept, which consumes the notification.
Notified_OfOthers(n, p) == \E c \in Conns : p \in offered[c]
Notified(n, p) == \E c \in Conns : owner[c] = n /\ p \in offered[c]
AcceptPeer(n, c, p) ==
    /\ Notified(n, p)
    /\ \A d \in Conns : ~(use[d] = "accept" /\ owner[d] = n /\ token[d] = p)
    /\ Open(n, c, "accept", p)

-----------------------------------------------------------------------------
(* The relay serves them.                                                  *)

\* Who listens checks the certificate of who connects: the client verifier
\* that TlsConfigBuilder::build installs.
VerifiesClient_Any(n) == TRUE
VerifiesClient(n) == n \notin Foreign

\* Who connects checks that of who listens, as if it were a client's.
VerifiesServer(n) == n \notin Foreign

\* hash_cert: the first certificate of the other end's chain.
HashCert(c) == owner[met[c]]

RelayAuthenticates(c) ==
    /\ use[c] = "control" /\ VerifiesClient(owner[c])
    /\ R!Authenticate(c, owner[c])
    /\ UNCHANGED <<opened, met, tls, call>>

RelayParks(c) ==
    /\ use[c] = "dial"
    /\ R!Dial(c, token[c])
    /\ UNCHANGED <<opened, met, tls, call>>

RelayOffers(c, p) ==
    /\ R!Offer(c, p)
    /\ UNCHANGED <<opened, met, tls, call>>

Meet(a, p) == met' = [met EXCEPT ![a] = p, ![p] = a]

RelayJoins(c) ==
    /\ use[c] = "accept"
    /\ R!Join(c, token[c])
    /\ Meet(c, token[c])
    /\ UNCHANGED <<opened, tls, call>>

\* A limit, an unknown token, the timeout of a parked peer, a control stream
\* that ends.
TimesOut_NotParked(c) == conn[c] # "waiting"
TimesOut(c) == TRUE
RelayDrops(c) ==
    /\ conn[c] # "unborn" /\ TimesOut(c)
    /\ R!Close(c)
    /\ UNCHANGED <<opened, met, tls, call>>

\* The relay shuts down, or a leg of the splice fails.
RelayParts(c) ==
    /\ R!Part(c)
    /\ UNCHANGED <<opened, met, tls, call>>

-----------------------------------------------------------------------------
(* The ends: priv_accept and priv_connect.                                 *)

Verifies(c) ==
    LET other == owner[met[c]]
    IN  IF use[c] = "dial" THEN VerifiesServer(other) ELSE VerifiesClient(other)

Going(c, what) == use[c] = what /\ call[c] = "going" /\ met[c] # Nobody

ServerSpeaks(c) ==
    /\ Going(c, "accept") /\ ~said[c]
    /\ said' = [said EXCEPT ![c] = TRUE]
    /\ UNCHANGED <<relay, opened, met, call, remote>>

Up(c) ==
    /\ call' = [call EXCEPT ![c] = "up"]
    /\ remote' = [remote EXCEPT ![c] = HashCert(c)]
    /\ UNCHANGED <<relay, opened, met>>

\* The dialling end has all it needs, and sends its certificate.
ClientUp(c) ==
    /\ Going(c, "dial") /\ said[met[c]] /\ Verifies(c)
    /\ said' = [said EXCEPT ![c] = TRUE]
    /\ Up(c)

ServerReady_Early(c) == said[c]
ServerReady(c) == said[met[c]]
ServerUp(c) ==
    /\ Going(c, "accept") /\ ServerReady(c) /\ Verifies(c)
    /\ UNCHANGED said
    /\ Up(c)

\* The call fails at the certificate, or the caller drops it, or it returned
\* and the application closes the connection.  The relay closes the other.
Leaves(c) ==
    /\ call' = [call EXCEPT ![c] = IF @ = "up" THEN "closed" ELSE "failed"]
    /\ IF conn[c] = "joined" THEN R!Part(c)
       ELSE IF conn[c] = "closed" THEN UNCHANGED relay ELSE R!Close(c)
    /\ UNCHANGED <<opened, met, tls>>

Rejects(c) ==
    /\ Going(c, use[c]) /\ said[met[c]] /\ ~Verifies(c)
    /\ Leaves(c)

\* The relay closed the connection: the handshake gets an end of file - what
\* the other end sent before may still be read first.
SeesClose(c) ==
    /\ call[c] = "going" /\ conn[c] = "closed"
    /\ Leaves(c)

AppLeaves(c) == call[c] \in {"going", "up"} /\ Leaves(c)

-----------------------------------------------------------------------------
RelayStep(c) == RelayAuthenticates(c) \/ RelayParks(c) \/ RelayJoins(c) \/ RelayDrops(c)
EndStep(c) == ServerSpeaks(c) \/ ClientUp(c) \/ ServerUp(c) \/ Rejects(c) \/ SeesClose(c)

Next ==
    \E c \in Conns :
        \/ \E n \in Nodes : \/ BindRelay(n, c)
                            \/ \E k \in Nodes : ConnectTo(n, c, k)
                            \/ \E p \in Conns : AcceptPeer(n, c, p)
        \/ RelayStep(c) \/ RelayParts(c) \/ \E p \in Conns : RelayOffers(c, p)
        \/ EndStep(c) \/ AppLeaves(c)

Spec == Init /\ [][Next]_vars

\* The relay looks at what a connection sent and drops a parked peer when its
\* time is over; the ends are polled.  Nobody has to dial or to accept.
FairSpec ==
    Spec /\ \A c \in Conns : WF_vars(use[c] # "control" /\ RelayStep(c)) /\ WF_vars(EndStep(c))

-----------------------------------------------------------------------------
(* Properties.                                                             *)

\* Every variable of the nodes keeps to its type; an end that was joined was
\* opened for it, and stays with the same other end.
TypeOK ==
    /\ owner \in [Conns -> Nodes \cup {Nobody}]
    /\ use \in [Conns -> {"none", "control", "dial", "accept"}]
    /\ token \in [Conns -> Nodes \cup Conns \cup {Nobody}]
    /\ met \in [Conns -> Conns \cup {Nobody}]
    /\ said \in [Conns -> BOOLEAN]
    /\ call \in [Conns -> {"none", "going", "up", "failed", "closed"}]
    /\ remote \in [Conns -> Nodes \cup {Nobody}]
    /\ \A c \in Conns : met[c] # Nobody =>
          /\ met[met[c]] = c
          /\ {use[c], use[met[c]]} = {"dial", "accept"}

WasUp(c) == call[c] \in {"up", "closed"}

\* A node that dials through a relay and gets a connection is talking to the
\* node whose digest it dialled, whichever control streams came, went and
\* replaced each other meanwhile, and whichever tokens were late (relay.rs,
\* 25-45; node.rs, 246-252, 425-433).
ReachesDialled ==
    \A c \in Conns : use[c] = "dial" /\ WasUp(c) => remote[c] = token[c]

\* A connection that a node accepted is one that the node it names made, to
\* this node, and for which that node's connect has returned: two nodes never
\* disagree on who is at the other end (connection.rs, 22-46, 100-114).
AcceptedWasDialled ==
    \A c \in Conns : use[c] = "accept" /\ WasUp(c) =>
        \E p \in Conns :
            /\ use[p] = "dial" /\ owner[p] = remote[c] /\ token[p] = owner[c]
            /\ WasUp(p) /\ remote[p] = owner[c]
            /\ \A d \in Conns : use[d] = "accept" /\ WasUp(d) /\ token[d] = p => d = c

\* No node accepts a certificate of another authority, nor does the relay;
\* the converse does not hold: connect may return and the accepting node then
\* reject the dialler (tls.rs, 145-160, 237-319).
OnlyKnown ==
    \A c \in Conns :
        /\ WasUp(c) => remote[c] \notin Foreign
        /\ use[c] = "accept" /\ WasUp(c) => owner[c] \notin Foreign
        /\ auth[c] \notin Foreign

\* A dial and an accept always come to an end, although neither has a timeout
\* of its own: the token may have expired, the node may never accept, the
\* other end may reject or leave (node.rs, 246-252, 425-433).
CallsEnd ==
    \A c \in Conns :
        (call[c] = "going" /\ use[c] # "control") ~> (call[c] # "going")
=============================================================================
