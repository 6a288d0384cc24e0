---------------------------- MODULE TunnelProofs ----------------------------
(***************************************************************************)
(* Theorems about Tunnel for any nodes, certificates and connections.      *)
(***************************************************************************)
EXTENDS Tunnel, TLAPS

\* The relay's variables keep to their types, as far as the proofs need.
RelayTypes ==
    /\ conn \in [Conns -> R!Phases]
    /\ auth \in [Conns -> Nodes \cup {Nobody}]
    /\ dialled \in [Conns -> Nodes \cup {Nobody}]
    /\ offered \in [Conns -> SUBSET Conns]

\* What the relay knows of a connection is what its node opened it for, and a
\* node accepts only peers that dialled it.
KnownInv ==
    /\ \A c \in Conns :
        /\ use[c] = "none" <=> owner[c] = Nobody
        /\ use[c] = "none" => call[c] = "none" /\ met[c] = Nobody
        /\ conn[c] = "unborn" => use[c] = "none"
        /\ auth[c] # Nobody => use[c] = "control" /\ auth[c] = owner[c] /\ auth[c] \notin Foreign
        /\ dialled[c] # Nobody => use[c] = "dial" /\ dialled[c] = token[c]
        /\ use[c] = "dial" => token[c] \in Nodes
        /\ use[c] = "accept" => token[c] \in Conns /\ dialled[token[c]] = owner[c]
    /\ \A c \in Conns : \A p \in offered[c] : auth[c] # Nobody /\ dialled[p] = auth[c]

\* Two ends that were joined are each other's for good, the accepting one
\* with the peer it asked for.
LinkInv ==
    \A c \in Conns :
        /\ conn[c] \in {"unborn", "open", "waiting"} => met[c] = Nobody
        /\ met[c] # Nobody /\ use[c] = "accept" => met[c] = token[c]
        /\ met[c] # Nobody /\ use[c] = "dial" => token[met[c]] = c

\* An end is up on what the other end sent.
EndInv ==
    \A c \in Conns :
        /\ WasUp(c) => /\ met[c] # Nobody /\ said[met[c]]
                       /\ remote[c] = owner[met[c]] /\ remote[c] \notin Foreign
        /\ use[c] = "dial" /\ said[c] => WasUp(c)
        /\ said[c] => use[c] # "none"

TunnelInv == TypeOK /\ RelayTypes /\ KnownInv /\ LinkInv /\ EndInv

\* Nothing is open at first.
LEMMA TunnelInit == Init => TunnelInv
  BY TunnelAssumption
     DEF Init, R!Init, R!Phases, TunnelInv, TypeOK, RelayTypes, KnownInv, LinkInv, EndInv, WasUp

\* Opening a connection keeps the invariant (node.rs, 171-252, 338-360).
LEMMA OpenKeeps ==
    ASSUME TunnelInv, NEW n \in Nodes, NEW c \in Conns,
           NEW what \in {"control", "dial", "accept"},
           NEW tok \in Nodes \cup Conns \cup {Nobody}, Open(n, c, what, tok),
           what = "dial" => tok \in Nodes,
           what = "accept" => tok \in Conns /\ dialled[tok] = n
    PROVE  TunnelInv'
<1> USE TunnelAssumption DEF TunnelInv, Open, R!Open, tls
<1>0. use[c] = "none" /\ call[c] = "none" /\ met[c] = Nobody /\ auth[c] = Nobody /\ dialled[c] = Nobody
  BY DEF KnownInv, RelayTypes
<1>1. TypeOK'
  <2>1. \A d \in Conns : met[d] # Nobody => met[d] \in Conns /\ d # c /\ met[d] # c
    BY <1>0 DEF TypeOK
  <2> QED
    BY <2>1 DEF TypeOK
<1>2. RelayTypes'
  BY DEF RelayTypes, R!Phases
<1>3. KnownInv'
  BY <1>0 DEF KnownInv, TypeOK, RelayTypes
<1>4. LinkInv'
  <2>1. \A d \in Conns : met[d] # Nobody => met[d] \in Conns /\ d # c /\ met[d] # c
    BY <1>0 DEF TypeOK
  <2> QED
    BY <1>0, <2>1 DEF LinkInv, TypeOK, RelayTypes
<1>5. EndInv'
  <2>1. \A d \in Conns : met[d] # Nobody => met[d] \in Conns /\ d # c /\ met[d] # c
    BY <1>0 DEF TypeOK
  <2>2. \A d \in Conns : WasUp(d)' <=> WasUp(d)
    BY <1>0 DEF WasUp, TypeOK
  <2> QED
    BY <1>0, <2>1, <2>2 DEF EndInv, TypeOK
<1> QED
  BY <1>1, <1>2, <1>3, <1>4, <1>5

\* A node that opens a connection (node.rs).
LEMMA NodeKeeps ==
    ASSUME TunnelInv, NEW n \in Nodes, NEW c \in Conns,
           \/ BindRelay(n, c)
           \/ \E k \in Nodes : ConnectTo(n, c, k)
           \/ \E p \in Conns : AcceptPeer(n, c, p)
    PROVE  TunnelInv'
<1>1. CASE BindRelay(n, c)
  BY <1>1, OpenKeeps DEF BindRelay
<1>2. ASSUME NEW k \in Nodes, ConnectTo(n, c, k) PROVE TunnelInv'
  BY <1>2, OpenKeeps DEF ConnectTo
<1>3. ASSUME NEW p \in Conns, AcceptPeer(n, c, p) PROVE TunnelInv'
  <2>1. dialled[p] = n
    BY <1>3 DEF AcceptPeer, Notified, TunnelInv, KnownInv
  <2> QED
    BY <1>3, <2>1, OpenKeeps DEF AcceptPeer
<1> QED
  BY <1>1, <1>2, <1>3

\* A step that changes phases only, to none before a join (relay.rs).
LEMMA PhaseKeeps ==
    ASSUME TunnelInv, conn' \in [Conns -> R!Phases],
           \A c \in Conns : conn'[c] \in {"unborn", "open", "waiting"} => conn'[c] = conn[c],
           UNCHANGED <<auth, dialled, offered, opened, met, tls, call>>
    PROVE  TunnelInv'
<1> USE DEF TunnelInv, opened, tls
<1>1. TypeOK' /\ RelayTypes'
  BY DEF TypeOK, RelayTypes
<1>2. KnownInv'
  BY DEF KnownInv, RelayTypes
<1>3. LinkInv'
  BY DEF LinkInv
<1>4. EndInv'
  BY DEF EndInv, WasUp
<1> QED
  BY <1>1, <1>2, <1>3, <1>4

\* Close and Part are such steps.
LEMMA GoneKeeps ==
    ASSUME TunnelInv, NEW c \in Conns, R!Close(c) \/ R!Part(c)
    PROVE  /\ conn' \in [Conns -> R!Phases]
           /\ \A d \in Conns : conn'[d] \in {"unborn", "open", "waiting"} => conn'[d] = conn[d]
           /\ UNCHANGED <<auth, dialled, offered>>
  BY DEF TunnelInv, RelayTypes, R!Phases, R!Close, R!Part

\* The relay's steps keep the invariant (relay.rs, 25-45).
LEMMA RelayKeeps ==
    ASSUME TunnelInv, NEW c \in Conns, NEW p \in Conns,
           RelayStep(c) \/ RelayParts(c) \/ RelayOffers(c, p)
    PROVE  TunnelInv'
<1> USE TunnelAssumption DEF TunnelInv, opened, tls
<1>1. CASE RelayAuthenticates(c)
  <2>1. owner[c] \in Nodes \ Foreign
    BY <1>1 DEF RelayAuthenticates, VerifiesClient, KnownInv, TypeOK
  <2>2. TypeOK' /\ RelayTypes'
    BY <1>1, <2>1 DEF RelayAuthenticates, R!Authenticate, TypeOK, RelayTypes, R!Phases
  <2>3. KnownInv'
    BY <1>1, <2>1 DEF RelayAuthenticates, R!Authenticate, KnownInv, RelayTypes
  <2>4. LinkInv' /\ EndInv'
    BY <1>1 DEF RelayAuthenticates, R!Authenticate, LinkInv, EndInv, WasUp, RelayTypes
  <2> QED
    BY <2>2, <2>3, <2>4
<1>2. CASE RelayParks(c)
  <2>1. TypeOK' /\ RelayTypes'
    BY <1>2 DEF RelayParks, R!Dial, TypeOK, RelayTypes, KnownInv, R!Phases
  <2>2. KnownInv'
    BY <1>2 DEF RelayParks, R!Dial, KnownInv, RelayTypes
  <2>3. LinkInv' /\ EndInv'
    BY <1>2 DEF RelayParks, R!Dial, LinkInv, EndInv, WasUp, RelayTypes
  <2> QED
    BY <2>1, <2>2, <2>3
<1>3. CASE RelayOffers(c, p)
  <2>1. TypeOK' /\ RelayTypes'
    BY <1>3 DEF RelayOffers, R!Offer, TypeOK, RelayTypes
  <2>2. KnownInv'
    BY <1>3 DEF RelayOffers, R!Offer, KnownInv, RelayTypes
  <2>3. LinkInv' /\ EndInv'
    BY <1>3 DEF RelayOffers, R!Offer, LinkInv, EndInv, WasUp
  <2> QED
    BY <2>1, <2>2, <2>3
<1>4. CASE RelayJoins(c)
  <2> PICK q \in Conns : q = token[c]
    BY <1>4 DEF RelayJoins, KnownInv
  <2>1. /\ use[c] = "accept" /\ use[q] = "dial" /\ c # q
        /\ met[c] = Nobody /\ met[q] = Nobody
        /\ met' = [met EXCEPT ![c] = q, ![q] = c]
        /\ conn' = [conn EXCEPT ![c] = "joined", ![q] = "joined"]
        /\ UNCHANGED <<auth, dialled, offered, opened, tls, call>>
    BY <1>4 DEF RelayJoins, R!Join, Meet, KnownInv, LinkInv, TypeOK
  <2>2. \A d \in Conns : d # c /\ d # q /\ met[d] # Nobody => met[d] # c /\ met[d] # q
    BY <2>1 DEF TypeOK
  <2>3. RelayTypes'
    BY <2>1 DEF RelayTypes, R!Phases
  <2>7. TypeOK'
    <3>1. met' \in [Conns -> Conns \cup {Nobody}]
      BY <2>1 DEF TypeOK
    <3>2. \A d \in Conns : met'[d] # Nobody =>
              met'[met'[d]] = d /\ {use[d], use[met'[d]]} = {"dial", "accept"}
      <4> SUFFICES ASSUME NEW d \in Conns, met'[d] # Nobody
                   PROVE  met'[met'[d]] = d /\ {use[d], use[met'[d]]} = {"dial", "accept"}
        OBVIOUS
      <4>1. met'[c] = q /\ met'[q] = c
        BY <2>1 DEF TypeOK
      <4>2. CASE d # c /\ d # q
        <5>1. met'[d] = met[d] /\ met[d] \in Conns
          BY <2>1, <4>2 DEF TypeOK
        <5>2. met'[met[d]] = met[met[d]]
          BY <2>1, <2>2, <4>2, <5>1 DEF TypeOK
        <5> QED
          BY <5>1, <5>2 DEF TypeOK
      <4> QED
        BY <2>1, <4>1, <4>2
    <3> QED
      BY <2>1, <3>1, <3>2 DEF TypeOK
  <2>4. KnownInv'
    BY <2>1 DEF KnownInv, RelayTypes, TypeOK
  <2>5. LinkInv'
    BY <2>1, <2>2 DEF LinkInv, TypeOK, RelayTypes
  <2>6. EndInv'
    BY <2>1, <2>2 DEF EndInv, WasUp, TypeOK
  <2> QED
    BY <2>3, <2>4, <2>5, <2>6, <2>7
<1>5. CASE RelayDrops(c) \/ RelayParts(c)
  BY <1>5, GoneKeeps, PhaseKeeps DEF RelayDrops, RelayParts
<1> QED
  BY <1>1, <1>2, <1>3, <1>4, <1>5 DEF RelayStep

\* An end that gives up keeps the invariant, one that was up stays what it
\* was (connection.rs, 22-46).
LEMMA LeavesKeeps ==
    ASSUME TunnelInv, NEW c \in Conns, Leaves(c), call[c] \in {"going", "up"}
    PROVE  TunnelInv'
<1> USE DEF TunnelInv, opened, tls
<1>1. /\ conn' \in [Conns -> R!Phases]
      /\ \A d \in Conns : conn'[d] \in {"unborn", "open", "waiting"} => conn'[d] = conn[d]
      /\ UNCHANGED <<auth, dialled, offered>>
  BY GoneKeeps DEF Leaves, relay, RelayTypes
<1>2. \A d \in Conns : WasUp(d)' <=> WasUp(d)
  BY DEF Leaves, WasUp, TypeOK
<1>3. TypeOK' /\ RelayTypes'
  BY <1>1 DEF Leaves, TypeOK, RelayTypes
<1>4. KnownInv'
  BY <1>1 DEF Leaves, KnownInv, RelayTypes, TypeOK
<1>5. LinkInv'
  BY <1>1 DEF Leaves, LinkInv
<1>6. EndInv'
  BY <1>2 DEF Leaves, EndInv
<1> QED
  BY <1>3, <1>4, <1>5, <1>6

\* The steps of the ends keep the invariant (tls.rs, 145-160, 237-319).
LEMMA EndKeeps ==
    ASSUME TunnelInv, NEW c \in Conns, EndStep(c) \/ AppLeaves(c)
    PROVE  TunnelInv'
<1> USE TunnelAssumption DEF TunnelInv, relay, opened
<1>1. CASE ServerSpeaks(c)
  <2>1. TypeOK' /\ RelayTypes' /\ KnownInv' /\ LinkInv'
    BY <1>1 DEF ServerSpeaks, TypeOK, RelayTypes, KnownInv, LinkInv
  <2>2. EndInv'
    BY <1>1 DEF ServerSpeaks, Going, EndInv, WasUp, TypeOK
  <2> QED
    BY <2>1, <2>2
<1>2. CASE ClientUp(c) \/ ServerUp(c)
  <2>1. /\ met[c] \in Conns /\ said[met[c]] /\ use[c] # "none" /\ call[c] = "going"
        /\ owner[met[c]] \in Nodes \ Foreign
    BY <1>2 DEF ClientUp, ServerUp, ServerReady, Going, Verifies, VerifiesServer, VerifiesClient, TypeOK, KnownInv
  <2>2. /\ call' = [call EXCEPT ![c] = "up"]
        /\ remote' = [remote EXCEPT ![c] = owner[met[c]]]
        /\ UNCHANGED <<conn, auth, dialled, offered, owner, use, token, met>>
    BY <1>2 DEF ClientUp, ServerUp, Up, HashCert
  <2>3. said' = said \/ said' = [said EXCEPT ![c] = TRUE]
    BY <1>2 DEF ClientUp, ServerUp
  <2>4. TypeOK' /\ RelayTypes'
    BY <2>1, <2>2, <2>3 DEF TypeOK, RelayTypes
  <2>5. KnownInv' /\ LinkInv'
    BY <2>1, <2>2 DEF KnownInv, LinkInv, TypeOK
  <2>6. \A d \in Conns : WasUp(d)' <=> WasUp(d) \/ d = c
    BY <2>2 DEF WasUp, TypeOK
  <2>7. EndInv'
    BY <2>1, <2>2, <2>3, <2>6 DEF EndInv, TypeOK
  <2> QED
    BY <2>4, <2>5, <2>7
<1>3. CASE Rejects(c) \/ SeesClose(c) \/ AppLeaves(c)
  BY <1>3, LeavesKeeps DEF Rejects, SeesClose, AppLeaves, Going
<1> QED
  BY <1>1, <1>2, <1>3 DEF EndStep

\* Every step keeps the invariant.
LEMMA TunnelNext == TunnelInv /\ [Next]_vars => TunnelInv'
<1> SUFFICES ASSUME TunnelInv, [Next]_vars PROVE TunnelInv'
  OBVIOUS
<1>1. CASE UNCHANGED vars
  BY <1>1 DEF vars, relay, opened, tls, TunnelInv, TypeOK, RelayTypes, KnownInv, LinkInv, EndInv, WasUp
<1> QED
  BY <1>1, NodeKeeps, RelayKeeps, EndKeeps DEF Next

\* Types, and ends that stay with each other (relay.rs, 475-510).
THEOREM TunnelTypeOK == Spec => []TypeOK
  BY TunnelInit, TunnelNext, PTL DEF Spec, TunnelInv

\* Who dials a digest through a relay and gets a connection talks to the node
\* with that digest (relay.rs, 25-45; node.rs, 246-252, 425-433).
THEOREM TunnelReachesDialled == Spec => []ReachesDialled
<1>1. TunnelInv => ReachesDialled
  <2> SUFFICES ASSUME TunnelInv, NEW c \in Conns, use[c] = "dial", WasUp(c)
               PROVE  remote[c] = token[c]
    BY DEF ReachesDialled
  <2> USE TunnelAssumption DEF TunnelInv
  <2>1. met[c] \in Conns /\ remote[c] = owner[met[c]]
    BY DEF EndInv, TypeOK
  <2>2. use[met[c]] = "accept" /\ token[met[c]] = c
    BY <2>1 DEF TypeOK, LinkInv
  <2>3. dialled[c] = owner[met[c]] /\ dialled[c] # Nobody
    BY <2>1, <2>2 DEF KnownInv
  <2> QED
    BY <2>1, <2>3 DEF KnownInv
<1> QED
  BY <1>1, TunnelInit, TunnelNext, PTL DEF Spec

\* An accepted connection was dialled by the node it names, whose connect has
\* returned, and by nobody else's (connection.rs, 22-46, 100-114).
THEOREM TunnelAcceptedWasDialled == Spec => []AcceptedWasDialled
<1>1. TunnelInv => AcceptedWasDialled
  <2> SUFFICES ASSUME TunnelInv, NEW c \in Conns, use[c] = "accept", WasUp(c)
               PROVE  \E p \in Conns :
                         /\ use[p] = "dial" /\ owner[p] = remote[c] /\ token[p] = owner[c]
                         /\ WasUp(p) /\ remote[p] = owner[c]
                         /\ \A d \in Conns : use[d] = "accept" /\ WasUp(d) /\ token[d] = p => d = c
    BY DEF AcceptedWasDialled
  <2> USE TunnelAssumption DEF TunnelInv
  <2>1. met[c] \in Conns /\ said[met[c]] /\ remote[c] = owner[met[c]] /\ met[c] = token[c]
    BY DEF EndInv, TypeOK, LinkInv
  <2>2. met[met[c]] = c /\ use[met[c]] = "dial"
    BY <2>1 DEF TypeOK
  <2>3. WasUp(met[c]) /\ remote[met[c]] = owner[c]
    BY <2>1, <2>2 DEF EndInv
  <2>4. token[met[c]] = owner[c]
    BY <2>1 DEF KnownInv
  <2>5. \A d \in Conns : use[d] = "accept" /\ WasUp(d) /\ token[d] = met[c] => d = c
    BY <2>2 DEF EndInv, LinkInv, TypeOK
  <2> QED
    BY <2>1, <2>2, <2>3, <2>4, <2>5
<1> QED
  BY <1>1, TunnelInit, TunnelNext, PTL DEF Spec

\* No node gets a connection to, and the relay registers nobody with, a
\* certificate of another authority (tls.rs, 145-160, 237-319).
THEOREM TunnelOnlyKnown == Spec => []OnlyKnown
<1>1. TunnelInv /\ AcceptedWasDialled => OnlyKnown
  <2> SUFFICES ASSUME TunnelInv, AcceptedWasDialled, NEW c \in Conns
               PROVE  /\ WasUp(c) => remote[c] \notin Foreign
                      /\ use[c] = "accept" /\ WasUp(c) => owner[c] \notin Foreign
                      /\ auth[c] \notin Foreign
    BY DEF OnlyKnown
  <2>1. WasUp(c) => remote[c] \notin Foreign
    BY DEF TunnelInv, EndInv
  <2>2. use[c] = "accept" /\ WasUp(c) => owner[c] \notin Foreign
    BY DEF AcceptedWasDialled, TunnelInv, EndInv
  <2>3. auth[c] \notin Foreign
    BY TunnelAssumption DEF TunnelInv, KnownInv
  <2> QED
    BY <2>1, <2>2, <2>3
<1> QED
  BY <1>1, TunnelInit, TunnelNext, TunnelAcceptedWasDialled, PTL DEF Spec
=============================================================================
