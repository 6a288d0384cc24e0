----------------------------- MODULE Rendezvous -----------------------------
(***************************************************************************)
(* What the relay promises, without tokens, tasks, maps, channels, permits *)
(* or timers (the protocol of relay.rs, lines 6-45): a client keeps a      *)
(* control connection and is addressed by the digest it authenticated      *)
(* with; a peer that dials the digest waits; the peer is offered to such a *)
(* control; a new connection may then be joined to the peer it was offered,*)
(* one to one and for good: two joined connections end together.           *)
(***************************************************************************)
EXTENDS Naturals

CONSTANTS Conns,   \* connections, each used once
          Digests, \* certificate digests
          Nobody   \* no connection and no digest

VARIABLES conn,    \* the phase of each connection
          auth,    \* the digest a control authenticated with
          dialled, \* the digest a peer asked for
          offered, \* the peers each control was offered
          partner  \* the connection each one is joined to

vars == <<conn, auth, dialled, offered, partner>>

Phases == {"unborn", "open", "control", "waiting", "joined", "closed"}

Init ==
    /\ conn = [c \in Conns |-> "unborn"]
    /\ auth = [c \in Conns |-> Nobody]
    /\ dialled = [c \in Conns |-> Nobody]
    /\ offered = [c \in Conns |-> {}]
    /\ partner = [c \in Conns |-> Nobody]

Open(c) ==
    /\ conn[c] = "unborn"
    /\ conn' = [conn EXCEPT ![c] = "open"]
    /\ UNCHANGED <<auth, dialled, offered, partner>>

Authenticate(c, k) ==
    /\ conn[c] = "open"
    /\ conn' = [conn EXCEPT ![c] = "control"]
    /\ auth' = [auth EXCEPT ![c] = k]
    /\ UNCHANGED <<dialled, offered, partner>>

Dial(p, k) ==
    /\ conn[p] = "open"
    /\ conn' = [conn EXCEPT ![p] = "waiting"]
    /\ dialled' = [dialled EXCEPT ![p] = k]
    /\ UNCHANGED <<auth, offered, partner>>

\* The peer may have given up by the time the control hears of it.
Offer(c, p) ==
    /\ conn[c] = "control" /\ conn[p] \in {"waiting", "closed"}
    /\ dialled[p] # Nobody /\ dialled[p] = auth[c]
    /\ p \notin offered[c]
    /\ offered' = [offered EXCEPT ![c] = @ \cup {p}]
    /\ UNCHANGED <<conn, auth, dialled, partner>>

Join(a, p) ==
    /\ conn[a] = "open" /\ conn[p] = "waiting"
    /\ \E c \in Conns : p \in offered[c]
    /\ conn' = [conn EXCEPT ![a] = "joined", ![p] = "joined"]
    /\ partner' = [partner EXCEPT ![a] = p, ![p] = a]
    /\ UNCHANGED <<auth, dialled, offered>>

Close(c) ==
    /\ conn[c] \in {"unborn", "open", "control", "waiting"}
    /\ conn' = [conn EXCEPT ![c] = "closed"]
    /\ UNCHANGED <<auth, dialled, offered, partner>>

Part(a) ==
    /\ conn[a] = "joined"
    /\ conn' = [conn EXCEPT ![a] = "closed", ![partner[a]] = "closed"]
    /\ partner' = [partner EXCEPT ![a] = Nobody, ![partner[a]] = Nobody]
    /\ UNCHANGED <<auth, dialled, offered>>

Next ==
    \E c \in Conns :
        \/ Open(c) \/ Close(c) \/ Part(c)
        \/ \E k \in Digests : Authenticate(c, k) \/ Dial(c, k)
        \/ \E p \in Conns : Offer(c, p) \/ Join(c, p)

Spec == Init /\ [][Next]_vars
=============================================================================
