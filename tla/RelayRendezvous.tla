--------------------------- MODULE RelayRendezvous ---------------------------
(***************************************************************************)
(* The relay (module Relay) implements the rendezvous it documents (module *)
(* Rendezvous): the phase of each connection read off the relay's state.   *)
(***************************************************************************)
EXTENDS Relay

\* The task that owns the socket of t since it claimed it.
ClaimedBy(s, t) == pc[s] = "spliced" /\ token[s] = t

JoinedTo(s) ==
    IF pc[s] = "spliced" THEN token[s]
    ELSE IF \E r \in Socks : ClaimedBy(r, s) THEN CHOOSE r \in Socks : ClaimedBy(r, s)
    ELSE None

Phase(s) ==
    CASE pc[s] = "none"                   -> "unborn"
      [] pc[s] \in {"token", "tls"}       -> "open"
      [] ReceiverAlive(s)                 -> "control"
      [] pending_tokens[s] # None         -> "waiting"
      [] JoinedTo(s) # None               -> "joined"
      [] OTHER                            -> "closed"

conn    == [s \in Socks |-> Phase(s)]
dialled == [s \in Socks |-> IF token[s] \in Certs THEN token[s] ELSE None]
partner == [s \in Socks |-> JoinedTo(s)]

R == INSTANCE Rendezvous WITH
        Conns <- Socks, Digests <- Certs, Nobody <- None,
        auth <- remote_cert, offered <- told

\* Every step of the relay is one step of the rendezvous or none: whatever
\* the interleaving of accepts, dials, timers, notifications, claims, control
\* streams that end or replace each other, and shutdown (289-674).
RendezvousSpec == R!Spec
=============================================================================
