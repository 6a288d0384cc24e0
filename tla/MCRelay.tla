------------------------------ MODULE MCRelay ------------------------------
(* TLC instances of Relay.  Connections, digests and addresses are model   *)
(* values; permuting those of one kind changes no safety property.         *)
EXTENDS RelayRendezvous, TLC

Symmetric == Permutations(Socks) \cup Permutations(Certs) \cup Permutations(Ips)
=============================================================================
