---------------------------- MODULE MCRelayStart ----------------------------
(* Four calls of new on three addresses: three that want several, and in any *)
(* order, and one for which a single address is all.                         *)
EXTENDS RelayStart

CONSTANTS r1, r2, r3, r4, a1, a2, a3
MCBind == [r \in Relays |->
    CASE r = r1 -> {a1, a2} [] r = r2 -> {a2, a3, a1} [] r = r3 -> {a1} [] OTHER -> {a2, a3}]
=============================================================================
