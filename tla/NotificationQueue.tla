-------------------------- MODULE NotificationQueue --------------------------
(***************************************************************************)
(* What a control stream promises (relay.rs, 29-45): the node hears of the *)
(* peers that dialled it in the order the relay was told of them, each     *)
(* once and with the address it dialled from.                              *)
(***************************************************************************)
EXTENDS Naturals, Sequences

CONSTANTS Peers,      \* what a notification is about
          Reported(_) \* how the node is told of it

VARIABLES sent, got

Init == sent = <<>> /\ got = <<>>

Notify == \E p \in Peers : sent' = Append(sent, p) /\ UNCHANGED got

Hear ==
    /\ Len(got) < Len(sent)
    /\ got' = Append(got, Reported(sent[Len(got) + 1]))
    /\ UNCHANGED sent

Spec == Init /\ [][Notify \/ Hear]_<<sent, got>>
=============================================================================
