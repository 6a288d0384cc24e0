-------------------------------- MODULE Node --------------------------------
(***************************************************************************)
(* The inbound side of a tx3 node (crates/tx3/src/node.rs).                *)
(*                                                                         *)
(* Tx3Node::new binds every configured stack concurrently (try_join_all):  *)
(* a listener for each st address, a control stream to the first address   *)
(* of a relay that works for each rst stack.  A bind that succeeds spawns  *)
(* a task under the node's Term.  The task takes connections - from accept *)
(* or as notifications on the control stream - and sends each into one     *)
(* channel of capacity 1, whose receiver is the Tx3Inbound.  The           *)
(* application receives them and runs each handshake by itself.  Dropping  *)
(* any clone of the node triggers the Term.                                *)
(*                                                                         *)
(* A connection is a member of Conns and arrives once; an accept that      *)
(* fails is sent on like one that succeeded.  Who dials a connection, and  *)
(* what the relay does, is the environment.                                *)
(*                                                                         *)
(* A definition named X_Y is X with a fault, Y, that such code could have. *)
(***************************************************************************)
EXTENDS Naturals, FiniteSets, Sequences

CONSTANTS Binds,      \* the futures in all_bind
          RelayBinds, \* those made by bind_tx3_rst
          Conns,      \* connections that peers make to the node
          MaxAddrs,   \* addresses the name of a relay resolves to
          MaxClones,  \* bound on the clones of the node
          None        \* no connection

ASSUME BindsAssumption == RelayBinds \subseteq Binds /\ IsFiniteSet(Binds)
ASSUME ConnsAssumption == None \notin Conns
ASSUME BoundsAssumption == MaxAddrs \in Nat /\ MaxClones \in Nat \ {0}

VARIABLES
    new,     \* what Tx3Node::new returned
    bind,    \* what became of each bind future
    addrs,   \* addresses each relay bind has yet to try
    task,    \* where the task of each bind is
    hand,    \* the connection each task is sending
    slot,    \* the connection in the channel
    inbound, \* the Tx3Inbound: open, drained (recv returned None), dropped
    conn,    \* where each connection is
    took,    \* the connections each task took, in order
    got,     \* the connections the application received, in order
    clones,  \* live clones of the Tx3Node
    term     \* shutdown.term() was called

startup == <<new, bind, addrs>>
channel == <<slot, inbound>>
tasks   == <<task, hand, took>>
owner   == <<clones, term>>
vars    == <<startup, channel, tasks, conn, got, owner>>

Init ==
    /\ new = "binding"
    /\ bind = [b \in Binds |-> "pending"]
    /\ addrs = [b \in Binds |-> IF b \in RelayBinds THEN MaxAddrs ELSE 0]
    /\ task = [b \in Binds |-> "none"]
    /\ hand = [b \in Binds |-> None]
    /\ slot = None
    /\ inbound = "open"
    /\ conn = [c \in Conns |-> "outside"]
    /\ took = [b \in Binds |-> <<>>]
    /\ got = <<>>
    /\ clones = 0
    /\ term = FALSE

\* The connections in S, None apart, are dropped: their sockets close.
Close(S) == conn' = [c \in Conns |-> IF c \in S THEN "closed" ELSE conn[c]]

\* The connection in the hand of a task leaves it.
LetGo(b) == hand' = [hand EXCEPT ![b] = None]

-----------------------------------------------------------------------------
(* Tx3Node::new.                                                           *)

\* The bind is done and its task spawned.
BindOk(b) ==
    /\ new = "binding" /\ bind[b] = "pending"
    /\ b \in RelayBinds => addrs[b] > 0
    /\ bind' = [bind EXCEPT ![b] = "bound"]
    /\ task' = [task EXCEPT ![b] = "taking"]
    /\ UNCHANGED <<new, addrs, hand, took, channel, conn, got, owner>>

\* An address of a relay does not work: connect, handshake, certificate or
\* all-clear.  The next one is tried.
RelayAddrFails(b) ==
    /\ new = "binding" /\ bind[b] = "pending" /\ addrs[b] > 0
    /\ addrs' = [addrs EXCEPT ![b] = @ - 1]
    /\ UNCHANGED <<new, bind, tasks, channel, conn, got, owner>>

\* new returns an error: the other pending futures are dropped, and the
\* receiver; a task that was spawned is not: nothing triggers its Term.
NewFails(b) ==
    /\ new' = "failed"
    /\ bind' = [d \in Binds |-> IF d = b \/ bind[d] = "pending" THEN "dropped" ELSE bind[d]]
    /\ inbound' = "dropped"
    /\ slot' = None
    /\ Close({slot})
    /\ UNCHANGED <<addrs, hand, took, got, owner>>

BindFails(b) ==
    /\ new = "binding" /\ bind[b] = "pending" /\ addrs[b] = 0
    /\ NewFails(b)
    /\ UNCHANGED task

\* A relay address that lists a stack of another kind: the assertion in
\* bind_tx3_rst panics after the task was spawned.
BindPanics(b) ==
    /\ new = "binding" /\ bind[b] = "pending" /\ addrs[b] > 0
    /\ NewFails(b)
    /\ task' = [task EXCEPT ![b] = "taking"]

NewOk ==
    /\ new = "binding" /\ \A b \in Binds : bind[b] = "bound"
    /\ new' = "ok"
    /\ clones' = 1
    /\ UNCHANGED <<bind, addrs, tasks, channel, conn, got, term>>

-----------------------------------------------------------------------------
(* The task of a bind.                                                     *)

\* accept returns, or a notification was read.
Take(b, c) ==
    /\ task[b] = "taking" /\ conn[c] = "outside"
    /\ task' = [task EXCEPT ![b] = "sending"]
    /\ hand' = [hand EXCEPT ![b] = c]
    /\ took' = [took EXCEPT ![b] = Append(@, c)]
    /\ conn' = [conn EXCEPT ![c] = "held"]
    /\ UNCHANGED <<startup, channel, got, owner>>

\* The control stream fails: the task returns.  Nothing reconnects.
ControlEnds(b) ==
    /\ b \in RelayBinds /\ task[b] = "taking"
    /\ task' = [task EXCEPT ![b] = "ended"]
    /\ UNCHANGED <<startup, hand, took, channel, conn, got, owner>>

SlotFree_Always == TRUE
SlotFree == slot = None

\* con_send.send() returns Ok, and the loop goes on.
Send(b) ==
    /\ task[b] = "sending" /\ inbound # "dropped" /\ SlotFree
    /\ slot' = hand[b]
    /\ conn' = [conn EXCEPT ![hand[b]] = "queued"]
    /\ LetGo(b)
    /\ task' = [task EXCEPT ![b] = "taking"]
    /\ UNCHANGED <<startup, took, inbound, got, owner>>

\* The receiver is gone: the connection is dropped and the loop breaks.
AfterFailedSend_Continue == "taking"
AfterFailedSend == "ended"

SendFails_Never(b) == FALSE
SendFails(b) ==
    /\ task[b] = "sending" /\ inbound = "dropped"
    /\ Close({hand[b]}) /\ LetGo(b)
    /\ task' = [task EXCEPT ![b] = AfterFailedSend]
    /\ UNCHANGED <<startup, took, channel, got, owner>>

-----------------------------------------------------------------------------
(* The application.                                                        *)

Recv ==
    /\ new = "ok" /\ inbound = "open" /\ slot # None
    /\ got' = Append(got, slot)
    /\ conn' = [conn EXCEPT ![slot] = "taken"]
    /\ slot' = None
    /\ UNCHANGED <<startup, tasks, inbound, owner>>

\* recv returns None: every sender was dropped and the channel is empty.
HasSender_Waiting == \E b \in Binds : task[b] = "sending"
HasSender == \E b \in Binds : task[b] \in {"taking", "sending"}

RecvNone ==
    /\ new = "ok" /\ inbound = "open" /\ slot = None /\ ~HasSender
    /\ inbound' = "drained"
    /\ UNCHANGED <<startup, tasks, slot, conn, got, owner>>

DropInbound ==
    /\ new = "ok" /\ inbound # "dropped"
    /\ inbound' = "dropped"
    /\ slot' = None
    /\ Close({slot})
    /\ UNCHANGED <<startup, tasks, got, owner>>

\* accept(): the TLS handshake, after a dial to the relay for an rst
\* connection, succeeds or fails; or the Tx3InboundAccept is dropped.
Accept(c) ==
    /\ conn[c] = "taken"
    /\ \E r \in {"open", "closed"} : conn' = [conn EXCEPT ![c] = r]
    /\ UNCHANGED <<startup, tasks, channel, got, owner>>

CloneNode ==
    /\ clones \in 1 .. (MaxClones - 1)
    /\ clones' = clones + 1
    /\ UNCHANGED <<startup, tasks, channel, conn, got, term>>

\* Drop of any clone, not only of the last.
DropNode ==
    /\ clones > 0
    /\ clones' = clones - 1
    /\ term' = TRUE
    /\ UNCHANGED <<startup, tasks, channel, conn, got>>

-----------------------------------------------------------------------------
\* The Term drops the task where it is (module Term), with what it holds.
Cancellable_Taking == {"taking"}
Cancellable == {"taking", "sending"}

Cancel(b) ==
    /\ term /\ task[b] \in Cancellable
    /\ task' = [task EXCEPT ![b] = "ended"]
    /\ Close({hand[b]}) /\ LetGo(b)
    /\ UNCHANGED <<startup, took, channel, got, owner>>

-----------------------------------------------------------------------------
Next ==
    \/ \E b \in Binds :
          \/ BindOk(b) \/ RelayAddrFails(b) \/ BindFails(b) \/ BindPanics(b)
          \/ \E c \in Conns : Take(b, c)
          \/ ControlEnds(b) \/ Send(b) \/ SendFails(b) \/ Cancel(b)
    \/ NewOk \/ Recv \/ RecvNone \/ DropInbound \/ CloneNode \/ DropNode
    \/ \E c \in Conns : Accept(c)

Spec == Init /\ [][Next]_vars

\* The runtime polls the tasks: a send that can return does, a task that is
\* to be dropped is dropped.
FairSpec ==
    Spec /\ \A b \in Binds : WF_vars(Send(b)) /\ WF_vars(SendFails(b)) /\ WF_vars(Cancel(b))

\* The application keeps receiving, or drops its Tx3Inbound.
AppReceives == WF_vars(Recv)

-----------------------------------------------------------------------------
(* Properties.                                                             *)

\* Every variable keeps to its type, and a task has a connection in hand
\* exactly while it sends (node.rs, 55-60, 267-301, 362-412).
TypeOK ==
    /\ new \in {"binding", "ok", "failed"}
    /\ bind \in [Binds -> {"pending", "bound", "dropped"}]
    /\ addrs \in [Binds -> 0 .. MaxAddrs]
    /\ task \in [Binds -> {"none", "taking", "sending", "ended"}]
    /\ hand \in [Binds -> Conns \cup {None}]
    /\ slot \in Conns \cup {None}
    /\ inbound \in {"open", "drained", "dropped"}
    /\ conn \in [Conns -> {"outside", "held", "queued", "taken", "open", "closed"}]
    /\ took \in [Binds -> Seq(Conns)]
    /\ got \in Seq(Conns)
    /\ clones \in 0 .. MaxClones
    /\ term \in BOOLEAN
    /\ \A b \in Binds : (hand[b] # None) <=> (task[b] = "sending")

\* What is on its way from a task to the application, behind what it got.
One(c) == IF c = None THEN <<>> ELSE <<c>>
OnTheWay(b) == got \o One(slot) \o One(hand[b])

\* Those in s that a bind took, where t is what it took, are its first n: each
\* at one place, and in the order of t.
FirstOf(t, n, s) ==
    \E at \in [1 .. n -> DOMAIN s] :
        /\ \A i \in 1 .. n : s[at[i]] = t[i]
        /\ \A i, j \in 1 .. n : i < j => at[i] < at[j]
        /\ \A p \in DOMAIN s :
              (\E k \in DOMAIN t : t[k] = s[p]) => \E i \in 1 .. n : at[i] = p

\* Each bind's connections reach the application once each and in the order
\* they were taken, and until the node or its Tx3Inbound is dropped, or new
\* fails, all of them are received or still on the way (268-298, 365-409).
InboundExact ==
    \A b \in Binds :
        /\ \E n \in 0 .. Len(took[b]) : FirstOf(took[b], n, got)
        /\ ~term /\ inbound # "dropped" =>
              FirstOf(took[b], Len(took[b]), OnTheWay(b))

\* When recv has returned None, nothing can arrive any more and nothing that
\* was taken is still undelivered in the node (37-43, 80, 151-157).
DrainedForGood ==
    inbound = "drained" =>
        /\ slot = None
        /\ \A b \in Binds : task[b] \in {"none", "ended"} /\ hand[b] = None

\* An application that stops receiving, drops its Tx3Inbound or its node, or
\* never got them because new failed, costs at most one connection per bind
\* and one more, and no bind more than two: the rest is not taken off the
\* network (291-297, 402-408).
Swallowed == {c \in Conns : conn[c] # "outside" /\ \A i \in DOMAIN got : got[i] # c}
SwallowedOf(b) == {c \in Swallowed : \E i \in DOMAIN took[b] : took[b][i] = c}
SwallowedBounded ==
    /\ Cardinality(Swallowed) <= Cardinality(Binds) + 1
    /\ \A b \in Binds : Cardinality(SwallowedOf(b)) <= 2

\* Dropping any clone stops every bind, whatever it was doing and whether or
\* not the application receives (63-67, 267, 362).
NodeStops == term ~> \A b \in Binds : task[b] \in {"none", "ended"}

\* If the application keeps receiving, a connection that was taken reaches it,
\* unless the node or the Tx3Inbound is dropped or new fails: then it is
\* closed, not kept (291-297, 402-408).
HeldResolved ==
    AppReceives =>
        \A c \in Conns :
            (conn[c] \in {"held", "queued"} /\ new # "binding")
                ~> (conn[c] \in {"taken", "open", "closed"})
=============================================================================
