------------------------------- MODULE Relay -------------------------------
(***************************************************************************)
(* The tx3 relay server (crates/tx3/src/relay.rs).                         *)
(*                                                                         *)
(* Every TCP connection the relay accepts runs process_socket as a task of *)
(* its own and first sends 32 bytes, its token:                            *)
(*   - the digest of the relay's certificate opens a control stream: TLS   *)
(*     handshake, registration in the shared RelayState, then a loop that  *)
(*     writes a notification for every peer that dials this client;        *)
(*   - the digest of a registered control's certificate dials that client: *)
(*     the socket is parked in pending_tokens under a fresh splice token,  *)
(*     a timer is armed, and the control is notified through a channel of  *)
(*     capacity 1;                                                         *)
(*   - a splice token claims the parked socket, and the two are spliced;   *)
(*   - anything else is dropped.                                           *)
(* RelayState is guarded by a mutex that is never held across an await, so *)
(* each access is one atomic step.  The tasks interleave between awaits.   *)
(*                                                                         *)
(* A connection is a member of Socks and is used once.  The splice token   *)
(* drawn for a peer (32 random bytes) is modelled as that peer itself.     *)
(*                                                                         *)
(* A definition named X_Y is X with a fault, Y, that such code could have. *)
(* No action uses it: it shows that a check of the project sees the fault. *)
(***************************************************************************)
EXTENDS Integers, FiniteSets

CONSTANTS Socks,       \* the TCP connections made to the relay
          Certs,       \* certificate digests of the relay's clients
          RelayCert,   \* digest of the relay's own certificate
          Ips,         \* remote ip addresses
          MaxInbound,  \* config.max_inbound_connections
          MaxControl,  \* config.max_control_streams
          MaxPerIp,    \* config.max_control_streams_per_ip
          MaxRelays,   \* config.max_relays_per_control
          None         \* no connection, digest, token or address

ASSUME SocksAssumption == IsFiniteSet(Socks) /\ None \notin Socks

ASSUME CertsAssumption ==
    /\ None \notin Certs /\ RelayCert \notin Certs /\ RelayCert # None
    /\ Certs \cap Socks = {} /\ RelayCert \notin Socks

ASSUME IpsAssumption == None \notin Ips

ASSUME LimitsAssumption ==
    /\ MaxInbound \in Nat /\ MaxControl \in Nat
    /\ MaxPerIp \in Nat /\ MaxRelays \in Nat

VARIABLES
    pc,               \* where the task of each connection is
    rem_addr,         \* remote ip of each connection
    token,            \* the 32 bytes each connection sent
    remote_cert,      \* digest a control authenticated with
    via,              \* the control whose ctrl_send (notify) or whose
                      \* relay permit (spliced) the task of a peer holds
    control_channels, \* RelayState: digest -> the registered control
    control_addrs,    \* RelayState: ip -> controls counted (0 if absent)
    pending_tokens,   \* RelayState: parked peer -> control whose relay
                      \* permit PendingInfo holds (None if absent)
    mail,             \* the slot of each control's channel
    writing,          \* the notification each control is writing
    told,             \* splice tokens received by each control's client
    inbound_limit,    \* permits left in each semaphore
    control_limit,
    relay_limit,
    term,             \* the relay was dropped: shutdown.term()
    listening         \* the accept loops run

locals == <<rem_addr, token, remote_cert, via>>
state  == <<control_channels, control_addrs, pending_tokens>>
chans  == <<mail, writing, told>>
limits == <<inbound_limit, control_limit, relay_limit>>
life   == <<term, listening>>
vars   == <<pc, locals, state, chans, limits, life>>

\* The awaits at which a task can be found.  "teardown" is the code between
\* the end of the control loop and the end of the task, which awaits nothing.
PCs == {"none", "token", "tls", "allclear", "serving", "teardown",
        "notify", "spliced", "done"}

\* ctrl_recv of the control exists: it is dropped when the loop returns.
ReceiverAlive(c) == pc[c] \in {"allclear", "serving"}

\* The tokens clients know: digests are public, a splice token is known only
\* to those it was sent to, None stands for 32 bytes that match nothing.
ToldTokens_Guessed == Socks
ToldTokens == UNION {told[c] : c \in Socks}
KnownTokens == Certs \cup {RelayCert, None} \cup ToldTokens

Init ==
    /\ pc = [s \in Socks |-> "none"]
    /\ rem_addr = [s \in Socks |-> None]
    /\ token = [s \in Socks |-> None]
    /\ remote_cert = [s \in Socks |-> None]
    /\ via = [s \in Socks |-> None]
    /\ control_channels = [k \in Certs |-> None]
    /\ control_addrs = [i \in Ips |-> 0]
    /\ pending_tokens = [s \in Socks |-> None]
    /\ mail = [s \in Socks |-> None]
    /\ writing = [s \in Socks |-> None]
    /\ told = [s \in Socks |-> {}]
    /\ inbound_limit = MaxInbound
    /\ control_limit = MaxControl
    /\ relay_limit = [s \in Socks |-> MaxRelays]
    /\ term = FALSE
    /\ listening = TRUE

-----------------------------------------------------------------------------
(* What several handlers do.                                               *)

Goto(s, label) == pc' = [pc EXCEPT ![s] = label]

\* try_acquire_owned on the inbound semaphore, the permit moved into the task.
TakeInbound_Discarded == inbound_limit > 0 /\ UNCHANGED inbound_limit
TakeInbound == inbound_limit > 0 /\ inbound_limit' = inbound_limit - 1

\* The task returns, or is dropped: its socket closes, con_permit is released.
End(s) == Goto(s, "done") /\ inbound_limit' = inbound_limit + 1

\* The task of a control returns before it was registered.
EndControl_KeepPermit(s) == End(s) /\ UNCHANGED control_limit
EndControl(s) == End(s) /\ control_limit' = control_limit + 1

\* ctrl_recv is dropped with whatever was queued or being written.
DropReceiver(c) ==
    /\ mail' = [mail EXCEPT ![c] = None]
    /\ writing' = [writing EXCEPT ![c] = None]
    /\ UNCHANGED told

GiveRelayPermit(c) == relay_limit' = [relay_limit EXCEPT ![c] = @ + 1]

-----------------------------------------------------------------------------
(* bind_tx3_rst: the accept loop.                                          *)

Accept(s, ip) ==
    /\ listening /\ pc[s] = "none"
    /\ TakeInbound
    /\ Goto(s, "token")
    /\ rem_addr' = [rem_addr EXCEPT ![s] = ip]
    /\ UNCHANGED <<token, remote_cert, via, state, chans, control_limit,
                   relay_limit, life>>

\* No permit is left, or tx3_tcp_configure fails and gives the permit back.
DropAtAccept(s) ==
    /\ listening /\ pc[s] = "none"
    /\ Goto(s, "done")
    /\ UNCHANGED <<locals, state, chans, limits, life>>

-----------------------------------------------------------------------------
(* process_socket, up to the lookup of the token.  read_exact is followed  *)
(* by no await before the lookup, so reading and acting is one step.       *)

\* connection_timeout_ms passes, or the client closes or fails.
TokenTimeout(s) ==
    /\ pc[s] = "token"
    /\ End(s)
    /\ UNCHANGED <<locals, state, chans, control_limit, relay_limit, life>>

OpenControl(s) ==
    /\ pc[s] = "token" /\ control_limit > 0
    /\ token' = [token EXCEPT ![s] = RelayCert]
    /\ control_limit' = control_limit - 1
    /\ Goto(s, "tls")
    /\ UNCHANGED <<rem_addr, remote_cert, via, state, chans, inbound_limit,
                   relay_limit, life>>

Refused(k) ==
    CASE k = RelayCert -> control_limit = 0
      [] k \in Certs   -> control_channels[k] # None =>
                              relay_limit[control_channels[k]] = 0
      [] k \in Socks   -> pending_tokens[k] = None
      [] OTHER         -> TRUE

\* A limit is reached, or nobody is registered or parked under the token.
DropSocket(s, k) ==
    /\ pc[s] = "token" /\ k \in KnownTokens
    /\ Refused(k)
    /\ End(s)
    /\ UNCHANGED <<locals, state, chans, control_limit, relay_limit, life>>

\* Acquire the relay permit and park the socket in PendingInfo.
Park_NoPermit(s, c) ==
    /\ relay_limit[c] > 0
    /\ UNCHANGED relay_limit
    /\ pending_tokens' = [pending_tokens EXCEPT ![s] = c]
Park(s, c) ==
    /\ relay_limit[c] > 0
    /\ relay_limit' = [relay_limit EXCEPT ![c] = @ - 1]
    /\ pending_tokens' = [pending_tokens EXCEPT ![s] = c]

\* TokenRes::HaveControl: the peer is parked, and its timer armed; the task
\* goes on to notify the control through the sender it cloned.
DialControl(s, k) ==
    /\ pc[s] = "token" /\ control_channels[k] # None
    /\ Park(s, control_channels[k])
    /\ token' = [token EXCEPT ![s] = k]
    /\ via' = [via EXCEPT ![s] = control_channels[k]]
    /\ Goto(s, "notify")
    /\ UNCHANGED <<rem_addr, remote_cert, control_channels, control_addrs,
                   chans, inbound_limit, control_limit, life>>

\* pending_tokens.remove(&token): the entry leaves the map with its permit.
Unpark_Get(t) == UNCHANGED pending_tokens
Unpark(t) == pending_tokens' = [pending_tokens EXCEPT ![t] = None]

\* TokenRes::HaveConToken: s takes over the parked socket and the permit.
ClaimSplice(s, t) ==
    /\ pc[s] = "token" /\ t \in ToldTokens /\ pending_tokens[t] # None
    /\ Unpark(t)
    /\ token' = [token EXCEPT ![s] = t]
    /\ via' = [via EXCEPT ![s] = pending_tokens[t]]
    /\ Goto(s, "spliced")
    /\ UNCHANGED <<rem_addr, remote_cert, control_channels, control_addrs,
                   chans, limits, life>>

-----------------------------------------------------------------------------
(* process_socket, after the lookup.                                       *)

\* The timer task armed when t was parked.  It is spawned outside Term, so it
\* fires after shutdown too; it finds nothing if t was claimed.
PendingTimeout_UnderTerm(t) ==
    /\ pending_tokens[t] # None /\ ~term
    /\ Unpark(t)
    /\ GiveRelayPermit(pending_tokens[t])
    /\ UNCHANGED <<pc, locals, control_channels, control_addrs, chans,
                   inbound_limit, control_limit, life>>
PendingTimeout(t) ==
    /\ pending_tokens[t] # None
    /\ Unpark(t)
    /\ GiveRelayPermit(pending_tokens[t])
    /\ UNCHANGED <<pc, locals, control_channels, control_addrs, chans,
                   inbound_limit, control_limit, life>>

\* ctrl_send.send() returns: the slot was free, or the receiver is gone.
SlotFree_Always(c) == ReceiverAlive(c)
SlotFree(c) == ReceiverAlive(c) /\ mail[c] = None

SendNotify(s) ==
    /\ pc[s] = "notify" /\ SlotFree(via[s])
    /\ mail' = [mail EXCEPT ![via[s]] = s]
    /\ End(s)
    /\ UNCHANGED <<locals, state, writing, told, control_limit, relay_limit,
                   life>>

SendFails_Never(s) == FALSE
SendFails(s) ==
    /\ pc[s] = "notify" /\ ~ReceiverAlive(via[s])
    /\ End(s)
    /\ UNCHANGED <<locals, state, chans, control_limit, relay_limit, life>>

\* copy_bidirectional returns; both sockets and both permits are dropped.
SpliceEnds(s) ==
    /\ pc[s] = "spliced"
    /\ End(s)
    /\ GiveRelayPermit(via[s])
    /\ UNCHANGED <<locals, state, chans, control_limit, life>>

-----------------------------------------------------------------------------
(* process_relay_control and its loop.                                     *)

\* The TLS handshake fails, or the deadline of the connection passes.
HandshakeFails(s) ==
    /\ pc[s] = "tls"
    /\ EndControl(s)
    /\ UNCHANGED <<locals, state, chans, relay_limit, life>>

IpHasRoom(s) == control_addrs[rem_addr[s]] < MaxPerIp

RegisterOverIp(s) ==
    /\ pc[s] = "tls" /\ ~IpHasRoom(s)
    /\ EndControl(s)
    /\ UNCHANGED <<locals, state, chans, relay_limit, life>>

\* Insert under the digest the client authenticated with, whoever was there:
\* a replaced ControlInfo is dropped, its control keeps running.  The new
\* ControlInfo has a semaphore of its own, relay_limit[s], still full.
CountControl(s) == control_addrs' = [control_addrs EXCEPT ![rem_addr[s]] = @ + 1]
Register(s, k) ==
    /\ pc[s] = "tls" /\ IpHasRoom(s)
    /\ remote_cert' = [remote_cert EXCEPT ![s] = k]
    /\ CountControl(s)
    /\ control_channels' = [control_channels EXCEPT ![k] = s]
    /\ Goto(s, "allclear")
    /\ UNCHANGED <<rem_addr, token, via, pending_tokens, chans, limits, life>>

\* The all-clear byte is written and flushed.
AllClear(c) ==
    /\ pc[c] = "allclear"
    /\ Goto(c, "serving")
    /\ UNCHANGED <<locals, state, chans, limits, life>>

\* The write side: recv a command once the previous one is written ...
RecvCmd(c) ==
    /\ pc[c] = "serving" /\ writing[c] = None /\ mail[c] # None
    /\ writing' = [writing EXCEPT ![c] = mail[c]]
    /\ mail' = [mail EXCEPT ![c] = None]
    /\ UNCHANGED <<pc, locals, state, told, limits, life>>

\* ... and write it, which takes as long as the client takes to read.
WriteDone(c) ==
    /\ pc[c] = "serving" /\ writing[c] # None
    /\ told' = [told EXCEPT ![c] = @ \cup {writing[c]}]
    /\ writing' = [writing EXCEPT ![c] = None]
    /\ UNCHANGED <<pc, locals, state, mail, limits, life>>

\* The senders of a control: its ControlInfo, and the clones held by the
\* tasks that notify it.
HasSender(c) ==
    \/ \E k \in Certs : control_channels[k] = c
    \/ \E s \in Socks : pc[s] = "notify" /\ via[s] = c

\* recv returns None: every sender is dropped and the channel is empty.
SendersGone_Never(c) == FALSE
SendersGone(c) ==
    /\ pc[c] = "serving" /\ writing[c] = None /\ mail[c] = None
    /\ ~HasSender(c)
    /\ Goto(c, "teardown")
    /\ DropReceiver(c)
    /\ UNCHANGED <<locals, state, limits, life>>

\* The client closes the stream, sends a byte on it, or a write fails.
StreamEnds(c) ==
    /\ ReceiverAlive(c)
    /\ Goto(c, "teardown")
    /\ DropReceiver(c)
    /\ UNCHANGED <<locals, state, limits, life>>

\* After the loop: uncount the ip, remove the digest - whichever control is
\* registered under it by now - and release both permits.
UncountControl_Skip(c) == UNCHANGED control_addrs
UncountControl(c) ==
    control_addrs' = [control_addrs EXCEPT ![rem_addr[c]] = IF @ > 0 THEN @ - 1 ELSE 0]

Unregister_Skip(c) == UNCHANGED control_channels
Unregister(c) ==
    control_channels' = [control_channels EXCEPT ![remote_cert[c]] = None]

Teardown(c) ==
    /\ pc[c] = "teardown"
    /\ UncountControl(c)
    /\ Unregister(c)
    /\ EndControl(c)
    /\ UNCHANGED <<locals, pending_tokens, chans, relay_limit, life>>

-----------------------------------------------------------------------------
(* Shutdown.  Term::spawn selects between the task and the termination     *)
(* signal: the task is dropped at the await where it is, so whatever stands *)
(* after that await does not run.  It may take steps until then.           *)

RelayDrop ==
    /\ ~term
    /\ term' = TRUE
    /\ UNCHANGED <<pc, locals, state, chans, limits, listening>>

StopListening ==
    /\ term /\ listening
    /\ listening' = FALSE
    /\ UNCHANGED <<pc, locals, state, chans, limits, term>>

Cancel(s) ==
    /\ term
    /\ \/ /\ pc[s] \in {"token", "notify"}
          /\ End(s)
          /\ UNCHANGED <<chans, control_limit, relay_limit>>
       \/ /\ pc[s] = "spliced"
          /\ End(s)
          /\ GiveRelayPermit(via[s])
          /\ UNCHANGED <<chans, control_limit>>
       \/ /\ pc[s] = "tls"
          /\ EndControl(s)
          /\ UNCHANGED <<chans, relay_limit>>
       \/ /\ ReceiverAlive(s)
          /\ EndControl(s)
          /\ DropReceiver(s)
          /\ UNCHANGED relay_limit
    /\ UNCHANGED <<locals, state, life>>

\* Nothing is left to do: no task, no parked socket, no accept loop.
Drained ==
    /\ ~listening
    /\ \A s \in Socks : pc[s] \in {"none", "done"} /\ pending_tokens[s] = None

Terminated == Drained /\ UNCHANGED vars

-----------------------------------------------------------------------------
Next ==
    \/ \E s \in Socks :
          \/ \E ip \in Ips : Accept(s, ip)
          \/ DropAtAccept(s)
          \/ TokenTimeout(s)
          \/ OpenControl(s)
          \/ \E k \in KnownTokens : DropSocket(s, k)
          \/ \E k \in Certs : DialControl(s, k)
          \/ \E t \in Socks : ClaimSplice(s, t)
          \/ PendingTimeout(s)
          \/ SendNotify(s)
          \/ SendFails(s)
          \/ SpliceEnds(s)
          \/ HandshakeFails(s)
          \/ RegisterOverIp(s)
          \/ \E k \in Certs : Register(s, k)
          \/ AllClear(s)
          \/ RecvCmd(s)
          \/ WriteDone(s)
          \/ SendersGone(s)
          \/ StreamEnds(s)
          \/ Teardown(s)
          \/ Cancel(s)
    \/ RelayDrop
    \/ StopListening
    \/ Terminated

Spec == Init /\ [][Next]_vars

\* What the relay does without its clients: a deadline passes, a task that can
\* go on is polled, a task that is to be dropped is dropped.
RelayFairness ==
    /\ \A s \in Socks :
          /\ WF_vars(TokenTimeout(s)) /\ WF_vars(HandshakeFails(s))
          /\ WF_vars(PendingTimeout(s))
          /\ WF_vars(SendNotify(s)) /\ WF_vars(SendFails(s))
          /\ WF_vars(AllClear(s)) /\ WF_vars(RecvCmd(s))
          /\ WF_vars(SendersGone(s)) /\ WF_vars(Teardown(s))
          /\ WF_vars(Cancel(s))
    /\ WF_vars(StopListening)

FairSpec == Spec /\ RelayFairness

\* Every client reads what is written to its control stream.
ClientsRead == \A c \in Socks : WF_vars(WriteDone(c))

-----------------------------------------------------------------------------
(* Properties.                                                             *)

\* Every variable of the relay keeps to its type (RelayState, 347-376, the
\* locals of the tasks, and semaphores that are never overdrawn).
TypeOK ==
    /\ pc \in [Socks -> PCs]
    /\ rem_addr \in [Socks -> Ips \cup {None}]
    /\ token \in [Socks -> Certs \cup Socks \cup {RelayCert, None}]
    /\ remote_cert \in [Socks -> Certs \cup {None}]
    /\ via \in [Socks -> Socks \cup {None}]
    /\ control_channels \in [Certs -> Socks \cup {None}]
    /\ control_addrs \in [Ips -> Nat]
    /\ pending_tokens \in [Socks -> Socks \cup {None}]
    /\ mail \in [Socks -> Socks \cup {None}]
    /\ writing \in [Socks -> Socks \cup {None}]
    /\ told \in [Socks -> SUBSET Socks]
    /\ inbound_limit \in Nat
    /\ control_limit \in Nat
    /\ relay_limit \in [Socks -> Nat]
    /\ term \in BOOLEAN
    /\ listening \in BOOLEAN

\* Every inbound permit is free or held by one running task, through every
\* early return, failed send and cancellation (con_permit, 312-338 and 526).
Tasks == {s \in Socks : pc[s] \notin {"none", "done"}}
InboundConserved == inbound_limit + Cardinality(Tasks) = MaxInbound

\* Every control permit is free or held by one connection that asked for the
\* control role and has not ended (control_permit, 417-425 and 617).
ControlTasks == {s \in Socks : pc[s] \in {"tls", "allclear", "serving", "teardown"}}
ControlConserved == control_limit + Cardinality(ControlTasks) = MaxControl

\* A relay permit belongs to the parked peer it was taken for: it is returned
\* once, by the timer or by the end of the splice the peer was claimed for,
\* whether or not the control it counts against still runs (468-485, 501-516).
ClaimedVia(t, c) == \E s \in Socks : pc[s] = "spliced" /\ token[s] = t /\ via[s] = c
RelayHolders(c) == {t \in Socks : pending_tokens[t] = c \/ ClaimedVia(t, c)}
RelayConserved ==
    \A c \in Socks : relay_limit[c] + Cardinality(RelayHolders(c)) = MaxRelays

\* Until shutdown, an ip is counted for exactly the controls that registered
\* from it and have not been torn down, and never for more than the limit,
\* whatever registrations replaced each other (558-568 against 598-609).
Registered == {c \in Socks : pc[c] \in {"allclear", "serving", "teardown"}}
PerIpCount ==
    ~term => \A i \in Ips :
        /\ control_addrs[i] = Cardinality({c \in Registered : rem_addr[c] = i})
        /\ control_addrs[i] <= MaxPerIp

\* Until shutdown, the registry never names a control that is gone, nor one
\* that authenticated with another digest (570-576 against 611).
RegistrySound ==
    ~term => \A k \in Certs :
        control_channels[k] # None =>
            /\ control_channels[k] \in Registered
            /\ remote_cert[control_channels[k]] = k

\* A parked socket is claimed at most once: a spliced peer is in no other
\* splice, is no longer parked - so its timer cannot close it - and its own
\* task holds nothing any more (482-484 against 501-506).
SpliceExclusive ==
    \A s \in Socks : pc[s] = "spliced" =>
        /\ token[s] \in Socks
        /\ pending_tokens[token[s]] = None
        /\ pc[token[s]] = "done"
        /\ \A r \in Socks \ {s} : pc[r] = "spliced" => token[r] # token[s]

\* A peer is announced, and spliced, only through a control that
\* authenticated as the digest the peer dialled, and a splice joins it to a
\* connection that presents what that control was told (468-484, 653-666).
Announced(c) == told[c] \cup ({mail[c], writing[c]} \ {None})
RoutedToDialled ==
    /\ \A c \in Socks : \A t \in Announced(c) : token[t] = remote_cert[c]
    /\ \A s \in Socks : pc[s] = "spliced" => token[s] \in told[via[s]]

\* Until shutdown, no notification is lost while its control stream is up: a
\* parked peer is about to be sent, queued, being written, or was delivered
\* to the control it dialled (510-512, 653-667).
NotifyNotLost ==
    ~term => \A t \in Socks :
        LET c == pending_tokens[t] IN
        c # None /\ ReceiverAlive(c) =>
            \/ pc[t] = "notify" /\ via[t] = c
            \/ t \in Announced(c)

\* The inductive strengthening of the four properties above: which control a
\* task, a parked entry or a notification belongs to is fixed when the peer
\* dials and is the one that authenticated as the digest it dialled, also
\* after shutdown and after that control is gone, and a peer is announced
\* once (441-513, 546-590, 653-667).
Authenticated(c) == pc[c] \in {"allclear", "serving", "teardown", "done"}

AuthInv == \A c \in Socks : remote_cert[c] # None => Authenticated(c)

RegistryInv ==
    \A k \in Certs :
        control_channels[k] # None =>
            /\ remote_cert[control_channels[k]] = k
            /\ ~term => control_channels[k] \in Registered

DialInv ==
    \A t \in Socks : pc[t] = "notify" =>
        /\ via[t] # None
        /\ token[t] \in Certs /\ token[t] = remote_cert[via[t]]

ParkInv ==
    \A t \in Socks : pending_tokens[t] # None =>
        /\ pc[t] \in {"notify", "done"}
        /\ pending_tokens[t] = via[t]
        /\ token[t] \in Certs /\ token[t] = remote_cert[via[t]]

AnnounceInv ==
    \A c \in Socks : \A t \in Announced(c) :
        /\ pc[t] = "done" /\ via[t] = c
        /\ token[t] \in Certs /\ token[t] = remote_cert[c]

SpliceInv ==
    /\ SpliceExclusive
    /\ \A s \in Socks :
          pc[s] = "spliced" => via[s] # None /\ token[s] \in told[via[s]]

FreshInv == \A s \in Socks : pc[s] \in {"none", "token"} => token[s] = None

OnceInv ==
    \A c \in Socks :
        /\ writing[c] \notin told[c] /\ mail[c] \notin told[c]
        /\ mail[c] # None => mail[c] # writing[c]

RelayInv ==
    /\ AuthInv /\ RegistryInv /\ FreshInv /\ DialInv /\ ParkInv
    /\ AnnounceInv /\ OnceInv /\ SpliceInv /\ NotifyNotLost

\* If clients read their control streams, a dialling task never stays stuck
\* behind a full channel: it is sent, or fails when the control ends (510).
NotifyEnds == ClientsRead => \A s \in Socks : (pc[s] = "notify") ~> (pc[s] = "done")

\* If clients read their control streams, a control that is no longer the
\* registered one ends: its sender is dropped and its loop with it (581-582).
Superseded(c) == pc[c] = "serving" /\ \A k \in Certs : control_channels[k] # c
SupersededEnds == ClientsRead => \A c \in Socks : Superseded(c) ~> (pc[c] = "done")

\* A dropped relay lets go of every task and every socket, parked ones
\* included, without any help from its clients (199-203, 501-506).
ShutdownDrains == term ~> Drained

\* While its control stream is up, the digest of a client stays registered:
\* it may pass to a newer stream, but is not forgotten (570-592).
RegistrationKept ==
    [][\A k \in Certs, c \in Socks :
          control_channels[k] = c /\ ReceiverAlive(c) /\ ReceiverAlive(c)'
              => control_channels'[k] # None]_vars

\* The sockets the relay has open: those of its tasks, the parked ones, and
\* the ones taken over by a splice.
OpenSockets ==
    Tasks \cup {t \in Socks : pending_tokens[t] # None}
          \cup {token[s] : s \in {r \in Socks : pc[r] = "spliced"}}

\* No more connections are open than max_inbound_connections (100-101).
InboundBounded == Cardinality(OpenSockets) <= MaxInbound
=============================================================================
