# A verification of tx3

tx3 (`crates/tx3`) gives peers authenticated TLS connections, directly over
TCP or through a relay. This directory holds TLA+ models of its concurrent
parts, TLC configurations that check them, and TLAPS proofs about them. Line
numbers are those of the files in `crates/tx3/src/`.

    tlc -config Relay.cfg MCRelay            # any run of the table below
    tlapm RelayProofs.tla                    # any *Proofs module

## 1. The system

| part | state | operations | interacts with |
|---|---|---|---|
| Relay server (`relay.rs`) | `RelayState` behind a mutex: `control_channels`, `control_addrs`, `pending_tokens`; three kinds of semaphore; one task per connection, one timer per parked socket | accept loop, `process_socket`, `process_relay_control` and its loop, the timer of `PendingInfo`, drop | nodes over TCP, `Term`, TLS |
| Relay configuration (`relay.rs`, `config.rs`) | limits and timeout | builders, serde | relay |
| `Term` (`util.rs`) | a flag and an event, shared by clones | `term`, `on_term`, `spawn*` | every task of relay and node |
| Starting a relay (`relay.rs`) | listeners, one accept loop each | `new`, drop | the host's addresses, other relays, `Term` |
| `Tx3Node` (`node.rs`) | one Term, one channel of capacity 1, a task per bind | `new`, `recv`, `accept`, `connect`, clone, drop | relay, peers, application |
| `Tx3Connection`, TLS (`connection.rs`, `tls.rs`) | a stream and the digest of its peer | handshake, read, write | node, relay |
| TCP options (`tcp.rs`) | none | configure, connect | node, relay |
| Addresses (`addr.rs`) | none | url parsing and printing, choice of advertised addresses | node, relay |
| `tx3-relay` (`bin/tx3_relay.rs`) | a config file | init, run | relay |

What is hard, and what correctness means:

* **Relay.** Tasks interleave at every await. A control stream can be replaced
  by a newer one of the same client, and end at any time while peers dial it,
  wait in its channel, or are parked behind it. A timer races with the claim
  of a splice token. Permits move between tasks, maps and timers. Shutdown
  drops tasks at whatever await they are in. Correct means: the registry names
  live controls under the right digest; counts and permits are exact; a parked
  socket is used once; a peer is announced to, and joined through, the client
  it dialled; no notification is lost; nothing survives shutdown.
* **Term.** The flag and the event are two objects; a task that looks at one
  and sleeps on the other can miss the signal. Correct means: it never does.
* **Node.** Binds fail one by one, tasks block on a channel the application
  may not read, and any clone's drop ends everything. Correct means:
  connections arrive once, in order; the end of the stream is final; few
  connections are swallowed; nothing stays stuck.
* **Starting a relay.** Several binds run at once, and one that fails does not
  undo the others. Correct means: a relay that was returned listens
  everywhere, one that failed never blocks all its addresses, one that was
  dropped gives them back.
* **A connection through a relay.** Four connections and two handshakes of two
  nodes and a relay, none of which sees the whole. Correct means: both ends
  agree on who is at the other end, and every dial and accept ends.
* **The control stream.** Frames pass through buffers of TLS and TCP that cut
  them anywhere. Correct means: the node stays in step, hears of every peer in
  order and with the right address.
* **Addresses.** What is published passes through the choice of interfaces,
  a url, and a dialler that works through it. Correct means: the preferred
  addresses are published, no text on the way changes them, and a dialler
  tries places where somebody listens.
* **`tx3-relay`.** Processes share a file, can be killed at any point, and
  write through a thread that finishes later. Correct means: a reported success
  is usable, a relay runs only under a whole certificate, none is overwritten.

The components and the hazards of this code, each at its line with the
properties that watch it, are listed in `PROJECT.json`.

## 2. The modules

    Rendezvous <-- RelayRendezvous --> Relay          abstract, mapping, detailed
        ^               MCRelay                       for TLC
        +-- Tunnel                                    nodes composed with it
                    RelayProofs                   permits, safety, refinement
    RelayStart                 MCRelayStart, RelayStartProofs
    Termination <-- Term       MCTerm, TermProofs
    Node                       NodeProofs
    Tunnel                     TunnelProofs
    Addr <-- ControlStream --> NotificationQueue      MCControlStream, ControlStreamProofs
    Addr <-- Discovery                                MCDiscovery, DiscoveryProofs
    RelayCli                   RelayCliProofs

An operator named `X_Y` next to `X` is `X` with a plausible fault `Y`. No
action uses it. It stands beside `X` to show, by putting it in place of `X`,
that a property notices such a fault; `PROJECT.json` pairs them.

### Relay

| variable | code |
|---|---|
| `pc`, `rem_addr`, `token`, `remote_cert`, `via` | where the task of a connection waits, and its locals; `via` is the control whose `ctrl_send` or relay permit the task holds |
| `control_channels`, `control_addrs`, `pending_tokens` | `RelayState` (347-376); the value in `pending_tokens` is the control whose permit `PendingInfo` holds |
| `mail`, `writing`, `told` | the channel of capacity 1 of a control (549), the command its loop is writing, and what its client has read |
| `inbound_limit`, `control_limit`, `relay_limit` | permits left in each semaphore; a control has a relay semaphore of its own (554) |
| `term`, `listening` | the Term was triggered; the accept loops still run |

An action is the code from one await to the next. The mutex is never held
across an await, so each visit of `RelayState` is within one action.

| action | code |
|---|---|
| `Accept`, `DropAtAccept` | accept loop, 305-339 |
| `TokenTimeout`, `OpenControl`, `DialControl`, `ClaimSplice`, `DropSocket` | reading the token and looking it up, 395-493 |
| `PendingTimeout` | the timer of a parked socket, 496-508 |
| `SendNotify`, `SendFails` | `ctrl_send.send`, 510-512 |
| `SpliceEnds` | `copy_bidirectional`, 514-522 |
| `HandshakeFails`, `RegisterOverIp`, `Register` | 540-593 |
| `AllClear`, `RecvCmd`, `WriteDone`, `SendersGone`, `StreamEnds` | the control loop, 622-674 |
| `Teardown` | cleanup after the loop, 595-620 |
| `RelayDrop`, `StopListening`, `Cancel` | drop of `Tx3Relay` (199-203), `Term::spawn` (`util.rs` 58-75) |

Abstractions, and why they are sound:

* A connection is a member of `Socks`, used once. A client that returns does so
  on another member. The 32 random bytes of a splice token are the parked
  connection itself; clients know only tokens that they were told, the public
  digests, and bytes that match nothing (`None`).
* Time is left out: a timeout may fire whenever its task waits. Every real
  timing is among those behaviours.
* Permits are released with the step that ends their holder: no await lies
  between the two in the code.
* `WriteDone` is the delivery of a notification to the client, at any later
  time: the network and the client's pace are in that delay.
* All binds of one relay share the state and the semaphores, so one accept
  step for all of them has the same behaviours.
* `RelayState` holds `Arc`s whose last drop frees memory only; it is not
  modelled.

`Rendezvous` is what the relay promises with no tokens, tasks, channels or
permits: connections open, authenticate as a digest, dial a digest, are offered
to a control of that digest, and join one to one. `RelayRendezvous` maps the
relay's state to it.

### Term

Each access to a flag or an event is a step of its own: `Store` and `Notify`
(33-37), `Listen` in the spawning thread (45-49), `CheckFlag` once and then
`PollListener` at each poll (50-55), with the other branches of `select!` in
any order and each poll started by a wake-up. A task may have two terms
(`spawn2`). The event of the `event_listener` crate is external: notify
reaches every listener registered before it, and its fences order it with the
flag. The term's callback is never set by this code. `Termination` is the
promise: a task is dropped only after one of its terms was triggered, and
then it is dropped at last. The action `Cancel` in `Relay` and in `Node` uses
exactly that.

### Node

`BindOk`, `RelayAddrFails`, `BindFails`, `BindPanics`, `NewOk` are the futures
that `new` joins (140-159, 254-340): the first failure drops the pending ones
and the receiver, but not a task that was spawned. `Take`, `Send`, `SendFails`,
`ControlEnds`, `Cancel` are the loop of a bind's task (267-301, 362-412); `Recv`,
`RecvNone`, `DropInbound`, `Accept`, `CloneNode`, `DropNode` are the
application. The errors that `new` returns before it binds anything have no
effect and are left out. `MaxAddrs` is how many addresses a relay's name
resolves to; `MaxClones` bounds the live clones.

### RelayStart

Calls of `Tx3Relay::new` on one host. `StartsToBind` and `LookupFails` are the
loop over `config.bind` (230-256), `BindOk`, `BindFails`, `NewOk` the futures of
`try_join_all` (258-276, 289-342), `CallerDrops` a caller that drops the future of
`new`, `DropRelay` and `LoopEnds` the drop (199-203) and the Term. `held` is the
listener's owner per address: the loop that a bind spawned. The Term of a call
that failed is never triggered, so its loops stay; what such a call cannot do
is hold *all* its addresses (`FailedHoldsNotAll`).

### Tunnel

Nodes (`node.rs`, `connection.rs`, `tls.rs`) composed with `Rendezvous`, which
`Relay` implements, so that what holds here holds of the relay's code. `owner`,
`use` and `token` are what a node opened a connection for and sends first;
`met`, `said`, `call` and `remote` follow the handshake of the two joined ends.

| action | code |
|---|---|
| `BindRelay`, `ConnectTo`, `AcceptPeer` | the three ways to use a relay: `node.rs` 336-360, 425-433, 246-252 |
| `RelayAuthenticates`, `RelayParks`, `RelayOffers`, `RelayJoins`, `RelayDrops`, `RelayParts` | steps of `Rendezvous` |
| `ServerSpeaks`, `ClientUp`, `ServerUp`, `Rejects` | `priv_accept`, `priv_connect` (`connection.rs` 22-46, 100-114) and the two verifiers of `tls.rs` |
| `SeesClose`, `AppLeaves` | the relay or the application closes |

TLS is external: an end gets what the end it is joined to sent, and its
certificate is that end's. Nodes in `Foreign` have a certificate of another
authority than the one compiled into `tls.rs`.

### ControlStream

The bytes of a control stream between `process_relay_control_inner` (649-666)
and the read loop of `bind_tx3_rst_inner` (362-409). `Encode` and `Decode` are
the two conversions, octet by octet; the bytes of a frame move one by one or
many at a time through `out` (what `write_all` has left), `tls`, `tcp` and `buf`
(`read_exact`). A splice token, 32 octets that neither end looks into, is one
byte of the model, so a frame has `FrameLen` = 19 of them. `NotificationQueue`
is the promise: the node hears of the peers in order, once each, with the
address each dialled from (`Canonical`: an ipv4-mapped address stands for the
ipv4 one).

### Addr and Discovery

`Addr` has `addr.rs` as operators: `FromUrl` and `ToUrl` (a path is a sequence of
words and slashes), `IsGlobal` on octets and segments, `UpgradeAddr` as the
fold of its loop. `Discovery` puts them to use: `RelayNew` and `NodeNew` publish
(the url is a text), `Learn` and `HandOn` pass it on, `Connect`, `NextStack`,
`StackFails`, `AddrFails`, `AddrConnects` are `Tx3Node::connect` (171-220). The
property about publishing does not restate the masks of `addr.rs`: it gives
the special blocks as prefixes and the preference as a selection.

An address as text is the word `IpWord(ip)`, of which `TextAssumption` says what
the `Display` and `FromStr` of the standard library guarantee: it is read back as
that address, holds no slash and is not a host name. `BindsAssumption` says that
there is one relay: a node's other urls hold no `rst` stack.

### RelayCli

Processes that run `tx3-relay --init` or `tx3-relay` on one path, in
`bin/tx3_relay.rs`. `InitCreates`, `InitWrites`, `InitRestricts`, `InitReports`,
`InitFails` are `run_init` (196-259); `RunOpens`, `RunChecksMode`, `RunReads`,
`RunParses`, `RunServes`, `RunFails` are `read_config` and what follows (87-193).
`LandSome`, `LandAll`, `LandFails` are the thread that writes for a tokio `File`:
`write_all` returns before the bytes are in the file. `Kill` and `OperatorDeletes`
are the environment; an open file outlives its path.

## 3. What the runs check

| run | module, cfg | instance | states | shows |
|---|---|---|---|---|
| relay | MCRelay, Relay | 4 connections, 2 digests, 2 ips; limits 3, 3, 2, 2 | 239k | `ControlConserved`, `PerIpCount`, `RegistrySound`, `InboundConserved`, `RelayConserved`, `SpliceExclusive`, `RoutedToDialled`, `NotifyNotLost`; the relay implements `Rendezvous` |
| relay_liveness | MCRelay, RelayLiveness | 3 connections, 1 digest | 15k | `NotifyEnds`, `SupersededEnds`, `ShutdownDrains` |
| relay_start | MCRelayStart, RelayStart | 4 calls of `new`, 3 addresses | 12k | `OkListens`, `FailedHoldsNotAll`, `DroppedReleases`, `TypeOK` |
| term | MCTerm, Term | 2 terms, a task with one and a task with both, 2 callers | 46k | `NoLostWakeup`; Term implements `Termination`, its liveness included |
| node | Node, Node | a listener and a relay bind, 3 connections, 2 addresses, 2 clones | 184k | `InboundExact`, `DrainedForGood`, `SwallowedBounded`, `NodeStops`, `HeldResolved` |
| tunnel | Tunnel, Tunnel | 3 nodes, one of another authority, 3 connections | 371k | `ReachesDialled`, `AcceptedWasDialled`, `OnlyKnown`, `CallsEnd` |
| control_stream | MCControlStream, ControlStream | 2 frames of 19 bytes, 4 kinds of peers, buffers of 8 and 21 bytes | 69k | `NothingLost`, `AllButBuffered`; the stream implements `NotificationQueue` |
| discovery | MCDiscovery, Discovery | 23 hosts for the relay, 54 addresses at the edges of the blocks, 2 hosts for the node, up to 2 binds, 14 odd urls | 111k | `PublishesPreferred`, `HandedOn`, `DialsListening`, `DialOrder`, `TypeOK` |
| relay_cli | RelayCli, RelayCli | 3 processes | 256k | `ReportedIsUsable`, `ServesWhole`, `SettledStays`, `ReportedIsAccepted`, `CommandsEnd` |
| relay_registration_kept | MCRelay, RelayRegistrationKept | 2 connections | | a violation, see 5 |
| relay_inbound_bounded | MCRelay, RelayInboundBounded | 3 connections, limit 2 | | a violation, see 5 |
| control_stream_forwarded | MCControlStream, ControlStreamForwarded | 3 frames of one peer, buffers of 30 and 19 bytes | | a violation, see 5 |

The order of the relay's limits is inbound, control streams, control streams per
ip, relays per control. The type invariants of `Relay`, `Term`, `Node`, `Tunnel` and
`RelayCli` are proved (section 4) and not repeated in the runs.

**Bounds.** In the relay, connections are the only unbounded thing; each lives
once, so a run with *n* of them covers every history of *n* connections. Four
suffice for a registry in which a control is replaced, the replacement is
replaced, and one of another digest stands beside them, for a control with two
peers so that the slot of the channel is full, and for a dial with a claim while
the control is replaced; limits of 2 and 3 are reached. Three are enough for
each liveness property to have its obstacle: a full channel needs a control and
two peers, a superseded control needs its successor and a peer that holds a
sender. In `Node`, three connections are one more than `SwallowedBounded` allows
of one bind, so the bound can be exceeded. In `Term`, the hard interleavings are
between one caller, one task and one flag; the second of each adds repeated
calls and `spawn2`. In `Tunnel`, a relayed connection takes three connections, a
control, a dial and an accept, which any of three nodes may open in any order; a
fourth adds a replaced control, which the theorems cover. In `ControlStream`,
both buffers are smaller than what is sent, neither is a multiple of a frame,
and every cut of a frame occurs; two frames show whether the node stays in step
after the first. `RelayCli` needs an init, a second init after a deletion, and a
run. In `RelayStart` four calls overlap in one, two and three addresses. Where a
property of a run is also a theorem, the small instance is only the cheap first
check. Connections, digests and ips of the relay are interchangeable, hence the
symmetry in its safety run; runs that check liveness use none.

**Deadlock** is checked in the relay, where a terminated system stutters
(`Terminated`) only when nothing is left to do, and in Term. Elsewhere it is not:
in those instances every connection, call, process or frame has come and gone
in the end, and the system waits for more. That nothing is stuck before that
is what `NodeStops`, `HeldResolved`, `CallsEnd`, `AllButBuffered`,
`DroppedReleases` and `CommandsEnd` state.

**Fairness.** `RelayFairness` has what the runtime does without the clients:
a timer fires, a runnable task is polled, a task to be dropped is dropped. It
leaves out whatever a client decides: to connect, to send, to finish a
handshake, to read, to close a splice. That clients read their control streams
(`ClientsRead`), and that an application receives (`AppReceives`), are
hypotheses of the properties that need them: without the first, a dialling
task does wait for ever on a control whose client does not read (510 has no
timeout). `FairSpec` of the others:

* Term: a begun `term()` ends and woken tasks are polled. Node: the runtime
  polls its tasks. RelayStart: a loop whose Term was triggered is dropped.
* Tunnel: the relay looks at what a connection sent and ends a parked peer when
  its time is over (the timer of `PendingInfo`), and the two ends are polled. No
  node has to dial, accept or stay.
* ControlStream: the relay's write is polled when the socket takes more, and
  the node reads on, as it does while the application receives.
* RelayCli: a process that has started is scheduled, and its thread ends the
  write, well or badly. None has to start.

Weak fairness is enough: an enabled step of these stays enabled until it is
taken or made moot, except for several senders that compete for one slot.
There the code relies on the order in which tokio queues senders; with
connections that come once, competition is finite and weak fairness gives the
same.

## 4. What is proved

For every value of the constants that satisfies the named assumptions
(finitely many connections; digests, connections and `None` distinct; limits
natural numbers; for the last two rows those of `ControlStream` and `Discovery`
about peers, texts and binds):

| theorem | module | says |
|---|---|---|
| `RelayTypeOK` | RelayProofs | types; no semaphore is overdrawn |
| `RelaySafety` | RelayProofs | `RelayInv` is an invariant |
| `RelayRegistrySound`, `RelaySpliceExclusive`, `RelayRoutedToDialled`, `RelayNotifyNotLost` | RelayProofs | the four properties of the runs |
| `RelayInboundConserved`, `RelayControlConserved`, `RelayPerIpCount`, `RelayPermitsConserved` | RelayProofs | permits and counts are exact |
| `RelayImplementsRendezvous` | RelayProofs | every behaviour of `Relay` is one of `Rendezvous` |
| `StartTypeOK`, `StartOkListens`, `StartFailedHoldsNotAll` | RelayStartProofs | a returned relay listens everywhere; a failed one never blocks all its addresses |
| `TermTypeOK`, `TermSignals`, `TermNoLostWakeup`, `TermImplementsSafety` | TermProofs | no lost wake-up; Term implements the safety part of `Termination` |
| `NodeTypeOK`, `NodeInboundExact`, `NodeDrainedForGood`, `NodeSwallowedBounded` | NodeProofs | connections arrive once and in order; the end of the stream is final; what is swallowed is bounded, in all and per bind |
| `TunnelTypeOK`, `TunnelReachesDialled`, `TunnelAcceptedWasDialled`, `TunnelOnlyKnown` | TunnelProofs | both ends of a relayed connection agree; no other authority gets in |
| `CliTypeOK`, `CliReportedIsUsable`, `CliReportedIsAccepted`, `CliServesWhole`, `CliSettledStays` | RelayCliProofs | the file of a reported init is usable and no run that opens it is refused, a relay serves a whole certificate, a settled file stays |
| `StreamDecodesEncoded`, `StreamNothingLost`, `StreamImplementsQueue` | ControlStreamProofs | a frame is read back as its peer; the node stays in step; the stream implements `NotificationQueue` |
| `AddrRoundTrip`, `GlobalSpecial`, `UpgradeIsPreferred`, `DiscoveryTypeOK`, `DiscoveryHandedOn`, `DiscoveryPublishesPreferred`, `DiscoveryDialsListening`, `DiscoveryDialOrder` | DiscoveryProofs | printing and parsing, `ext_is_global` and `upgrade_addr` for every input; the five properties of the run |

Every invariant that a run checks is a theorem, and so are its safety properties of
steps and behaviours (`HandedOn`, `SettledStays`, `ReportedIsAccepted`) and each
refinement, that of `Termination` without its liveness.

**The invariant of the relay.** None of the four safety properties is inductive
alone. That a splice is routed to the dialled client depends on what its
control was told, which depends on what was in the channel, which depends on
which control the peer found when it dialled and on the digest that control
had authenticated with. `RelayInv` fixes this chain at each place a peer can be:
`DialInv` (about to notify), `ParkInv` (parked), `AnnounceInv` (queued, being
written, told), `SpliceInv` (claimed). `AuthInv` and `FreshInv` say that a
digest or a token, once set, is not set again; `OnceInv` that a peer is
announced once; `RegistryInv` is the part of `RegistrySound` that also holds
after shutdown. The proof that `Next` keeps it has one step per action and,
below it, one per conjunct the action can disturb.

**Permits** are proved with the sets of their holders: each action adds or
removes at most one member of `Tasks`, `ControlTasks`, `RelayHolders(c)` or the
controls of an ip, and the semaphore moves the other way. The per-ip count
needs in addition that no control is counted twice and that the branch of
`UncountControl` that avoids an underflow is never needed before shutdown.

**Refinement.** `Mapping` restates the mapping of `RelayRendezvous` without
CHOOSE, from `SpliceExclusive` and `ParkInv`; then each action is one abstract
action or none.

**The invariant of RelayStart**, `StartInv`. `HeldInv` ties a held address to a
bind that succeeded, and every such bind of a live call to the address it holds;
`FutInv` says that a call that failed had one bind that was not done. That
bind's address is the one `FailedHoldsNotAll` speaks of: no later step of the
call can make it held.

**The invariant of Term**, `SignalInv`, says for each on_term future how far
it got and why it cannot be forgotten: not yet polled - then a poll is due; saw
a clear flag - then it is in the middle of a poll; armed - then a term that
was stored has signalled it or is about to, and a signal has woken it.

**The invariants of Node.** `StreamInv` adds to the types that a pending bind has
no task and that `recv` returns None only after `new` returned: without that a
bind could still spawn a sender after the end. `SwallowInv` counts what is lost by
naming it: there are a connection `x`, that of the channel, and for each bind a
connection `f[b]`, its last, such that everything taken and not received is one
of these (`AccountedBy`). Each step moves or drops a name and none is needed
twice, so the cardinality follows from that of the binds. `OrderInv` is about the
order: what was received, what is in the channel and what a task holds are, of
each bind, the first of what it took (`FirstOf` names their places). A step
extends the places by one (`FirstOfNext`), leaves them (`FirstOfOther`, a
connection of another bind) or cuts them off (`FirstOfPrefix`).

**The invariant of Tunnel.** `KnownInv` ties what the relay knows of a connection
to what its owner opened it for, and an accept to a peer that dialled its owner;
`LinkInv` says that joined ends are each other's for good; `EndInv` that an end is
up only on what the other sent. Together they turn the relay's promise about
connections into one about identities at both ends.

**The invariant of RelayCli.** `FilesInv`: which file each process has open and
what its mode can be at each step; `DataInv`: a whole content is of the file's own
init and does not change. The second is why a run that read a whole certificate
while the file was being written has the same one as all later runs.
`ReportedIsAccepted` is about one run from its `open` on: `Trusting(p)` says that the
run has the file of a reported init open and where it can be from then on, and
each step keeps it.

**The control stream.** The invariant is `NothingLost` with the types of the
buffers and the fact that what was decoded is `Canonical` of what was sent
(`StreamInv`). A write or a read moves the borders between the parts of one
sequence of bytes; the step that completes a frame needs that the first
`FrameLen` bytes not yet decoded are the frame of the next peer (`NextFrame`), and
`StreamDecodesEncoded`, which is arithmetic on octets: the two halves of a port
or segment, and that exactly the mapped addresses have the octets the node
matches.

**Addresses and dialling.** `AddrRoundTrip` follows what is printed through
`Split`: a text that ends with a slash splits into the segments that were
joined (`SplitUrl`), so pairs come back as pairs. `GlobalSpecial` compares masks and
prefixes octet by octet. `UpgradeIsPreferred` carries the loop's state through
the interfaces (`IsBest`): `out` is exact, `lan` is right as long as `out` is empty,
`loopback` as long as both are. `HostsInv` says what the two urls parse to, in
terms of the addresses on which relay and node accept, so a dialler that parses
one of them tries only these (`DialInv`). `OrderInv` is the loop invariant of
`connect`: for some *k*, the first *k* stacks could all be dialled, what was tried
followed by what is left of the present stack are their addresses, and the other
stacks are to come.

**Induction.** The functions of `Addr` and `Discovery` are recursive, and the
induction theorems of the library take an operator as a parameter, which the
installed provers cannot instantiate. `DiscoveryProofs` therefore has its own,
for a set instead of a predicate: `LeastNumber` comes from the theorem that
strict inclusion orders finite sets well, `Induction`, `UpTo` and `SeqInduction`
from it, and `RecExists` that a recursive function exists. From these follow the
equations by which `Split`, `FlattenSeq`, `Best` and `Those` take one element
more (`SplitAppend`, `FlatAppend`, `BestAppend`, `ThoseAppend`).

The inductive invariants were checked by TLC on the instances of the runs before
they were proved.

Only model-checked: the liveness properties (`NotifyEnds`, `SupersededEnds`,
`ShutdownDrains`, `DroppedReleases`, `NodeStops`, `HeldResolved`, `CallsEnd`,
`AllButBuffered`, `CommandsEnd`) and the liveness part of
`TerminationSpec`, because the prover knows no fairness; and the violations below.

## 5. Where code and text differ

* **A reconnected client is forgotten** (`relay_registration_kept`,
  `relay.rs` 611). The end of a control stream removes what is registered under
  its digest, not its own registration. If a client's new stream registers
  between the end of the old loop and the old cleanup, the new stream has its
  all-clear but cannot be dialled, and ends as soon as its channel has no
  senders. The comments at 577-582 and 592 expect the newer stream to stay.
  `RegistrySound` is what does hold: the registry errs on the empty side.
* **More connections than `max_inbound_connections`** (`relay_inbound_bounded`,
  `relay.rs` 526 and 100-101). A dialling connection gives its permit back
  once its notification is sent, and stays open, parked and then spliced.
  `InboundConserved` is what does hold: the limit counts running tasks.

* **A notification may not be forwarded** (`control_stream_forwarded`,
  `relay.rs` 665). `write_all` returns when the TLS session has the bytes; the
  loop does not flush, though it does so for the all-clear (630-631). If the
  socket takes only a part at that moment, the rest stays in the session until
  another peer dials. Lines 29-31 say that the token is forwarded.
  `AllButBuffered` is what does hold.

One more was met and has no run: `Tx3Node::new` binds once for each stack of
a relay's url (`node.rs` 89-127), and every such bind publishes all stacks of that
url (328-334). With a relay of *k* addresses each is published *k* times, where
`relay.rs` 22-24 says that the client takes the relay's url and replaces the
digest. `Discovery` models it as it is (`BindStack`); repeated addresses do not
disturb its properties.

## 6. Not modelled

* The cryptography of TLS, tickets and cipher suites: a handshake fails or
  yields the certificate of the other end. Direct (`st`) connections handshake
  in the same way and have no third party; `Tx3Node::connect` does not compare
  the digest it dialled with the one it got there, and no property speaks of it.
* TCP options: they fail or not, at the place where the code sees it.
* Ports, and urls with an authority, a query, a fragment or dot segments.
* A crash of the whole machine: `run_init` does not sync, so what `RelayCli` says
  of a reported init is about processes that are killed.
* The accept loop after a persistent error (`relay.rs` 308): it goes on at once;
  what that costs is load and not a state.
* A limit on the relays of one client over several control streams (`relay.rs`
  554): the semaphore is per stream, as documented.
* Defaults and serialization of configurations, parsing of the command line,
  logging. `tx3_pool` is empty.

## 7. What could follow

1. `Node` composed with `Tunnel`: an application that stops receiving, seen by a
   dialler whose parked peer times out.
2. A disk under `RelayCli`, with unsynced bytes that a crash of the machine takes.
