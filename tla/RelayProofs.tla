---------------------------- MODULE RelayProofs ----------------------------
(***************************************************************************)
(* Proofs about the relay, for any number of connections, digests,         *)
(* addresses and any limits: types; the registry, the parked peers, the    *)
(* notifications and the splices; the permits; and that the relay          *)
(* implements the rendezvous.                                              *)
(***************************************************************************)
EXTENDS RelayRendezvous, FiniteSetTheorems, TLAPS

-----------------------------------------------------------------------------
(* Type correctness.                                                       *)

\* An update of a function keeps its type, also outside its domain (the maps
\* of RelayState and the channels are indexed by what a task holds).
LEMMA UpdateType ==
    ASSUME NEW S, NEW T, NEW f \in [S -> T], NEW x, NEW y, x \in S => y \in T
    PROVE  [f EXCEPT ![x] = y] \in [S -> T]
  OBVIOUS

\* A counter that is incremented stays a natural number.
LEMMA IncrementType ==
    ASSUME NEW S, NEW f \in [S -> Nat], NEW x
    PROVE  [f EXCEPT ![x] = @ + 1] \in [S -> Nat]
<1>1. x \in S => f[x] + 1 \in Nat
  OBVIOUS
<1> QED
  BY <1>1, UpdateType

\* The relay starts with well-typed variables (Tx3Relay::new).
LEMMA TypeInit == Init => TypeOK
<1> SUFFICES ASSUME Init PROVE TypeOK
  OBVIOUS
<1>1. /\ pc \in [Socks -> PCs]
      /\ rem_addr \in [Socks -> Ips \cup {None}]
      /\ token \in [Socks -> Certs \cup Socks \cup {RelayCert, None}]
      /\ remote_cert \in [Socks -> Certs \cup {None}]
      /\ via \in [Socks -> Socks \cup {None}]
  BY DEF Init, PCs
<1>2. /\ control_channels \in [Certs -> Socks \cup {None}]
      /\ control_addrs \in [Ips -> Nat]
      /\ pending_tokens \in [Socks -> Socks \cup {None}]
      /\ mail \in [Socks -> Socks \cup {None}]
      /\ writing \in [Socks -> Socks \cup {None}]
      /\ told \in [Socks -> SUBSET Socks]
  BY DEF Init
<1>3. inbound_limit \in Nat /\ control_limit \in Nat /\ relay_limit \in [Socks -> Nat]
  BY LimitsAssumption DEF Init
<1> QED
  BY <1>1, <1>2, <1>3 DEF Init, TypeOK

\* No step of the accept loop, of a task, of a timer or of shutdown breaks
\* the type of a variable; no semaphore is overdrawn.
LEMMA TypeNext == TypeOK /\ [Next]_vars => TypeOK'
<1> SUFFICES ASSUME TypeOK, [Next]_vars PROVE TypeOK'
  OBVIOUS
<1> USE DEF TypeOK
<1>1. ASSUME NEW s \in Socks, NEW ip \in Ips, Accept(s, ip) PROVE TypeOK'
  BY <1>1 DEF Accept, TakeInbound, Goto, PCs, state, chans, life
<1>2. ASSUME NEW s \in Socks, DropAtAccept(s) PROVE TypeOK'
  BY <1>2 DEF DropAtAccept, Goto, PCs, locals, state, chans, limits, life
<1>3. ASSUME NEW s \in Socks, TokenTimeout(s) PROVE TypeOK'
  BY <1>3 DEF TokenTimeout, End, Goto, PCs, locals, state, chans, life
<1>4. ASSUME NEW s \in Socks, OpenControl(s) PROVE TypeOK'
  BY <1>4 DEF OpenControl, Goto, PCs, state, chans, life
<1>5. ASSUME NEW s \in Socks, NEW k \in KnownTokens, DropSocket(s, k) PROVE TypeOK'
  BY <1>5 DEF DropSocket, End, Goto, PCs, locals, state, chans, life
<1>6. ASSUME NEW s \in Socks, NEW k \in Certs, DialControl(s, k) PROVE TypeOK'
  BY <1>6 DEF DialControl, Park, Goto, PCs, chans, life
<1>7. ASSUME NEW s \in Socks, NEW t \in Socks, ClaimSplice(s, t) PROVE TypeOK'
  BY <1>7 DEF ClaimSplice, Unpark, Goto, PCs, chans, limits, life
<1>8. ASSUME NEW s \in Socks, PendingTimeout(s) PROVE TypeOK'
  BY <1>8 DEF PendingTimeout, Unpark, GiveRelayPermit, locals, chans, life
<1>9. ASSUME NEW s \in Socks, SendNotify(s) PROVE TypeOK'
  <2>1. mail' \in [Socks -> Socks \cup {None}]
    BY <1>9, UpdateType DEF SendNotify
  <2> QED
    BY <1>9, <2>1 DEF SendNotify, End, Goto, PCs, locals, state, life
<1>10. ASSUME NEW s \in Socks, SendFails(s) PROVE TypeOK'
  BY <1>10 DEF SendFails, End, Goto, PCs, locals, state, chans, life
<1>11. ASSUME NEW s \in Socks, SpliceEnds(s) PROVE TypeOK'
  <2>1. relay_limit' \in [Socks -> Nat]
    BY <1>11, IncrementType DEF SpliceEnds, GiveRelayPermit
  <2>2. pc' \in [Socks -> PCs] /\ inbound_limit' \in Nat
    BY <1>11 DEF SpliceEnds, End, Goto, PCs
  <2> QED
    BY <1>11, <2>1, <2>2 DEF SpliceEnds, locals, state, chans, life
<1>12. ASSUME NEW s \in Socks, HandshakeFails(s) \/ RegisterOverIp(s) PROVE TypeOK'
  BY <1>12 DEF HandshakeFails, RegisterOverIp, EndControl, End, Goto, PCs,
               locals, state, chans, life
<1>13. ASSUME NEW s \in Socks, NEW k \in Certs, Register(s, k) PROVE TypeOK'
  <2>1. control_addrs' \in [Ips -> Nat]
    BY <1>13, IncrementType DEF Register, CountControl
  <2>2. /\ remote_cert' \in [Socks -> Certs \cup {None}]
        /\ control_channels' \in [Certs -> Socks \cup {None}]
        /\ pc' \in [Socks -> PCs]
    BY <1>13 DEF Register, Goto, PCs
  <2> QED
    BY <1>13, <2>1, <2>2 DEF Register, chans, limits, life
<1>14. ASSUME NEW s \in Socks, AllClear(s) PROVE TypeOK'
  BY <1>14 DEF AllClear, Goto, PCs, locals, state, chans, limits, life
<1>15. ASSUME NEW s \in Socks, RecvCmd(s) PROVE TypeOK'
  BY <1>15 DEF RecvCmd, locals, state, limits, life
<1>16. ASSUME NEW s \in Socks, WriteDone(s) PROVE TypeOK'
  BY <1>16 DEF WriteDone, locals, state, limits, life
<1>17. ASSUME NEW s \in Socks, SendersGone(s) \/ StreamEnds(s) PROVE TypeOK'
  BY <1>17 DEF SendersGone, StreamEnds, DropReceiver, Goto, PCs, locals, state,
               limits, life
<1>18. ASSUME NEW s \in Socks, Teardown(s) PROVE TypeOK'
  <2>1. control_addrs' \in [Ips -> Nat]
    <3>1. ASSUME NEW n \in Nat PROVE (IF n > 0 THEN n - 1 ELSE 0) \in Nat
      OBVIOUS
    <3> QED
      BY <1>18, <3>1 DEF Teardown, UncountControl
  <2>2. control_channels' \in [Certs -> Socks \cup {None}]
    BY <1>18, UpdateType DEF Teardown, Unregister
  <2> QED
    BY <1>18, <2>1, <2>2 DEF Teardown, EndControl, End, Goto, PCs, locals, chans, life
<1>19. ASSUME NEW s \in Socks, Cancel(s) PROVE TypeOK'
  BY <1>19 DEF Cancel, EndControl, End, Goto, GiveRelayPermit, DropReceiver,
               PCs, locals, state, chans, life
<1>20. CASE RelayDrop
  BY <1>20 DEF RelayDrop, locals, state, chans, limits
<1>21. CASE StopListening
  BY <1>21 DEF StopListening, locals, state, chans, limits
<1>22. CASE UNCHANGED vars
  BY <1>22 DEF vars, locals, state, chans, limits, life
<1> QED
  BY <1>1, <1>2, <1>3, <1>4, <1>5, <1>6, <1>7, <1>8, <1>9, <1>10, <1>11, <1>12,
     <1>13, <1>14, <1>15, <1>16, <1>17, <1>18, <1>19, <1>20, <1>21, <1>22
     DEF Next, Terminated

\* Every reachable state of the relay is well typed: no permit counter is
\* negative, RelayState and the locals of the tasks hold what they should.
THEOREM RelayTypeOK == Spec => []TypeOK
<1> QED
  BY TypeInit, TypeNext, PTL DEF Spec

-----------------------------------------------------------------------------
(* Safety.  The registry, the parked peers, the notifications and the       *)
(* splices stay consistent.  RelayInv is inductive; none of the properties  *)
(* that follow from it is: that a claimed peer has finished its own task,   *)
(* say, needs that only announced tokens are known and that a peer is       *)
(* announced when its task ends.                                            *)

\* In the initial state nothing is registered, parked, announced or spliced.
LEMMA SafetyInit == Init => RelayInv
  BY DEF Init, RelayInv, AuthInv, RegistryInv, FreshInv, DialInv, ParkInv,
         AnnounceInv, Announced, OnceInv, SpliceInv, SpliceExclusive,
         NotifyNotLost

\* Every step of the relay preserves the invariant.
LEMMA SafetyNext == TypeOK /\ RelayInv /\ [Next]_vars => RelayInv'
<1> SUFFICES ASSUME TypeOK, RelayInv, [Next]_vars PROVE RelayInv'
  OBVIOUS
<1> USE DEF TypeOK, RelayInv, Goto, End, EndControl, locals, state, chans, limits,
            life
<1>1. ASSUME NEW s \in Socks, NEW ip \in Ips, Accept(s, ip) PROVE RelayInv'
  BY <1>1 DEF Accept, AuthInv, Authenticated, RegistryInv, Registered,
     FreshInv, DialInv, ParkInv, AnnounceInv, Announced, OnceInv, SpliceInv,
     SpliceExclusive, NotifyNotLost, ReceiverAlive
<1>2. ASSUME NEW s \in Socks, DropAtAccept(s) PROVE RelayInv'
  BY <1>2 DEF DropAtAccept, AuthInv, Authenticated, RegistryInv, Registered,
     FreshInv, DialInv, ParkInv, AnnounceInv, Announced, OnceInv, SpliceInv,
     SpliceExclusive, NotifyNotLost, ReceiverAlive
<1>3. ASSUME NEW s \in Socks, TokenTimeout(s) PROVE RelayInv'
  BY <1>3 DEF TokenTimeout, AuthInv, Authenticated, RegistryInv, Registered,
     FreshInv, DialInv, ParkInv, AnnounceInv, Announced, OnceInv, SpliceInv,
     SpliceExclusive, NotifyNotLost, ReceiverAlive
<1>4. ASSUME NEW s \in Socks, OpenControl(s) PROVE RelayInv'
  BY <1>4 DEF OpenControl, AuthInv, Authenticated, RegistryInv, Registered,
     FreshInv, DialInv, ParkInv, AnnounceInv, Announced, OnceInv, SpliceInv,
     SpliceExclusive, NotifyNotLost, ReceiverAlive
<1>5. ASSUME NEW s \in Socks, NEW k \in KnownTokens, DropSocket(s, k) PROVE RelayInv'
  BY <1>5 DEF DropSocket, AuthInv, Authenticated, RegistryInv, Registered,
     FreshInv, DialInv, ParkInv, AnnounceInv, Announced, OnceInv, SpliceInv,
     SpliceExclusive, NotifyNotLost, ReceiverAlive
<1>6. ASSUME NEW s \in Socks, NEW k \in Certs, DialControl(s, k) PROVE RelayInv'
  <2>1. DialInv'
    BY <1>6 DEF DialControl, Park, DialInv, RegistryInv, AuthInv,
       Authenticated
  <2>2. ParkInv'
    BY <1>6 DEF DialControl, Park, ParkInv, RegistryInv, AuthInv,
       Authenticated
  <2>3. NotifyNotLost'
    BY <1>6 DEF DialControl, Park, NotifyNotLost, Announced, ReceiverAlive,
       ParkInv, SpliceInv
  <2> QED
    BY <1>6, <2>1, <2>2, <2>3 DEF DialControl, Park, AuthInv, Authenticated,
       RegistryInv, Registered, FreshInv, AnnounceInv, Announced, DialInv,
       OnceInv, SpliceInv, SpliceExclusive, ParkInv
<1>7. ASSUME NEW s \in Socks, NEW t \in Socks, ClaimSplice(s, t) PROVE RelayInv'
  <2>1. ParkInv'
    BY <1>7, CertsAssumption DEF ClaimSplice, Unpark, ToldTokens, ParkInv,
       RegistryInv, AuthInv, Authenticated
  <2>2. SpliceInv'
    BY <1>7, CertsAssumption DEF ClaimSplice, Unpark, ToldTokens, SpliceInv,
       SpliceExclusive, ParkInv, AnnounceInv, Announced
  <2>3. NotifyNotLost'
    BY <1>7, CertsAssumption DEF ClaimSplice, Unpark, ToldTokens,
       NotifyNotLost, Announced, ReceiverAlive, ParkInv
  <2> QED
    BY <1>7, <2>1, <2>2, <2>3, CertsAssumption DEF ClaimSplice, Unpark,
       ToldTokens, AuthInv, Authenticated, RegistryInv, Registered, FreshInv,
       DialInv, AnnounceInv, Announced, OnceInv
<1>8. ASSUME NEW s \in Socks, PendingTimeout(s) PROVE RelayInv'
  <2>1. ParkInv'
    BY <1>8 DEF PendingTimeout, Unpark, ParkInv, RegistryInv, AuthInv,
       Authenticated
  <2>2. SpliceInv'
    BY <1>8 DEF PendingTimeout, Unpark, SpliceInv, SpliceExclusive, ParkInv,
       AnnounceInv, Announced
  <2>3. NotifyNotLost'
    BY <1>8 DEF PendingTimeout, Unpark, NotifyNotLost, Announced,
       ReceiverAlive
  <2> QED
    BY <1>8, <2>1, <2>2, <2>3 DEF PendingTimeout, Unpark, AuthInv,
       Authenticated, RegistryInv, Registered, FreshInv, DialInv, AnnounceInv,
       Announced, OnceInv
<1>9. ASSUME NEW s \in Socks, SendNotify(s) PROVE RelayInv'
  <2>1. DialInv'
    BY <1>9, SocksAssumption DEF SendNotify, SlotFree, DialInv, RegistryInv,
       AuthInv, Authenticated
  <2>2. ParkInv'
    BY <1>9, SocksAssumption DEF SendNotify, SlotFree, ParkInv, RegistryInv,
       AuthInv, Authenticated
  <2>3. AnnounceInv'
    BY <1>9, SocksAssumption DEF SendNotify, SlotFree, AnnounceInv, Announced,
       DialInv, AuthInv, Authenticated
  <2>4. OnceInv'
    BY <1>9, SocksAssumption DEF SendNotify, SlotFree, OnceInv, AnnounceInv,
       Announced
  <2>5. NotifyNotLost'
    BY <1>9, SocksAssumption DEF SendNotify, SlotFree, NotifyNotLost,
       Announced, ReceiverAlive, ParkInv, DialInv, AnnounceInv, AuthInv,
       Authenticated
  <2> QED
    BY <1>9, <2>1, <2>2, <2>3, <2>4, <2>5, SocksAssumption DEF SendNotify,
       SlotFree, AuthInv, Authenticated, RegistryInv, Registered, FreshInv,
       SpliceInv, SpliceExclusive, ParkInv, AnnounceInv, Announced
<1>10. ASSUME NEW s \in Socks, SendFails(s) PROVE RelayInv'
  <2>1. DialInv'
    BY <1>10 DEF SendFails, DialInv, RegistryInv, AuthInv, Authenticated
  <2>2. ParkInv'
    BY <1>10 DEF SendFails, ParkInv, RegistryInv, AuthInv, Authenticated
  <2>3. NotifyNotLost'
    BY <1>10 DEF SendFails, NotifyNotLost, Announced, ReceiverAlive, ParkInv
  <2> QED
    BY <1>10, <2>1, <2>2, <2>3 DEF SendFails, AuthInv, Authenticated,
       RegistryInv, Registered, FreshInv, AnnounceInv, Announced, DialInv,
       OnceInv, SpliceInv, SpliceExclusive, ParkInv
<1>11. ASSUME NEW s \in Socks, SpliceEnds(s) PROVE RelayInv'
  <2>1. SpliceInv'
    BY <1>11 DEF SpliceEnds, SpliceInv, SpliceExclusive, ParkInv, AnnounceInv,
       Announced
  <2> QED
    BY <1>11, <2>1 DEF SpliceEnds, AuthInv, Authenticated, RegistryInv,
       Registered, FreshInv, DialInv, ParkInv, AnnounceInv, Announced,
       OnceInv, NotifyNotLost, ReceiverAlive
<1>12. ASSUME NEW s \in Socks, HandshakeFails(s) \/ RegisterOverIp(s) PROVE RelayInv'
  <2>1. AuthInv'
    BY <1>12 DEF HandshakeFails, RegisterOverIp, AuthInv, Authenticated
  <2>2. RegistryInv'
    BY <1>12 DEF HandshakeFails, RegisterOverIp, RegistryInv, AuthInv,
       Authenticated, Registered
  <2>3. FreshInv' /\ DialInv' /\ ParkInv'
    BY <1>12 DEF HandshakeFails, RegisterOverIp, FreshInv, DialInv, ParkInv,
       RegistryInv, AuthInv, Authenticated
  <2>4. AnnounceInv' /\ OnceInv'
    BY <1>12 DEF HandshakeFails, RegisterOverIp, AnnounceInv, Announced, OnceInv
  <2>5. SpliceInv'
    BY <1>12 DEF HandshakeFails, RegisterOverIp, SpliceInv, SpliceExclusive,
       ParkInv
  <2>6. NotifyNotLost'
    BY <1>12 DEF HandshakeFails, RegisterOverIp, NotifyNotLost, Announced,
       ReceiverAlive
  <2> QED
    BY <2>1, <2>2, <2>3, <2>4, <2>5, <2>6
<1>13. ASSUME NEW s \in Socks, NEW k \in Certs, Register(s, k) PROVE RelayInv'
  <2>1. AuthInv'
    BY <1>13, CertsAssumption, SocksAssumption DEF Register, AuthInv,
       Authenticated
  <2>2. RegistryInv'
    BY <1>13, CertsAssumption, SocksAssumption DEF Register, RegistryInv,
       AuthInv, Authenticated, Registered
  <2>3. DialInv'
    BY <1>13, CertsAssumption, SocksAssumption DEF Register, DialInv,
       RegistryInv, AuthInv, Authenticated
  <2>4. ParkInv'
    BY <1>13, CertsAssumption, SocksAssumption DEF Register, ParkInv,
       RegistryInv, AuthInv, Authenticated
  <2>5. AnnounceInv'
    BY <1>13, CertsAssumption, SocksAssumption DEF Register, AnnounceInv,
       Announced, DialInv, AuthInv, Authenticated
  <2>6. NotifyNotLost'
    BY <1>13, CertsAssumption, SocksAssumption DEF Register, NotifyNotLost,
       Announced, ReceiverAlive, ParkInv, DialInv, RegistryInv, AuthInv,
       Authenticated
  <2> QED
    BY <1>13, <2>1, <2>2, <2>3, <2>4, <2>5, <2>6, CertsAssumption,
       SocksAssumption DEF Register, FreshInv, OnceInv, AnnounceInv,
       Announced, SpliceInv, SpliceExclusive, ParkInv
<1>14. ASSUME NEW s \in Socks, AllClear(s) PROVE RelayInv'
  BY <1>14 DEF AllClear, AuthInv, Authenticated, RegistryInv, Registered,
     FreshInv, DialInv, ParkInv, AnnounceInv, Announced, OnceInv, SpliceInv,
     SpliceExclusive, NotifyNotLost, ReceiverAlive
<1>15. ASSUME NEW s \in Socks, RecvCmd(s) PROVE RelayInv'
  <2>1. AnnounceInv'
    BY <1>15, SocksAssumption DEF RecvCmd, AnnounceInv, Announced, DialInv,
       AuthInv, Authenticated
  <2>2. OnceInv'
    BY <1>15, SocksAssumption DEF RecvCmd, OnceInv, AnnounceInv, Announced
  <2>3. NotifyNotLost'
    BY <1>15, SocksAssumption DEF RecvCmd, NotifyNotLost, Announced,
       ReceiverAlive
  <2> QED
    BY <1>15, <2>1, <2>2, <2>3, SocksAssumption DEF RecvCmd, AuthInv,
       Authenticated, RegistryInv, Registered, FreshInv, DialInv, ParkInv,
       SpliceInv, SpliceExclusive, AnnounceInv, Announced
<1>16. ASSUME NEW s \in Socks, WriteDone(s) PROVE RelayInv'
  <2>1. AnnounceInv'
    BY <1>16, SocksAssumption DEF WriteDone, AnnounceInv, Announced, DialInv,
       AuthInv, Authenticated
  <2>2. OnceInv'
    BY <1>16, SocksAssumption DEF WriteDone, OnceInv, AnnounceInv, Announced
  <2>3. SpliceInv'
    BY <1>16, SocksAssumption DEF WriteDone, SpliceInv, SpliceExclusive,
       ParkInv, AnnounceInv, Announced
  <2>4. NotifyNotLost'
    BY <1>16, SocksAssumption DEF WriteDone, NotifyNotLost, Announced,
       ReceiverAlive
  <2> QED
    BY <1>16, <2>1, <2>2, <2>3, <2>4, SocksAssumption DEF WriteDone, AuthInv,
       Authenticated, RegistryInv, Registered, FreshInv, DialInv, ParkInv
<1>17. ASSUME NEW s \in Socks, SendersGone(s) \/ StreamEnds(s) PROVE RelayInv'
  <2>1. AuthInv'
    BY <1>17, SocksAssumption DEF SendersGone, StreamEnds, ReceiverAlive,
       DropReceiver, AuthInv, Authenticated
  <2>2. RegistryInv'
    BY <1>17, SocksAssumption DEF SendersGone, StreamEnds, ReceiverAlive,
       DropReceiver, RegistryInv, AuthInv, Authenticated, Registered
  <2>3. DialInv'
    BY <1>17, SocksAssumption DEF SendersGone, StreamEnds, ReceiverAlive,
       DropReceiver, DialInv, RegistryInv, AuthInv, Authenticated
  <2>4. ParkInv'
    BY <1>17, SocksAssumption DEF SendersGone, StreamEnds, ReceiverAlive,
       DropReceiver, ParkInv, RegistryInv, AuthInv, Authenticated
  <2>5. AnnounceInv'
    BY <1>17, SocksAssumption DEF SendersGone, StreamEnds, ReceiverAlive,
       DropReceiver, AnnounceInv, Announced, DialInv, AuthInv, Authenticated
  <2>6. SpliceInv'
    BY <1>17, SocksAssumption DEF SendersGone, StreamEnds, ReceiverAlive,
       DropReceiver, SpliceInv, SpliceExclusive, ParkInv, AnnounceInv,
       Announced
  <2>7. NotifyNotLost'
    BY <1>17, SocksAssumption DEF SendersGone, StreamEnds, ReceiverAlive,
       DropReceiver, NotifyNotLost, Announced
  <2> QED
    BY <1>17, <2>1, <2>2, <2>3, <2>4, <2>5, <2>6, <2>7, SocksAssumption DEF
       SendersGone, StreamEnds, ReceiverAlive, DropReceiver, FreshInv,
       OnceInv, AnnounceInv, Announced
<1>18. ASSUME NEW s \in Socks, Teardown(s) PROVE RelayInv'
  <2>1. AuthInv'
    BY <1>18 DEF Teardown, Unregister, AuthInv, Authenticated
  <2>2. RegistryInv'
    BY <1>18 DEF Teardown, Unregister, RegistryInv, AuthInv, Authenticated,
       Registered
  <2> QED
    BY <1>18, <2>1, <2>2 DEF Teardown, Unregister, FreshInv, DialInv,
       RegistryInv, AuthInv, Authenticated, ParkInv, AnnounceInv, Announced,
       OnceInv, SpliceInv, SpliceExclusive, NotifyNotLost, ReceiverAlive
<1>19. ASSUME NEW s \in Socks, Cancel(s) PROVE RelayInv'
  <2>1. AuthInv'
    BY <1>19, SocksAssumption DEF Cancel, ReceiverAlive, DropReceiver,
       AuthInv, Authenticated
  <2>2. RegistryInv'
    BY <1>19, SocksAssumption DEF Cancel, ReceiverAlive, DropReceiver,
       RegistryInv, AuthInv, Authenticated, Registered
  <2>3. DialInv'
    BY <1>19, SocksAssumption DEF Cancel, ReceiverAlive, DropReceiver,
       DialInv, RegistryInv, AuthInv, Authenticated
  <2>4. ParkInv'
    BY <1>19, SocksAssumption DEF Cancel, ReceiverAlive, DropReceiver,
       ParkInv, RegistryInv, AuthInv, Authenticated
  <2>5. AnnounceInv'
    BY <1>19, SocksAssumption DEF Cancel, ReceiverAlive, DropReceiver,
       AnnounceInv, Announced, DialInv, AuthInv, Authenticated
  <2>6. OnceInv'
    BY <1>19, SocksAssumption DEF Cancel, ReceiverAlive, DropReceiver,
       OnceInv, AnnounceInv, Announced
  <2>7. SpliceInv'
    BY <1>19, SocksAssumption DEF Cancel, ReceiverAlive, DropReceiver,
       SpliceInv, SpliceExclusive, ParkInv, AnnounceInv, Announced
  <2>8. NotifyNotLost'
    BY <1>19, SocksAssumption DEF Cancel, ReceiverAlive, DropReceiver,
       NotifyNotLost, Announced
  <2> QED
    BY <1>19, <2>1, <2>2, <2>3, <2>4, <2>5, <2>6, <2>7, <2>8, SocksAssumption
       DEF Cancel, ReceiverAlive, DropReceiver, FreshInv
<1>20. CASE RelayDrop
  BY <1>20 DEF RelayDrop, AuthInv, Authenticated, RegistryInv, Registered,
     FreshInv, DialInv, ParkInv, AnnounceInv, Announced, OnceInv, SpliceInv,
     SpliceExclusive, NotifyNotLost, ReceiverAlive
<1>21. CASE StopListening
  BY <1>21 DEF StopListening, AuthInv, Authenticated, RegistryInv, Registered,
     FreshInv, DialInv, ParkInv, AnnounceInv, Announced, OnceInv, SpliceInv,
     SpliceExclusive, NotifyNotLost, ReceiverAlive
<1>22. CASE UNCHANGED vars
  BY <1>22 DEF vars, AuthInv, Authenticated, RegistryInv, Registered,
     FreshInv, DialInv, ParkInv, AnnounceInv, Announced, OnceInv, SpliceInv,
     SpliceExclusive, NotifyNotLost, ReceiverAlive
<1> QED
  BY <1>1, <1>2, <1>3, <1>4, <1>5, <1>6, <1>7, <1>8, <1>9, <1>10, <1>11, <1>12,
     <1>13, <1>14, <1>15, <1>16, <1>17, <1>18, <1>19, <1>20, <1>21, <1>22
     DEF Next, Terminated

\* The inductive invariant holds in every reachable state.
THEOREM RelaySafety == Spec => []RelayInv
<1>1. Init => TypeOK /\ RelayInv
  BY TypeInit, SafetyInit
<1>2. TypeOK /\ RelayInv /\ [Next]_vars => TypeOK' /\ RelayInv'
  BY TypeNext, SafetyNext
<1> QED
  BY <1>1, <1>2, PTL DEF Spec

\* Until shutdown the registry names only controls that run, each under the
\* digest it authenticated with, for any number of clients that reconnect.
THEOREM RelayRegistrySound == Spec => []RegistrySound
<1>1. RelayInv => RegistrySound
  BY DEF RelayInv, RegistryInv, RegistrySound
<1> QED
  BY <1>1, RelaySafety, PTL

\* A parked socket is spliced at most once and never both parked and spliced.
THEOREM RelaySpliceExclusive == Spec => []SpliceExclusive
<1>1. RelayInv => SpliceExclusive
  BY DEF RelayInv, SpliceInv
<1> QED
  BY <1>1, RelaySafety, PTL

\* Peers are announced to, and spliced through, the client they dialled.
THEOREM RelayRoutedToDialled == Spec => []RoutedToDialled
<1>1. RelayInv => RoutedToDialled
  BY DEF RelayInv, AnnounceInv, SpliceInv, RoutedToDialled
<1> QED
  BY <1>1, RelaySafety, PTL

\* No notification is lost while the control stream it is for is up.
THEOREM RelayNotifyNotLost == Spec => []NotifyNotLost
<1>1. RelayInv => NotifyNotLost
  BY DEF RelayInv
<1> QED
  BY <1>1, RelaySafety, PTL

-----------------------------------------------------------------------------
(* Permits.  Every permit of the relay is accounted for: what is left in a *)
(* semaphore and what its holders have add up to its size.  Each proof     *)
(* finds the steps that change the set of holders, by one connection, and  *)
(* shows that they are the steps that take or return a permit.             *)

\* A finite set that gains an element is finite and larger by one (a permit
\* is moved into a new holder).
LEMMA CountAdd ==
    ASSUME NEW S, IsFiniteSet(S), NEW x, x \notin S
    PROVE  IsFiniteSet(S \cup {x}) /\ Cardinality(S) \in Nat
           /\ Cardinality(S \cup {x}) = Cardinality(S) + 1
  BY FS_AddElement, FS_CardinalityType

\* A finite set that loses an element is finite and smaller by one (a holder
\* of a permit is dropped).
LEMMA CountRemove ==
    ASSUME NEW S, IsFiniteSet(S), NEW x, x \in S
    PROVE  IsFiniteSet(S \ {x}) /\ Cardinality(S) \in Nat /\ Cardinality(S) > 0
           /\ Cardinality(S \ {x}) = Cardinality(S) - 1
<1>1. IsFiniteSet(S \ {x}) /\ Cardinality(S \ {x}) = Cardinality(S) - 1
  BY FS_RemoveElement
<1>2. Cardinality(S) \in Nat /\ Cardinality(S \ {x}) \in Nat
  BY <1>1, FS_CardinalityType
<1> QED
  BY <1>1, <1>2

\* Any set of connections is finite: they are the ones made to one relay.
LEMMA FiniteConnections == ASSUME NEW S, S \subseteq Socks PROVE IsFiniteSet(S)
  BY SocksAssumption, FS_Subset

-----------------------------------------------------------------------------
(* Inbound permits.                                                        *)

\* A step starts one task, ends one task, or does neither.
LEMMA TaskSteps ==
    ASSUME TypeOK, [Next]_vars
    PROVE  \/ \E s \in Socks : /\ s \notin Tasks /\ Tasks' = Tasks \cup {s}
                               /\ inbound_limit > 0
                               /\ inbound_limit' = inbound_limit - 1
           \/ \E s \in Socks : /\ s \in Tasks /\ Tasks' = Tasks \ {s}
                               /\ inbound_limit' = inbound_limit + 1
           \/ Tasks' = Tasks /\ inbound_limit' = inbound_limit
<1> USE DEF TypeOK
<1>1. ASSUME NEW s \in Socks, NEW ip \in Ips, Accept(s, ip)
      PROVE  /\ s \notin Tasks /\ Tasks' = Tasks \cup {s}
             /\ inbound_limit > 0 /\ inbound_limit' = inbound_limit - 1
  BY <1>1 DEF Accept, TakeInbound, Goto, Tasks
<1>2. ASSUME NEW s \in Socks, End(s), s \in Tasks
      PROVE  Tasks' = Tasks \ {s} /\ inbound_limit' = inbound_limit + 1
  BY <1>2 DEF End, Goto, Tasks
<1>3. ASSUME NEW s \in Socks,
             \/ TokenTimeout(s) \/ SendNotify(s) \/ SendFails(s) \/ SpliceEnds(s)
             \/ HandshakeFails(s) \/ RegisterOverIp(s) \/ Teardown(s) \/ Cancel(s)
             \/ \E k \in KnownTokens : DropSocket(s, k)
      PROVE  End(s) /\ s \in Tasks
  BY <1>3 DEF TokenTimeout, SendNotify, SendFails, SpliceEnds, HandshakeFails,
              RegisterOverIp, Teardown, Cancel, DropSocket, EndControl,
              ReceiverAlive, Tasks
<1>4. ASSUME NEW s \in Socks, DropAtAccept(s)
      PROVE  Tasks' = Tasks /\ inbound_limit' = inbound_limit
  BY <1>4 DEF DropAtAccept, Goto, limits, Tasks
<1>5. ASSUME NEW s \in Socks,
             OpenControl(s) \/ (\E k \in Certs : DialControl(s, k) \/ Register(s, k))
                            \/ (\E t \in Socks : ClaimSplice(s, t))
      PROVE  Tasks' = Tasks /\ inbound_limit' = inbound_limit
  BY <1>5 DEF OpenControl, DialControl, Register, ClaimSplice, Goto, limits, Tasks
<1>6. ASSUME NEW s \in Socks,
             AllClear(s) \/ SendersGone(s) \/ StreamEnds(s)
      PROVE  Tasks' = Tasks /\ inbound_limit' = inbound_limit
  BY <1>6 DEF AllClear, SendersGone, StreamEnds, ReceiverAlive, Goto, limits, Tasks
<1>7. ASSUME NEW s \in Socks, PendingTimeout(s) \/ RecvCmd(s) \/ WriteDone(s)
      PROVE  Tasks' = Tasks /\ inbound_limit' = inbound_limit
  BY <1>7 DEF PendingTimeout, RecvCmd, WriteDone, limits, Tasks
<1>8. CASE RelayDrop \/ StopListening \/ UNCHANGED vars
  BY <1>8 DEF RelayDrop, StopListening, vars, limits, Tasks
<1> QED
  BY <1>1, <1>2, <1>3, <1>4, <1>5, <1>6, <1>7, <1>8 DEF Next, Terminated

\* con_permit is never lost nor doubled, whatever path its task takes.
THEOREM RelayInboundConserved == Spec => []InboundConserved
<1>1. Init => InboundConserved
  <2>1. Init => Tasks = {}
    BY DEF Init, Tasks
  <2> QED
    BY <2>1, FS_EmptySet, LimitsAssumption DEF Init, InboundConserved
<1>2. TypeOK /\ InboundConserved /\ [Next]_vars => InboundConserved'
  <2> SUFFICES ASSUME TypeOK, InboundConserved, [Next]_vars PROVE InboundConserved'
    OBVIOUS
  <2>1. IsFiniteSet(Tasks) /\ Cardinality(Tasks) \in Nat /\ inbound_limit \in Nat
    BY FiniteConnections, FS_CardinalityType DEF Tasks, TypeOK
  <2>2. CASE \E s \in Socks : /\ s \notin Tasks /\ Tasks' = Tasks \cup {s}
                              /\ inbound_limit > 0
                              /\ inbound_limit' = inbound_limit - 1
    BY <2>1, <2>2, CountAdd, LimitsAssumption DEF InboundConserved
  <2>3. CASE \E s \in Socks : /\ s \in Tasks /\ Tasks' = Tasks \ {s}
                              /\ inbound_limit' = inbound_limit + 1
    BY <2>1, <2>3, CountRemove, LimitsAssumption DEF InboundConserved
  <2>4. CASE Tasks' = Tasks /\ inbound_limit' = inbound_limit
    BY <2>4 DEF InboundConserved
  <2> QED
    BY <2>2, <2>3, <2>4, TaskSteps
<1> QED
  BY <1>1, <1>2, RelayTypeOK, PTL DEF Spec

-----------------------------------------------------------------------------
(* Control permits.                                                        *)

\* A step makes one connection a control, ends one control, or does neither.
LEMMA ControlSteps ==
    ASSUME TypeOK, [Next]_vars
    PROVE  \/ \E s \in Socks : /\ s \notin ControlTasks
                               /\ ControlTasks' = ControlTasks \cup {s}
                               /\ control_limit' = control_limit - 1
           \/ \E s \in Socks : /\ s \in ControlTasks
                               /\ ControlTasks' = ControlTasks \ {s}
                               /\ control_limit' = control_limit + 1
           \/ ControlTasks' = ControlTasks /\ control_limit' = control_limit
<1> USE DEF TypeOK
<1>1. ASSUME NEW s \in Socks, OpenControl(s)
      PROVE  /\ s \notin ControlTasks /\ ControlTasks' = ControlTasks \cup {s}
             /\ control_limit' = control_limit - 1
  BY <1>1 DEF OpenControl, Goto, ControlTasks
<1>2. ASSUME NEW s \in Socks,
             HandshakeFails(s) \/ RegisterOverIp(s) \/ Teardown(s)
      PROVE  /\ s \in ControlTasks /\ ControlTasks' = ControlTasks \ {s}
             /\ control_limit' = control_limit + 1
  BY <1>2 DEF HandshakeFails, RegisterOverIp, Teardown, EndControl, End, Goto,
              ControlTasks
<1>3. ASSUME NEW s \in Socks,
             \/ DropAtAccept(s) \/ TokenTimeout(s) \/ SendNotify(s) \/ SendFails(s)
             \/ SpliceEnds(s)
             \/ \E k \in KnownTokens : DropSocket(s, k)
      PROVE  ControlTasks' = ControlTasks /\ control_limit' = control_limit
  BY <1>3 DEF DropAtAccept, TokenTimeout, SendNotify, SendFails, SpliceEnds,
              DropSocket, End, Goto, limits, ControlTasks
<1>4. ASSUME NEW s \in Socks,
             \/ \E ip \in Ips : Accept(s, ip)
             \/ \E k \in Certs : DialControl(s, k) \/ Register(s, k)
             \/ \E t \in Socks : ClaimSplice(s, t)
      PROVE  ControlTasks' = ControlTasks /\ control_limit' = control_limit
  BY <1>4 DEF Accept, DialControl, Register, ClaimSplice, Goto, limits, ControlTasks
<1>5. ASSUME NEW s \in Socks, AllClear(s) \/ SendersGone(s) \/ StreamEnds(s)
      PROVE  ControlTasks' = ControlTasks /\ control_limit' = control_limit
  BY <1>5 DEF AllClear, SendersGone, StreamEnds, ReceiverAlive, Goto, limits,
              ControlTasks
<1>6. ASSUME NEW s \in Socks, PendingTimeout(s) \/ RecvCmd(s) \/ WriteDone(s)
      PROVE  ControlTasks' = ControlTasks /\ control_limit' = control_limit
  BY <1>6 DEF PendingTimeout, RecvCmd, WriteDone, limits, ControlTasks
<1>7. CASE RelayDrop \/ StopListening \/ UNCHANGED vars
  BY <1>7 DEF RelayDrop, StopListening, vars, limits, ControlTasks
<1>8. ASSUME NEW s \in Socks, Cancel(s)
      PROVE  \/ /\ s \in ControlTasks /\ ControlTasks' = ControlTasks \ {s}
                /\ control_limit' = control_limit + 1
             \/ ControlTasks' = ControlTasks /\ control_limit' = control_limit
  BY <1>8 DEF Cancel, EndControl, End, Goto, ReceiverAlive, ControlTasks
<1> QED
  BY <1>1, <1>2, <1>3, <1>4, <1>5, <1>6, <1>7, <1>8 DEF Next, Terminated

\* control_permit is never lost nor doubled: the handshake may fail, the ip
\* may be over its limit, the control may be replaced, end or be cancelled.
THEOREM RelayControlConserved == Spec => []ControlConserved
<1>1. Init => ControlConserved
  <2>1. Init => ControlTasks = {}
    BY DEF Init, ControlTasks
  <2> QED
    BY <2>1, FS_EmptySet, LimitsAssumption DEF Init, ControlConserved
<1>2. TypeOK /\ ControlConserved /\ [Next]_vars => ControlConserved'
  <2> SUFFICES ASSUME TypeOK, ControlConserved, [Next]_vars PROVE ControlConserved'
    OBVIOUS
  <2>1. /\ IsFiniteSet(ControlTasks) /\ Cardinality(ControlTasks) \in Nat
        /\ control_limit \in Nat
    BY FiniteConnections, FS_CardinalityType DEF ControlTasks, TypeOK
  <2>2. CASE \E s \in Socks : /\ s \notin ControlTasks
                              /\ ControlTasks' = ControlTasks \cup {s}
                              /\ control_limit' = control_limit - 1
    <3>1. Cardinality(ControlTasks') = Cardinality(ControlTasks) + 1
      BY <2>1, <2>2, CountAdd
    <3> QED
      BY <2>1, <2>2, <3>1, LimitsAssumption DEF ControlConserved
  <2>3. CASE \E s \in Socks : /\ s \in ControlTasks
                              /\ ControlTasks' = ControlTasks \ {s}
                              /\ control_limit' = control_limit + 1
    BY <2>1, <2>3, CountRemove, LimitsAssumption DEF ControlConserved
  <2>4. CASE ControlTasks' = ControlTasks /\ control_limit' = control_limit
    BY <2>4 DEF ControlConserved
  <2> QED
    BY <2>2, <2>3, <2>4, ControlSteps
<1> QED
  BY <1>1, <1>2, RelayTypeOK, PTL DEF Spec

-----------------------------------------------------------------------------
(* Controls counted per ip.                                                *)

CountedAt(i) == {c \in Registered : rem_addr[c] = i}

\* A step registers one control, tears one down, or leaves the count of every
\* ip alone - or it is taken after shutdown, when cancelled controls are not
\* uncounted any more.
LEMMA CountSteps ==
    ASSUME TypeOK, [Next]_vars, ~term'
    PROVE  \/ \E s \in Socks : \E k \in Certs : Register(s, k)
           \/ \E s \in Socks : Teardown(s)
           \/ /\ control_addrs' = control_addrs
              /\ \A i \in Ips : CountedAt(i)' = CountedAt(i)
<1> USE DEF TypeOK
<1>1. ASSUME NEW s \in Socks, NEW ip \in Ips, Accept(s, ip)
      PROVE  /\ control_addrs' = control_addrs
             /\ \A i \in Ips : CountedAt(i)' = CountedAt(i)
  BY <1>1 DEF Accept, Goto, state, CountedAt, Registered
<1>2. ASSUME NEW s \in Socks,
             \/ DropAtAccept(s) \/ TokenTimeout(s) \/ SendNotify(s) \/ SendFails(s)
             \/ SpliceEnds(s) \/ HandshakeFails(s) \/ RegisterOverIp(s)
             \/ \E k \in KnownTokens : DropSocket(s, k)
      PROVE  /\ control_addrs' = control_addrs
             /\ \A i \in Ips : CountedAt(i)' = CountedAt(i)
  BY <1>2 DEF DropAtAccept, TokenTimeout, SendNotify, SendFails, SpliceEnds,
              HandshakeFails, RegisterOverIp, DropSocket, EndControl, End, Goto,
              locals, state, CountedAt, Registered
<1>3. ASSUME NEW s \in Socks,
             \/ OpenControl(s) \/ \E k \in Certs : DialControl(s, k)
             \/ \E t \in Socks : ClaimSplice(s, t)
      PROVE  /\ control_addrs' = control_addrs
             /\ \A i \in Ips : CountedAt(i)' = CountedAt(i)
  BY <1>3 DEF OpenControl, DialControl, ClaimSplice, Goto, state, CountedAt,
              Registered
<1>4. ASSUME NEW s \in Socks, AllClear(s) \/ SendersGone(s) \/ StreamEnds(s)
      PROVE  /\ control_addrs' = control_addrs
             /\ \A i \in Ips : CountedAt(i)' = CountedAt(i)
  BY <1>4 DEF AllClear, SendersGone, StreamEnds, ReceiverAlive, Goto, locals,
              state, CountedAt, Registered
<1>5. ASSUME NEW s \in Socks, PendingTimeout(s) \/ RecvCmd(s) \/ WriteDone(s)
      PROVE  /\ control_addrs' = control_addrs
             /\ \A i \in Ips : CountedAt(i)' = CountedAt(i)
  BY <1>5 DEF PendingTimeout, RecvCmd, WriteDone, locals, state, CountedAt,
              Registered
<1>6. ASSUME NEW s \in Socks, Cancel(s) PROVE FALSE
  BY <1>6 DEF Cancel, life
<1>7. CASE RelayDrop \/ StopListening \/ UNCHANGED vars
  BY <1>7 DEF RelayDrop, StopListening, vars, locals, state, life, CountedAt,
              Registered
<1> QED
  BY <1>1, <1>2, <1>3, <1>4, <1>5, <1>6, <1>7 DEF Next, Terminated

\* control_addrs counts the registered controls of every ip exactly and stays
\* within max_control_streams_per_ip, however they replace each other.
THEOREM RelayPerIpCount == Spec => []PerIpCount
<1>1. Init => PerIpCount
  <2> SUFFICES ASSUME Init, NEW i \in Ips
               PROVE  /\ control_addrs[i] = Cardinality(CountedAt(i))
                      /\ control_addrs[i] <= MaxPerIp
    BY DEF PerIpCount, CountedAt
  <2>1. CountedAt(i) = {} /\ control_addrs[i] = 0
    BY DEF Init, CountedAt, Registered
  <2> QED
    BY <2>1, FS_EmptySet, LimitsAssumption
<1>2. TypeOK /\ PerIpCount /\ [Next]_vars => PerIpCount'
  <2> SUFFICES ASSUME TypeOK, PerIpCount, [Next]_vars, ~term', NEW i \in Ips
               PROVE  /\ control_addrs'[i] = Cardinality(CountedAt(i)')
                      /\ control_addrs'[i] <= MaxPerIp
    BY DEF PerIpCount, CountedAt
  <2>1. ~term
    <3>1. term => term'
      BY DEF Next, Accept, DropAtAccept, TokenTimeout, OpenControl, DropSocket,
             DialControl, ClaimSplice, PendingTimeout, SendNotify, SendFails,
             SpliceEnds, HandshakeFails, RegisterOverIp, Register, AllClear,
             RecvCmd, WriteDone, SendersGone, StreamEnds, Teardown, Cancel,
             RelayDrop, StopListening, Terminated, vars, life
    <3> QED
      BY <3>1
  <2>2. /\ control_addrs[i] = Cardinality(CountedAt(i))
        /\ control_addrs[i] <= MaxPerIp
    BY <2>1 DEF PerIpCount, CountedAt
  <2>3. IsFiniteSet(CountedAt(i)) /\ control_addrs[i] \in Nat
    BY FiniteConnections DEF CountedAt, Registered, TypeOK
  <2>4. ASSUME NEW s \in Socks, NEW k \in Certs, Register(s, k)
        PROVE  /\ control_addrs'[i] = Cardinality(CountedAt(i)')
               /\ control_addrs'[i] <= MaxPerIp
    <3>1. CASE rem_addr[s] = i
      <4>1. s \notin CountedAt(i) /\ CountedAt(i)' = CountedAt(i) \cup {s}
        BY <2>4, <3>1 DEF Register, Goto, CountedAt, Registered, TypeOK
      <4>2. /\ control_addrs'[i] = control_addrs[i] + 1
            /\ control_addrs[i] < MaxPerIp
        BY <2>4, <3>1 DEF Register, CountControl, IpHasRoom, TypeOK
      <4> QED
        BY <4>1, <4>2, <2>2, <2>3, CountAdd, LimitsAssumption
    <3>2. CASE rem_addr[s] # i
      <4>1. CountedAt(i)' = CountedAt(i)
        BY <2>4, <3>2 DEF Register, Goto, CountedAt, Registered, TypeOK
      <4>2. control_addrs'[i] = control_addrs[i]
        BY <2>4, <3>2 DEF Register, CountControl, TypeOK
      <4> QED
        BY <4>1, <4>2, <2>2
    <3> QED
      BY <3>1, <3>2
  <2>5. ASSUME NEW s \in Socks, Teardown(s)
        PROVE  /\ control_addrs'[i] = Cardinality(CountedAt(i)')
               /\ control_addrs'[i] <= MaxPerIp
    <3>1. CASE rem_addr[s] = i
      <4>1. s \in CountedAt(i) /\ CountedAt(i)' = CountedAt(i) \ {s}
        BY <2>5, <3>1 DEF Teardown, EndControl, End, Goto, locals, CountedAt,
                          Registered, TypeOK
      <4>2. control_addrs[i] > 0
        BY <4>1, <2>2, <2>3, CountRemove
      <4>3. control_addrs'[i] = control_addrs[i] - 1
        BY <2>5, <3>1, <4>2 DEF Teardown, UncountControl, TypeOK
      <4> QED
        BY <4>1, <4>3, <2>2, <2>3, CountRemove, LimitsAssumption
    <3>2. CASE rem_addr[s] # i
      <4>1. CountedAt(i)' = CountedAt(i)
        BY <2>5, <3>2 DEF Teardown, EndControl, End, Goto, locals, CountedAt,
                          Registered, TypeOK
      <4>2. control_addrs'[i] = control_addrs[i]
        BY <2>5, <3>2 DEF Teardown, UncountControl, TypeOK
      <4> QED
        BY <4>1, <4>2, <2>2
    <3> QED
      BY <3>1, <3>2
  <2>6. CASE /\ control_addrs' = control_addrs
             /\ \A j \in Ips : CountedAt(j)' = CountedAt(j)
    BY <2>6, <2>2
  <2> QED
    BY <2>4, <2>5, <2>6, CountSteps
<1> QED
  BY <1>1, <1>2, RelayTypeOK, PTL DEF Spec

-----------------------------------------------------------------------------
(* Relay permits.                                                          *)

Acquires(c) == \E t \in Socks : /\ t \notin RelayHolders(c)
                               /\ RelayHolders(c)' = RelayHolders(c) \cup {t}
                               /\ relay_limit'[c] = relay_limit[c] - 1
Returns(c)  == \E t \in Socks : /\ t \in RelayHolders(c)
                               /\ RelayHolders(c)' = RelayHolders(c) \ {t}
                               /\ relay_limit'[c] = relay_limit[c] + 1
Keeps(c)    == RelayHolders(c)' = RelayHolders(c) /\ relay_limit'[c] = relay_limit[c]

\* For every control, a step parks one peer on its permit, lets go of one
\* parked or spliced peer, or changes neither: a claim passes the permit on.
LEMMA HolderSteps ==
    ASSUME TypeOK, RelayInv, [Next]_vars, NEW c \in Socks
    PROVE  Acquires(c) \/ Returns(c) \/ Keeps(c)
<1> USE DEF TypeOK, RelayHolders, ClaimedVia
<1>a. SpliceExclusive /\ ParkInv /\ AnnounceInv
  BY DEF RelayInv, SpliceInv
<1>1. ASSUME NEW s \in Socks, NEW k \in Certs, DialControl(s, k)
      PROVE  Acquires(c) \/ Keeps(c)
  <2>1. CASE control_channels[k] = c
    <3>1. s \notin RelayHolders(c)
      BY <1>1, <1>a, SocksAssumption DEF DialControl, SpliceExclusive, ParkInv
    <3>2. RelayHolders(c)' = RelayHolders(c) \cup {s}
      BY <1>1, <2>1 DEF DialControl, Park, Goto
    <3>3. relay_limit'[c] = relay_limit[c] - 1
      BY <1>1, <2>1 DEF DialControl, Park
    <3> QED
      BY <3>1, <3>2, <3>3 DEF Acquires
  <2>2. CASE control_channels[k] # c
    <3>1. pending_tokens[s] # c
      BY <1>1, <1>a, SocksAssumption DEF DialControl, ParkInv
    <3> QED
      BY <1>1, <2>2, <3>1 DEF DialControl, Park, Goto, Keeps
  <2> QED
    BY <2>1, <2>2
<1>2. ASSUME NEW s \in Socks, NEW t \in Socks, ClaimSplice(s, t) PROVE Keeps(c)
  <2>1. \A r \in Socks : pc[r] = "spliced" => token[r] # t
    BY <1>2, <1>a DEF ClaimSplice, SpliceExclusive
  <2>2. relay_limit'[c] = relay_limit[c]
    BY <1>2 DEF ClaimSplice, limits
  <2>3. ASSUME NEW u \in Socks
        PROVE  (pending_tokens'[u] = c \/ ClaimedVia(u, c)')
                 <=> (pending_tokens[u] = c \/ ClaimedVia(u, c))
    <3>1. CASE u = t
      BY <1>2, <2>1, <3>1, SocksAssumption DEF ClaimSplice, Unpark, Goto
    <3>2. CASE u # t
      BY <1>2, <3>2 DEF ClaimSplice, Unpark, Goto
    <3> QED
      BY <3>1, <3>2
  <2> QED
    BY <2>2, <2>3 DEF Keeps
<1>3. ASSUME NEW t \in Socks, PendingTimeout(t) PROVE Returns(c) \/ Keeps(c)
  <2>1. \A r \in Socks : pc[r] = "spliced" => token[r] # t
    BY <1>3, <1>a DEF PendingTimeout, SpliceExclusive
  <2>2. CASE pending_tokens[t] = c
    <3>1. t \in RelayHolders(c) /\ RelayHolders(c)' = RelayHolders(c) \ {t}
      BY <1>3, <2>1, <2>2, SocksAssumption DEF PendingTimeout, Unpark, locals
    <3>2. relay_limit'[c] = relay_limit[c] + 1
      BY <1>3, <2>2 DEF PendingTimeout, GiveRelayPermit
    <3> QED
      BY <3>1, <3>2 DEF Returns
  <2>3. CASE pending_tokens[t] # c
    BY <1>3, <2>3, SocksAssumption DEF PendingTimeout, Unpark, GiveRelayPermit,
                                       locals, Keeps
  <2> QED
    BY <2>2, <2>3
<1>4. ASSUME NEW s \in Socks, pc[s] = "spliced", End(s), GiveRelayPermit(via[s]),
             UNCHANGED <<locals, state>>
      PROVE  Returns(c) \/ Keeps(c)
  <2>1. /\ token[s] \in Socks /\ pending_tokens[token[s]] = None
        /\ \A r \in Socks \ {s} : pc[r] = "spliced" => token[r] # token[s]
    BY <1>4, <1>a DEF SpliceExclusive
  <2>2. CASE via[s] = c
    <3>1. token[s] \in RelayHolders(c) /\ RelayHolders(c)' = RelayHolders(c) \ {token[s]}
      BY <1>4, <2>1, <2>2, SocksAssumption DEF End, Goto, locals, state
    <3>2. relay_limit'[c] = relay_limit[c] + 1
      BY <1>4, <2>2 DEF GiveRelayPermit
    <3> QED
      BY <2>1, <3>1, <3>2 DEF Returns
  <2>3. CASE via[s] # c
    BY <1>4, <2>3 DEF End, Goto, GiveRelayPermit, locals, state, Keeps
  <2> QED
    BY <2>2, <2>3
<1>5. ASSUME NEW s \in Socks, SpliceEnds(s) PROVE Returns(c) \/ Keeps(c)
  BY <1>4, <1>5 DEF SpliceEnds
<1>6. ASSUME NEW s \in Socks, Cancel(s) PROVE Returns(c) \/ Keeps(c)
  <2>1. CASE pc[s] = "spliced"
    BY <1>4, <1>6, <2>1 DEF Cancel, ReceiverAlive
  <2>2. CASE pc[s] # "spliced"
    BY <1>6, <2>2 DEF Cancel, EndControl, End, Goto, locals, state, Keeps
  <2> QED
    BY <2>1, <2>2
<1>7. ASSUME NEW s \in Socks,
             \/ \E ip \in Ips : Accept(s, ip)
             \/ \E k \in KnownTokens : DropSocket(s, k)
             \/ DropAtAccept(s) \/ TokenTimeout(s)
      PROVE  Keeps(c)
  BY <1>7 DEF Accept, DropSocket, DropAtAccept, TokenTimeout, End, Goto, locals,
              state, limits, Keeps
<1>8. ASSUME NEW s \in Socks, SendNotify(s) \/ SendFails(s) PROVE Keeps(c)
  BY <1>8 DEF SendNotify, SendFails, End, Goto, locals, state, Keeps
<1>9. ASSUME NEW s \in Socks, OpenControl(s) \/ \E k \in Certs : Register(s, k)
      PROVE  Keeps(c)
  BY <1>9 DEF OpenControl, Register, Goto, state, limits, Keeps
<1>10. ASSUME NEW s \in Socks, HandshakeFails(s) \/ RegisterOverIp(s) \/ Teardown(s)
       PROVE  Keeps(c)
  BY <1>10 DEF HandshakeFails, RegisterOverIp, Teardown, EndControl, End, Goto,
               locals, state, Keeps
<1>11. ASSUME NEW s \in Socks,
              AllClear(s) \/ SendersGone(s) \/ StreamEnds(s) \/ RecvCmd(s) \/ WriteDone(s)
       PROVE  Keeps(c)
  BY <1>11 DEF AllClear, SendersGone, StreamEnds, ReceiverAlive, RecvCmd,
               WriteDone, Goto, locals, state, limits, Keeps
<1>12. CASE RelayDrop \/ StopListening \/ UNCHANGED vars
  BY <1>12 DEF RelayDrop, StopListening, vars, locals, state, limits, Keeps
<1> QED
  BY <1>1, <1>2, <1>3, <1>5, <1>6, <1>7, <1>8, <1>9, <1>10, <1>11, <1>12
     DEF Next, Terminated

\* relay_permit is never lost nor doubled on its way from the semaphore of a
\* control through pending_tokens into a splice, whether the peer is claimed
\* or times out and whether or not the control is still there.
THEOREM RelayPermitsConserved == Spec => []RelayConserved
<1>1. Init => RelayConserved
  <2> SUFFICES ASSUME Init, NEW c \in Socks
               PROVE  relay_limit[c] + Cardinality(RelayHolders(c)) = MaxRelays
    BY DEF RelayConserved
  <2>1. RelayHolders(c) = {} /\ relay_limit[c] = MaxRelays
    BY SocksAssumption DEF Init, RelayHolders, ClaimedVia
  <2> QED
    BY <2>1, FS_EmptySet, LimitsAssumption
<1>2. TypeOK /\ RelayInv /\ RelayConserved /\ [Next]_vars => RelayConserved'
  <2> SUFFICES ASSUME TypeOK, RelayInv, RelayConserved, [Next]_vars, NEW c \in Socks
               PROVE  relay_limit'[c] + Cardinality(RelayHolders(c)') = MaxRelays
    BY DEF RelayConserved
  <2>1. /\ IsFiniteSet(RelayHolders(c)) /\ Cardinality(RelayHolders(c)) \in Nat
        /\ relay_limit[c] \in Nat
    BY FiniteConnections, FS_CardinalityType DEF RelayHolders, TypeOK
  <2>2. relay_limit[c] + Cardinality(RelayHolders(c)) = MaxRelays
    BY DEF RelayConserved
  <2>3. CASE Acquires(c)
    <3>1. /\ Cardinality(RelayHolders(c)') = Cardinality(RelayHolders(c)) + 1
          /\ relay_limit'[c] = relay_limit[c] - 1
      BY <2>1, <2>3, CountAdd DEF Acquires
    <3> QED
      BY <2>1, <2>2, <3>1, LimitsAssumption
  <2>4. CASE Returns(c)
    <3>1. /\ Cardinality(RelayHolders(c)') = Cardinality(RelayHolders(c)) - 1
          /\ relay_limit'[c] = relay_limit[c] + 1
      BY <2>1, <2>4, CountRemove DEF Returns
    <3> QED
      BY <2>1, <2>2, <3>1, LimitsAssumption
  <2>5. CASE Keeps(c)
    BY <2>2, <2>5 DEF Keeps
  <2> QED
    BY <2>3, <2>4, <2>5, HolderSteps
<1> QED
  BY <1>1, <1>2, RelayTypeOK, RelaySafety, PTL DEF Spec

-----------------------------------------------------------------------------
(* The relay implements the rendezvous: each step of Relay is a step of    *)
(* Rendezvous, or a stutter, under the mapping of RelayRendezvous.         *)

\* A connection is joined exactly to the connection that claimed it, or that
\* it claimed: the CHOOSE of the mapping has one candidate.
LEMMA JoinedToValue ==
    ASSUME TypeOK, RelayInv, NEW s \in Socks
    PROVE  /\ pc[s] = "spliced" => JoinedTo(s) = token[s]
           /\ \A r \in Socks : ClaimedBy(r, s) => JoinedTo(s) = r
           /\ (pc[s] # "spliced" /\ \A r \in Socks : ~ClaimedBy(r, s))
                 => JoinedTo(s) = None
<1>1. SpliceExclusive
  BY DEF RelayInv, SpliceInv
<1>2. ASSUME NEW r \in Socks, ClaimedBy(r, s)
      PROVE  pc[s] # "spliced" /\ \A q \in Socks : ClaimedBy(q, s) => q = r
  BY <1>1, <1>2 DEF SpliceExclusive, ClaimedBy
<1>3. ASSUME NEW r \in Socks, ClaimedBy(r, s) PROVE JoinedTo(s) = r
  <2>1. (CHOOSE q \in Socks : ClaimedBy(q, s)) = r
    BY <1>2, <1>3
  <2> QED
    BY <1>2, <1>3, <2>1 DEF JoinedTo
<1> QED
  BY <1>3 DEF JoinedTo

\* The cases of Phase exclude each other in every state the relay can reach.
LEMMA PhaseValue ==
    ASSUME TypeOK, RelayInv, NEW s \in Socks
    PROVE  /\ pc[s] = "none" => Phase(s) = "unborn"
           /\ pc[s] \in {"token", "tls"} => Phase(s) = "open"
           /\ ReceiverAlive(s) => Phase(s) = "control"
           /\ pending_tokens[s] # None => Phase(s) = "waiting"
           /\ JoinedTo(s) # None => Phase(s) = "joined"
           /\ (/\ pc[s] \in {"notify", "done", "teardown"}
              /\ pending_tokens[s] = None /\ JoinedTo(s) = None)
                 => Phase(s) = "closed"
<1>1. SpliceExclusive /\ ParkInv
  BY DEF RelayInv, SpliceInv
<1>2. pending_tokens[s] # None => pc[s] \in {"notify", "done"} /\ JoinedTo(s) = None
  BY <1>1, JoinedToValue DEF SpliceExclusive, ParkInv, ClaimedBy
<1>3. JoinedTo(s) # None => pc[s] \in {"spliced", "done"}
  BY <1>1 DEF SpliceExclusive, JoinedTo, ClaimedBy
<1> QED
  BY <1>2, <1>3 DEF Phase, ReceiverAlive

\* The initial states of the relay map to the initial state of the rendezvous.
LEMMA RendezvousInit == Init => R!Init
<1> SUFFICES ASSUME Init PROVE R!Init
  OBVIOUS
<1>1. TypeOK /\ RelayInv
  BY TypeInit, SafetyInit
<1>2. ASSUME NEW s \in Socks PROVE Phase(s) = "unborn" /\ JoinedTo(s) = None
  BY <1>1, PhaseValue, JoinedToValue DEF Init, ClaimedBy
<1>3. conn = [s \in Socks |-> "unborn"] /\ partner = [s \in Socks |-> None]
  BY <1>2 DEF conn, partner
<1>4. dialled = [s \in Socks |-> None]
  BY CertsAssumption DEF Init, dialled
<1> QED
  BY <1>3, <1>4 DEF Init, R!Init
-----------------------------------------------------------------------------
(* Steps.                                                                  *)

Unjoined(s) == pc[s] # "spliced" /\ \A r \in Socks : ~ClaimedBy(r, s)

\* The abstract state of a connection, read off the relay's.
Mapping ==
    \A s \in Socks :
        /\ pc[s] = "none" => conn[s] = "unborn" /\ partner[s] = None
        /\ pc[s] \in {"token", "tls"} => conn[s] = "open" /\ partner[s] = None
        /\ ReceiverAlive(s) => conn[s] = "control" /\ partner[s] = None
        /\ pc[s] \in {"notify", "done", "teardown"} /\ Unjoined(s) =>
              /\ partner[s] = None
              /\ pending_tokens[s] # None => conn[s] = "waiting"
              /\ pending_tokens[s] = None => conn[s] = "closed"
        /\ pc[s] = "spliced" => conn[s] = "joined" /\ partner[s] = token[s]
        /\ \A r \in Socks : ClaimedBy(r, s) => conn[s] = "joined" /\ partner[s] = r

\* The mapping reads every connection as intended (the code's RelayState and
\* tasks determine the phase of a connection).
LEMMA MappingHolds == TypeOK /\ RelayInv => Mapping
<1> SUFFICES ASSUME TypeOK, RelayInv, NEW s \in Socks
             PROVE  /\ pc[s] = "none" => Phase(s) = "unborn" /\ JoinedTo(s) = None
                    /\ pc[s] \in {"token", "tls"} => Phase(s) = "open" /\ JoinedTo(s) = None
                    /\ ReceiverAlive(s) => Phase(s) = "control" /\ JoinedTo(s) = None
                    /\ pc[s] \in {"notify", "done", "teardown"} /\ Unjoined(s) =>
                          /\ JoinedTo(s) = None
                          /\ pending_tokens[s] # None => Phase(s) = "waiting"
                          /\ pending_tokens[s] = None => Phase(s) = "closed"
                    /\ pc[s] = "spliced" => Phase(s) = "joined" /\ JoinedTo(s) = token[s]
                    /\ \A r \in Socks :
                          ClaimedBy(r, s) => Phase(s) = "joined" /\ JoinedTo(s) = r
  BY DEF Mapping, conn, partner
<1>1. SpliceExclusive
  BY DEF RelayInv, SpliceInv
<1>2. pc[s] = "spliced" => token[s] \in Socks /\ JoinedTo(s) = token[s]
  BY <1>1, JoinedToValue DEF SpliceExclusive
<1>3. \A r \in Socks : ClaimedBy(r, s) => pc[s] = "done" /\ JoinedTo(s) = r
  BY <1>1, JoinedToValue DEF SpliceExclusive, ClaimedBy
<1>4. Unjoined(s) => JoinedTo(s) = None
  BY JoinedToValue DEF Unjoined
<1>5. pc[s] \in {"none", "token", "tls", "allclear", "serving"} => JoinedTo(s) = None
  BY <1>3, <1>4 DEF Unjoined
<1>6. None \notin Socks
  BY SocksAssumption
<1> QED
  BY <1>2, <1>3, <1>4, <1>5, <1>6, PhaseValue DEF ReceiverAlive

\* A step that concerns one connection that is not joined to another changes
\* the phase of that connection at most.
LEMMA AloneStep ==
    ASSUME TypeOK, RelayInv, Mapping, Mapping', TypeOK', NEW s \in Socks,
           Unjoined(s), pc'[s] # "spliced",
           \A u \in Socks \ {s} : /\ pc'[u] = pc[u] /\ token'[u] = token[u]
                                  /\ pending_tokens'[u] = pending_tokens[u]
    PROVE  conn' = [conn EXCEPT ![s] = conn'[s]] /\ UNCHANGED partner
<1>1. \A r, u \in Socks : ClaimedBy(r, u)' <=> ClaimedBy(r, u)
  BY DEF ClaimedBy, Unjoined
<1>2. partner[s] = None
  BY DEF Mapping, Unjoined, ReceiverAlive, TypeOK, PCs
<1>3. partner'[s] = None
  BY <1>1 DEF Mapping, Unjoined, ReceiverAlive, TypeOK, PCs
<1>4. ASSUME NEW u \in Socks, u # s PROVE conn'[u] = conn[u] /\ partner'[u] = partner[u]
  <2>1. pc'[u] = pc[u] /\ pc[u] \in PCs /\ pending_tokens'[u] = pending_tokens[u]
        /\ token'[u] = token[u]
    BY <1>4 DEF TypeOK
  <2> QED
    BY <2>1, <1>1 DEF Mapping, Unjoined, ReceiverAlive, PCs
<1>5. ASSUME NEW u \in Socks PROVE partner'[u] = partner[u]
  BY <1>2, <1>3, <1>4
<1>6. /\ DOMAIN conn = Socks /\ DOMAIN conn' = Socks
      /\ conn = [u \in Socks |-> conn[u]] /\ conn' = [u \in Socks |-> conn'[u]]
  BY DEF conn
<1>7. partner = [u \in Socks |-> partner[u]] /\ partner' = [u \in Socks |-> partner'[u]]
  BY DEF partner
<1>8. UNCHANGED partner
  BY <1>5, <1>7
<1>9. conn' = [conn EXCEPT ![s] = conn'[s]]
  BY <1>4, <1>6
<1> QED
  BY <1>8, <1>9

\* Nobody claims a connection before its task is done, nor while it is parked.
LEMMA UnjoinedWhen ==
    ASSUME RelayInv, NEW s \in Socks,
           pc[s] \notin {"spliced", "done"} \/ (pending_tokens[s] # None /\ pc[s] # "spliced")
    PROVE  Unjoined(s)
  BY DEF RelayInv, SpliceInv, SpliceExclusive, ClaimedBy, Unjoined

\* A connection that is neither parked nor joined closes, alone.
LEMMA CloseStep ==
    ASSUME TypeOK, RelayInv, Mapping, Mapping', TypeOK', NEW s \in Socks, NEW label,
           pc[s] \in {"none", "token", "tls", "allclear", "serving"},
           label \in {"done", "teardown"}, Goto(s, label),
           UNCHANGED <<token, remote_cert, pending_tokens, told>>
    PROVE  R!Close(s)
<1>1. pc'[s] = label /\ \A u \in Socks \ {s} : pc'[u] = pc[u]
  BY DEF Goto, TypeOK
<1>2. pending_tokens[s] = None /\ Unjoined(s)
  BY UnjoinedWhen DEF RelayInv, ParkInv
<1>3. conn[s] \in {"unborn", "open", "control"}
  BY DEF Mapping, ReceiverAlive
<1>4. Unjoined(s)'
  BY <1>1, <1>2 DEF Unjoined, ClaimedBy
<1>5. conn'[s] = "closed"
  BY <1>1, <1>2, <1>4 DEF Mapping
<1>6. conn' = [conn EXCEPT ![s] = "closed"] /\ UNCHANGED partner
  BY <1>1, <1>2, <1>5, AloneStep
<1>7. UNCHANGED dialled
  BY DEF dialled
<1> QED
  BY <1>3, <1>6, <1>7 DEF R!Close

\* Two joined connections end together, when the task that splices them ends.
LEMMA PartStep ==
    ASSUME TypeOK, RelayInv, Mapping, Mapping', NEW s \in Socks,
           pc[s] = "spliced", Goto(s, "done"),
           UNCHANGED <<token, remote_cert, pending_tokens, told>>
    PROVE  R!Part(s)
<1> DEFINE t == token[s]
<1>1. /\ t \in Socks /\ pending_tokens[t] = None /\ pc[t] = "done"
      /\ \A r \in Socks \ {s} : pc[r] = "spliced" => token[r] # t
  BY DEF RelayInv, SpliceInv, SpliceExclusive
<1>2. pending_tokens[s] = None /\ \A r \in Socks : ~ClaimedBy(r, s)
  BY DEF RelayInv, ParkInv, SpliceInv, SpliceExclusive, ClaimedBy
<1>3. conn[s] = "joined" /\ partner[s] = t
  BY DEF Mapping
<1>4. \A r, u \in Socks : ClaimedBy(r, u)' <=> ClaimedBy(r, u) /\ r # s
  BY DEF ClaimedBy, Goto, TypeOK
<1>5. conn'[s] = "closed" /\ partner'[s] = None
  BY <1>2, <1>4 DEF Mapping, Unjoined, Goto, TypeOK
<1>6. conn'[t] = "closed" /\ partner'[t] = None
  <2>1. pc'[t] = "done" /\ \A r \in Socks : ~ClaimedBy(r, t)'
    BY <1>1, <1>4 DEF Goto, TypeOK, ClaimedBy
  <2> QED
    BY <1>1, <2>1 DEF Mapping, Unjoined
<1>7. ASSUME NEW u \in Socks, u # s, u # t
      PROVE  conn'[u] = conn[u] /\ partner'[u] = partner[u]
  <2>1. pc'[u] = pc[u] /\ pc[u] \in PCs
    BY <1>7 DEF Goto, TypeOK
  <2>2. \A r \in Socks : ClaimedBy(r, u)' <=> ClaimedBy(r, u)
    BY <1>4, <1>7 DEF ClaimedBy
  <2> QED
    BY <2>1, <2>2 DEF Mapping, Unjoined, ReceiverAlive, PCs
<1>8. conn' = [conn EXCEPT ![s] = "closed", ![t] = "closed"]
  BY <1>5, <1>6, <1>7 DEF conn
<1>9. partner' = [partner EXCEPT ![s] = None, ![t] = None]
  BY <1>5, <1>6, <1>7 DEF partner
<1>10. UNCHANGED dialled
  BY DEF dialled
<1> QED
  BY <1>3, <1>8, <1>9, <1>10 DEF R!Part

\* A claim joins the claiming connection and the parked one.
LEMMA JoinStep ==
    ASSUME TypeOK, RelayInv, Mapping, Mapping', NEW s \in Socks, NEW t \in Socks,
           ClaimSplice(s, t)
    PROVE  R!Join(s, t)
<1> USE DEF ClaimSplice, Unpark, Goto, TypeOK
<1>1. pc[t] = "done" /\ (\A r \in Socks : ~ClaimedBy(r, t)) /\ s # t
  BY DEF RelayInv, AnnounceInv, Announced, ToldTokens, SpliceInv, SpliceExclusive,
         ClaimedBy
<1>2. pending_tokens[s] = None /\ \A r \in Socks : ~ClaimedBy(r, s)
  BY DEF RelayInv, ParkInv, SpliceInv, SpliceExclusive, ClaimedBy
<1>3. conn[s] = "open" /\ conn[t] = "waiting"
  BY <1>1 DEF Mapping, Unjoined
<1>4. \A r, u \in Socks : ClaimedBy(r, u)' <=> ClaimedBy(r, u) \/ (r = s /\ u = t)
  BY DEF ClaimedBy
<1>5. conn'[s] = "joined" /\ partner'[s] = t
  BY DEF Mapping
<1>6. conn'[t] = "joined" /\ partner'[t] = s
  BY <1>4 DEF Mapping
<1>7. ASSUME NEW u \in Socks, u # s, u # t
      PROVE  conn'[u] = conn[u] /\ partner'[u] = partner[u]
  <2>1. /\ pc'[u] = pc[u] /\ pc[u] \in PCs /\ token'[u] = token[u]
        /\ pending_tokens'[u] = pending_tokens[u]
    BY <1>7
  <2>2. \A r \in Socks : ClaimedBy(r, u)' <=> ClaimedBy(r, u)
    BY <1>4, <1>7
  <2> QED
    BY <2>1, <2>2 DEF Mapping, Unjoined, ReceiverAlive, PCs
<1>8. conn' = [conn EXCEPT ![s] = "joined", ![t] = "joined"]
  BY <1>5, <1>6, <1>7 DEF conn
<1>9. partner' = [partner EXCEPT ![s] = t, ![t] = s]
  BY <1>5, <1>6, <1>7 DEF partner
<1>10. UNCHANGED dialled
  BY CertsAssumption DEF dialled, RelayInv, FreshInv
<1>11. \E c \in Socks : t \in told[c]
  BY DEF ToldTokens
<1> QED
  BY <1>3, <1>8, <1>9, <1>10, <1>11 DEF R!Join, chans

\* The step lemma of the refinement: accept opens, registration
\* authenticates, a lookup dials, a notification that was read is an offer, a
\* splice token joins, every way out closes or parts, and the rest - TLS,
\* channels, cleanup, shutdown - is invisible.
LEMMA RendezvousNext ==
    TypeOK /\ RelayInv /\ TypeOK' /\ RelayInv' /\ [Next]_vars => [R!Next]_(R!vars)
<1> SUFFICES ASSUME TypeOK, RelayInv, TypeOK', RelayInv', [Next]_vars
             PROVE  R!Next \/ UNCHANGED R!vars
  OBVIOUS
<1>a. Mapping /\ Mapping'
  BY MappingHolds, PTL
<1>b. ASSUME NEW s \in Socks, R!Close(s) \/ R!Part(s) \/ R!Open(s) PROVE R!Next
  BY <1>b DEF R!Next
<1>1. ASSUME NEW s \in Socks, NEW ip \in Ips, Accept(s, ip) PROVE R!Open(s)
  <2>1. pc[s] = "none" /\ pc'[s] = "token" /\ \A u \in Socks \ {s} : pc'[u] = pc[u]
    BY <1>1 DEF Accept, Goto, TypeOK
  <2>2. UNCHANGED <<token, remote_cert, pending_tokens, told>>
    BY <1>1 DEF Accept, state, chans
  <2>3. conn[s] = "unborn" /\ conn'[s] = "open"
    BY <1>a, <2>1 DEF Mapping
  <2>4. conn' = [conn EXCEPT ![s] = "open"] /\ UNCHANGED partner
    BY <1>a, <2>1, <2>2, <2>3, UnjoinedWhen, AloneStep
  <2> QED
    BY <2>2, <2>3, <2>4 DEF R!Open, dialled
<1>2. ASSUME NEW s \in Socks, DropAtAccept(s) PROVE R!Close(s)
  BY <1>a, <1>2, CloseStep DEF DropAtAccept, locals, state, chans
<1>3. ASSUME NEW s \in Socks, TokenTimeout(s) \/ \E k \in KnownTokens : DropSocket(s, k)
      PROVE  R!Close(s)
  BY <1>a, <1>3, CloseStep DEF TokenTimeout, DropSocket, End, locals, state, chans
<1>4. ASSUME NEW s \in Socks, HandshakeFails(s) \/ RegisterOverIp(s) PROVE R!Close(s)
  BY <1>a, <1>4, CloseStep DEF HandshakeFails, RegisterOverIp, EndControl, End,
                               locals, state, chans
<1>5. ASSUME NEW s \in Socks, SendersGone(s) \/ StreamEnds(s) PROVE R!Close(s)
  BY <1>a, <1>5, CloseStep DEF SendersGone, StreamEnds, ReceiverAlive,
                               DropReceiver, locals, state
<1>6. ASSUME NEW s \in Socks, SpliceEnds(s) PROVE R!Part(s)
  BY <1>a, <1>6, PartStep DEF SpliceEnds, End, locals, state, chans
<1>7. ASSUME NEW s \in Socks, NEW t \in Socks, ClaimSplice(s, t) PROVE R!Next
  <2>1. R!Join(s, t)
    BY <1>a, <1>7, JoinStep
  <2> QED
    BY <2>1 DEF R!Next
<1>8. ASSUME NEW s \in Socks, NEW k \in Certs, DialControl(s, k) PROVE R!Next
  <2>1. /\ pc[s] = "token" /\ pc'[s] = "notify" /\ token'[s] = k
        /\ pending_tokens'[s] # None
        /\ \A u \in Socks \ {s} : /\ pc'[u] = pc[u] /\ token'[u] = token[u]
                                  /\ pending_tokens'[u] = pending_tokens[u]
    BY <1>8 DEF DialControl, Park, Goto, TypeOK
  <2>2. UNCHANGED <<remote_cert, told>>
    BY <1>8 DEF DialControl, chans
  <2>3. Unjoined(s) /\ Unjoined(s)'
    BY <2>1, UnjoinedWhen DEF Unjoined, ClaimedBy
  <2>4. conn[s] = "open" /\ conn'[s] = "waiting"
    BY <1>a, <2>1, <2>3 DEF Mapping
  <2>5. conn' = [conn EXCEPT ![s] = "waiting"] /\ UNCHANGED partner
    BY <1>a, <2>1, <2>3, <2>4, AloneStep
  <2>6. dialled' = [dialled EXCEPT ![s] = k]
    BY <2>1 DEF dialled
  <2>7. R!Dial(s, k)
    BY <2>2, <2>4, <2>5, <2>6 DEF R!Dial
  <2> QED
    BY <2>7 DEF R!Next
<1>9. ASSUME NEW t \in Socks, PendingTimeout(t) PROVE R!Close(t)
  <2>1. /\ pending_tokens[t] # None /\ pending_tokens'[t] = None
        /\ pc[t] \in {"notify", "done"}
        /\ \A u \in Socks \ {t} : pending_tokens'[u] = pending_tokens[u]
    BY <1>9 DEF PendingTimeout, Unpark, RelayInv, ParkInv, TypeOK
  <2>2. UNCHANGED <<pc, token, remote_cert, told>>
    BY <1>9 DEF PendingTimeout, locals, chans
  <2>3. Unjoined(t) /\ Unjoined(t)'
    BY <2>1, <2>2, UnjoinedWhen DEF Unjoined, ClaimedBy
  <2>4. conn[t] = "waiting" /\ conn'[t] = "closed"
    BY <1>a, <2>1, <2>2, <2>3 DEF Mapping
  <2>5. conn' = [conn EXCEPT ![t] = "closed"] /\ UNCHANGED partner
    BY <1>a, <2>1, <2>2, <2>3, <2>4, AloneStep DEF Unjoined
  <2> QED
    BY <2>2, <2>4, <2>5 DEF R!Close, dialled
<1>10. ASSUME NEW s \in Socks, NEW k \in Certs, Register(s, k) PROVE R!Next
  <2>1. pc[s] = "tls" /\ pc'[s] = "allclear" /\ \A u \in Socks \ {s} : pc'[u] = pc[u]
    BY <1>10 DEF Register, Goto, TypeOK
  <2>2. /\ UNCHANGED <<token, pending_tokens, told>>
        /\ remote_cert' = [remote_cert EXCEPT ![s] = k]
    BY <1>10 DEF Register, chans
  <2>3. conn[s] = "open" /\ conn'[s] = "control"
    BY <1>a, <2>1 DEF Mapping, ReceiverAlive
  <2>4. conn' = [conn EXCEPT ![s] = "control"] /\ UNCHANGED partner
    BY <1>a, <2>1, <2>2, <2>3, UnjoinedWhen, AloneStep
  <2>5. R!Authenticate(s, k)
    BY <2>2, <2>3, <2>4 DEF R!Authenticate, dialled
  <2> QED
    BY <2>5 DEF R!Next
<1>11. ASSUME NEW c \in Socks, WriteDone(c) PROVE R!Next
  <2> DEFINE p == writing[c]
  <2>1. /\ pc[c] = "serving" /\ p \in Socks
        /\ told' = [told EXCEPT ![c] = @ \cup {p}]
        /\ UNCHANGED <<pc, token, remote_cert, pending_tokens>>
    BY <1>11 DEF WriteDone, locals, state, TypeOK
  <2>2. /\ p \in Announced(c) /\ p \notin told[c]
    BY <2>1, SocksAssumption DEF Announced, RelayInv, OnceInv
  <2>3. /\ pc[p] = "done" /\ via[p] = c
        /\ token[p] \in Certs /\ token[p] = remote_cert[c]
    BY <2>1, <2>2 DEF RelayInv, AnnounceInv
  <2>4. \A r \in Socks : ~ClaimedBy(r, p)
    <3> SUFFICES ASSUME NEW r \in Socks, ClaimedBy(r, p) PROVE FALSE
      OBVIOUS
    <3>1. p \in told[via[r]]
      BY DEF ClaimedBy, RelayInv, SpliceInv
    <3>2. via[r] \in Socks
      BY DEF ClaimedBy, RelayInv, SpliceInv, TypeOK
    <3>3. via[p] = via[r]
      BY <3>1, <3>2 DEF RelayInv, AnnounceInv, Announced
    <3> QED
      BY <3>1, <3>3, <2>2, <2>3
  <2>5. conn[c] = "control" /\ conn[p] \in {"waiting", "closed"}
    BY <1>a, <2>1, <2>3, <2>4 DEF Mapping, ReceiverAlive, Unjoined
  <2>6. UNCHANGED <<conn, dialled, partner>>
    BY <2>1 DEF conn, dialled, partner, Phase, JoinedTo, ClaimedBy, ReceiverAlive
  <2>7. dialled[p] = token[p] /\ dialled[p] # None
    BY <2>1, <2>3, CertsAssumption DEF dialled
  <2>8. R!Offer(c, p)
    BY <2>1, <2>2, <2>3, <2>5, <2>6, <2>7 DEF R!Offer
  <2> QED
    BY <2>1, <2>8 DEF R!Next
<1>12. ASSUME NEW s \in Socks,
              \/ OpenControl(s) \/ AllClear(s) \/ SendNotify(s) \/ SendFails(s) \/ Teardown(s)
              \/ Cancel(s) /\ pc[s] = "notify"
       PROVE  UNCHANGED R!vars
  <2>1. /\ UNCHANGED <<pending_tokens, remote_cert, told>>
        /\ pc[s] \notin {"spliced", "done"} /\ pc'[s] # "spliced"
        /\ \A u \in Socks \ {s} : pc'[u] = pc[u] /\ token'[u] = token[u]
    BY <1>12 DEF OpenControl, AllClear, SendNotify, SendFails, Teardown, Cancel,
                 EndControl, End, Goto, ReceiverAlive, locals, state, chans, TypeOK
  <2>2. Unjoined(s) /\ Unjoined(s)'
    BY <2>1, UnjoinedWhen DEF Unjoined, ClaimedBy
  <2>3. \/ pc[s] = "token" /\ pc'[s] = "tls"
        \/ pc[s] = "allclear" /\ pc'[s] = "serving"
        \/ pc[s] \in {"notify", "teardown"} /\ pc'[s] = "done"
    BY <1>12 DEF OpenControl, AllClear, SendNotify, SendFails, Teardown, Cancel,
                 EndControl, End, Goto, ReceiverAlive, TypeOK
  <2>4. conn'[s] = conn[s]
    BY <1>a, <2>1, <2>2, <2>3 DEF Mapping, ReceiverAlive
  <2>5. UNCHANGED <<conn, partner>>
    <3>1. conn' = [conn EXCEPT ![s] = conn'[s]] /\ UNCHANGED partner
      BY <1>a, <2>1, <2>2, AloneStep
    <3> QED
      BY <3>1, <2>4 DEF conn
  <2>6. UNCHANGED dialled
    BY <1>12, CertsAssumption
       DEF OpenControl, AllClear, SendNotify, SendFails, Teardown, Cancel, locals,
           dialled, RelayInv, FreshInv, TypeOK
  <2> QED
    BY <2>1, <2>5, <2>6 DEF R!vars
<1>13. ASSUME NEW s \in Socks, Cancel(s)
       PROVE  R!Close(s) \/ R!Part(s) \/ UNCHANGED R!vars
  <2>1. /\ UNCHANGED <<token, remote_cert, pending_tokens, told>> /\ Goto(s, "done")
        /\ pc[s] \in {"token", "tls", "allclear", "serving", "notify", "spliced"}
    BY <1>13 DEF Cancel, EndControl, End, DropReceiver, ReceiverAlive, locals,
                 state, chans
  <2>2. CASE pc[s] = "notify"
    BY <1>12, <1>13, <2>2
  <2>3. CASE pc[s] = "spliced"
    BY <1>a, <2>1, <2>3, PartStep
  <2>4. CASE pc[s] \in {"token", "tls", "allclear", "serving"}
    BY <1>a, <2>1, <2>4, CloseStep
  <2> QED
    BY <2>1, <2>2, <2>3, <2>4
<1>14. CASE (\E s \in Socks : RecvCmd(s)) \/ RelayDrop \/ StopListening \/ UNCHANGED vars
  <2>1. UNCHANGED <<pc, token, remote_cert, pending_tokens, told>>
    BY <1>14 DEF RecvCmd, RelayDrop, StopListening, vars, locals, state, chans
  <2> QED
    BY <2>1 DEF R!vars, conn, dialled, partner, Phase, JoinedTo, ClaimedBy,
                ReceiverAlive
<1> QED
  BY <1>b, <1>1, <1>2, <1>3, <1>4, <1>5, <1>6, <1>7, <1>8, <1>9, <1>10, <1>11,
     <1>12, <1>13, <1>14 DEF Next, Terminated

\* The relay implements the rendezvous of its protocol documentation, for any
\* number of connections and digests and any limits.
THEOREM RelayImplementsRendezvous == Spec => RendezvousSpec
<1>1. Spec => [](TypeOK /\ RelayInv)
  BY RelayTypeOK, RelaySafety, PTL
<1> QED
  BY <1>1, RendezvousInit, RendezvousNext, PTL DEF Spec, RendezvousSpec, R!Spec
=============================================================================
