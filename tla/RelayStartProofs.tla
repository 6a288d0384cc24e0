-------------------------- MODULE RelayStartProofs --------------------------
(***************************************************************************)
(* Theorems about RelayStart for any number of calls of new, that bind any *)
(* addresses of one host.                                                  *)
(***************************************************************************)
EXTENDS RelayStart, TLAPS

-----------------------------------------------------------------------------
(* What a call binds is tied to the listeners that the host has: neither   *)
(* property is inductive without it, since an accept loop outlives the     *)
(* call that spawned it and another call may have the address next.        *)

\* A listener is held by a bind that succeeded; it lasts at least as long as
\* the call, or the relay that it returned, is alive.
HeldInv ==
    /\ \A a \in Addrs : held[a] # None => fut[held[a]][a] = "bound"
    /\ \A r \in Relays : new[r] \in {"binding", "ok"} =>
          \A a \in Addrs : fut[r][a] = "bound" => held[a] = r

\* The binds are those of config.bind; new returns a relay when all of them
\* are done, and an error while one is not.
FutInv ==
    \A r \in Relays :
        /\ \A a \in Addrs : fut[r][a] # "none" => a \in Bind[r]
        /\ new[r] = "idle" => \A a \in Addrs : fut[r][a] = "none"
        /\ new[r] = "ok" => AllBound(r)
        /\ new[r] = "failed" /\ Bind[r] # {} => ~AllBound(r)

StartInv == TypeOK /\ HeldInv /\ FutInv

\* Nothing runs and nothing is bound at first (relay.rs, 215-240).
LEMMA StartInit == Init => StartInv
  BY DEF Init, StartInv, TypeOK, HeldInv, FutInv, AllBound

\* A call that ends without a relay drops its pending binds, and those only:
\* one of them at least was not bound (relay.rs, 258-261).
LEMMA GivesUpKeeps ==
    ASSUME StartInv, NEW r \in Relays, new[r] = "binding", ~AllBound(r),
           GivesUp(r), UNCHANGED held
    PROVE  StartInv'
<1> USE StartAssumption DEF StartInv, GivesUp
<1>1. TypeOK'
  BY DEF TypeOK
<1>2. \A q \in Relays, a \in Addrs :
        /\ fut'[q][a] = "bound" <=> fut[q][a] = "bound"
        /\ fut'[q][a] = "none" <=> fut[q][a] = "none"
  BY DEF TypeOK
<1>3. /\ \A q \in Relays : q # r => new'[q] = new[q]
      /\ new'[r] = "failed"
  BY DEF TypeOK
<1>4. \A q \in Relays : AllBound(q)' <=> AllBound(q)
  BY <1>2 DEF AllBound
<1>5. HeldInv'
  BY <1>2, <1>3 DEF HeldInv, TypeOK
<1>6. FutInv'
  BY <1>2, <1>3, <1>4 DEF FutInv
<1> QED
  BY <1>1, <1>5, <1>6

\* Every step keeps the invariant.
LEMMA StartNext == StartInv /\ [Next]_vars => StartInv'
<1> SUFFICES ASSUME StartInv, [Next]_vars PROVE StartInv'
  OBVIOUS
<1> USE StartAssumption DEF StartInv
<1>1. ASSUME NEW r \in Relays, StartsToBind(r) PROVE StartInv'
  <2>1. TypeOK'
    BY <1>1 DEF StartsToBind, TypeOK
  <2>2. \A q \in Relays : q # r => new'[q] = new[q] /\ fut'[q] = fut[q]
    BY <1>1 DEF StartsToBind, TypeOK
  <2>3. /\ new[r] = "idle" /\ new'[r] = "binding" /\ UNCHANGED held
        /\ \A a \in Addrs : fut'[r][a] = IF a \in Bind[r] THEN "pending" ELSE "none"
    BY <1>1 DEF StartsToBind, TypeOK
  <2>4. HeldInv'
    <3>1. \A a \in Addrs : held[a] # r
      BY <2>3 DEF HeldInv, FutInv
    <3>2. \A a \in Addrs : held[a] # None => fut'[held[a]][a] = "bound"
      BY <2>2, <3>1 DEF TypeOK, HeldInv
    <3>3. \A a \in Addrs : fut'[r][a] # "bound"
      BY <2>3
    <3> QED
      BY <2>2, <2>3, <3>2, <3>3 DEF HeldInv
  <2>5. FutInv'
    BY <2>2, <2>3 DEF TypeOK, FutInv, AllBound
  <2> QED
    BY <2>1, <2>4, <2>5
<1>2. ASSUME NEW r \in Relays, LookupFails(r) PROVE StartInv'
  BY <1>2 DEF LookupFails, TypeOK, HeldInv, FutInv, AllBound
<1>3. ASSUME NEW r \in Relays, CallerDrops(r) PROVE StartInv'
  BY <1>3, GivesUpKeeps DEF CallerDrops
<1>4. ASSUME NEW r \in Relays, NewOk(r) PROVE StartInv'
  BY <1>4 DEF NewOk, TypeOK, HeldInv, FutInv, AllBound
<1>5. ASSUME NEW r \in Relays, DropRelay(r) PROVE StartInv'
  BY <1>5 DEF DropRelay, Terminate, TypeOK, HeldInv, FutInv, AllBound
<1>6. ASSUME NEW r \in Relays, NEW a \in Addrs, BindOk(r, a) PROVE StartInv'
  <2>1. TypeOK'
    BY <1>6 DEF BindOk, TypeOK
  <2>2. HeldInv'
    BY <1>6 DEF BindOk, TypeOK, HeldInv
  <2>3. FutInv'
    BY <1>6 DEF BindOk, TypeOK, FutInv, AllBound
  <2> QED
    BY <2>1, <2>2, <2>3
<1>7. ASSUME NEW r \in Relays, NEW a \in Addrs, BindFails(r, a) PROVE StartInv'
  <2>1. ~AllBound(r)
    BY <1>7 DEF BindFails, FutInv, AllBound
  <2> QED
    BY <1>7, <2>1, GivesUpKeeps DEF BindFails, Unspawned
<1>8. ASSUME NEW a \in Addrs, LoopEnds(a) PROVE StartInv'
  <2>1. new[held[a]] = "dropped"
    BY <1>8 DEF LoopEnds, TypeOK
  <2>2. TypeOK'
    BY <1>8 DEF LoopEnds, TypeOK
  <2>3. HeldInv' /\ FutInv'
    BY <1>8, <2>1 DEF LoopEnds, TypeOK, HeldInv, FutInv, AllBound
  <2> QED
    BY <2>2, <2>3
<1>9. CASE UNCHANGED vars
  BY <1>9 DEF vars, TypeOK, HeldInv, FutInv, AllBound
<1> QED
  BY <1>1, <1>2, <1>3, <1>4, <1>5, <1>6, <1>7, <1>8, <1>9 DEF Next

\* The invariant holds in every state of the host.
LEMMA StartAlways == Spec => []StartInv
  BY StartInit, StartNext, PTL DEF Spec

-----------------------------------------------------------------------------
(* Theorems.                                                               *)

\* Types are right, and the Term of a call is triggered by the drop of its
\* relay and by nothing else (relay.rs, 199-203).
THEOREM StartTypeOK == Spec => []TypeOK
<1>1. StartInv => TypeOK
  BY DEF StartInv
<1> QED
  BY <1>1, StartAlways, PTL

\* A relay that was returned accepts on each of its addresses until it is
\* dropped, however many other calls try to bind there (relay.rs, 215-276).
THEOREM StartOkListens == Spec => []OkListens
<1>1. StartInv => OkListens
  BY StartAssumption DEF StartInv, HeldInv, FutInv, AllBound, OkListens, TypeOK
<1> QED
  BY <1>1, StartAlways, PTL

\* A call that failed leaves at least one of its addresses to others, at any
\* time later (relay.rs, 258-261, 289-305).
THEOREM StartFailedHoldsNotAll == Spec => []FailedHoldsNotAll
<1>1. StartInv => FailedHoldsNotAll
  BY StartAssumption DEF StartInv, HeldInv, FutInv, AllBound, FailedHoldsNotAll, TypeOK
<1> QED
  BY <1>1, StartAlways, PTL
=============================================================================
