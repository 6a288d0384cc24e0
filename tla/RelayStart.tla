----------------------------- MODULE RelayStart -----------------------------
(***************************************************************************)
(* Relays that start and stop on the same host: Tx3Relay::new, the binding *)
(* half of bind_tx3_rst and Drop (crates/tx3/src/relay.rs).                *)
(*                                                                         *)
(* new looks up every address of config.bind, then binds them all at once  *)
(* (try_join_all).  A bind that succeeds spawns an accept loop, which owns *)
(* the listener, under the Term of this call.  When one bind fails, or the *)
(* caller of new drops its future, the other binds are dropped and that is *)
(* all: nothing triggers the Term, so loops already spawned keep their     *)
(* listeners for as long as the process runs.                              *)
(* Dropping a Tx3Relay triggers its Term, and its loops end when the       *)
(* runtime gets to them.                                                   *)
(*                                                                         *)
(* A relay is one call of new.  The system lets one listener at a time     *)
(* have an address.  What a relay does with connections is module Relay.   *)
(*                                                                         *)
(* A definition named X_Y is X with a fault, Y, that such code could have. *)
(***************************************************************************)

CONSTANTS Relays,  \* the calls of new
          Addrs,   \* socket addresses
          Bind,    \* relay -> the addresses its config.bind resolves to
          None     \* no relay

ASSUME StartAssumption ==
    /\ None \notin Relays
    /\ Bind \in [Relays -> SUBSET Addrs]

VARIABLES
    new,    \* each call: idle, binding, ok, failed; dropped after ok
    fut,    \* what became of each bind: none, pending, bound, dropped
    held,   \* the relay whose accept loop has each address
    term    \* its shutdown.term() was called

vars == <<new, fut, held, term>>

Init ==
    /\ new = [r \in Relays |-> "idle"]
    /\ fut = [r \in Relays |-> [a \in Addrs |-> "none"]]
    /\ held = [a \in Addrs |-> None]
    /\ term = [r \in Relays |-> FALSE]

\* Every lookup succeeds and every stack is rst.
StartsToBind(r) ==
    /\ new[r] = "idle"
    /\ new' = [new EXCEPT ![r] = "binding"]
    /\ fut' = [fut EXCEPT ![r] = [a \in Addrs |-> IF a \in Bind[r] THEN "pending" ELSE "none"]]
    /\ UNCHANGED <<held, term>>

\* A name does not resolve or a stack is not supported: nothing is bound yet.
LookupFails(r) ==
    /\ new[r] = "idle"
    /\ new' = [new EXCEPT ![r] = "failed"]
    /\ UNCHANGED <<fut, held, term>>

BindOk(r, a) ==
    /\ new[r] = "binding" /\ fut[r][a] = "pending" /\ held[a] = None
    /\ fut' = [fut EXCEPT ![r][a] = "bound"]
    /\ held' = [held EXCEPT ![a] = r]
    /\ UNCHANGED <<new, term>>

\* The call is over without a relay: what is pending is dropped.
GivesUp(r) ==
    /\ new' = [new EXCEPT ![r] = "failed"]
    /\ fut' = [fut EXCEPT ![r] = [a \in Addrs |-> IF @[a] = "pending" THEN "dropped" ELSE @[a]]]
    /\ UNCHANGED term

\* The address is taken or the system refuses it, or upgrade_addr fails; all
\* of that comes before the spawn, so the listener goes, if there was one.
Unspawned_Listens(r, a) == held' = [held EXCEPT ![a] = IF @ = None THEN r ELSE @]
Unspawned(r, a) == UNCHANGED held

BindFails(r, a) ==
    /\ new[r] = "binding" /\ fut[r][a] = "pending"
    /\ Unspawned(r, a)
    /\ GivesUp(r)

AllBound_Some(r) == \E a \in Bind[r] : fut[r][a] = "bound"
AllBound(r) == \A a \in Bind[r] : fut[r][a] = "bound"

\* The caller of new drops its future; once the last bind is done, new
\* returns without another await.
CallerDrops(r) ==
    /\ new[r] = "binding" /\ ~AllBound(r)
    /\ GivesUp(r)
    /\ UNCHANGED held

NewOk(r) ==
    /\ new[r] = "binding" /\ AllBound(r)
    /\ new' = [new EXCEPT ![r] = "ok"]
    /\ UNCHANGED <<fut, held, term>>

Terminate_Nothing(r) == UNCHANGED term
Terminate(r) == term' = [term EXCEPT ![r] = TRUE]

DropRelay(r) ==
    /\ new[r] = "ok"
    /\ new' = [new EXCEPT ![r] = "dropped"]
    /\ Terminate(r)
    /\ UNCHANGED <<fut, held>>

\* The Term drops the accept loop, and so the listener.
LoopEnds(a) ==
    /\ held[a] # None /\ term[held[a]]
    /\ held' = [held EXCEPT ![a] = None]
    /\ UNCHANGED <<new, fut, term>>

Next ==
    \/ \E r \in Relays : StartsToBind(r) \/ LookupFails(r) \/ CallerDrops(r) \/ NewOk(r) \/ DropRelay(r)
    \/ \E r \in Relays, a \in Addrs : BindOk(r, a) \/ BindFails(r, a)
    \/ \E a \in Addrs : LoopEnds(a)

Spec == Init /\ [][Next]_vars

\* The runtime runs the loops that are to end.
FairSpec == Spec /\ \A a \in Addrs : WF_vars(LoopEnds(a))

-----------------------------------------------------------------------------
(* Properties.                                                             *)

\* Every variable keeps to its type; the Term of a call is triggered by the
\* drop of its relay and by nothing else (199-203).
TypeOK ==
    /\ new \in [Relays -> {"idle", "binding", "ok", "failed", "dropped"}]
    /\ fut \in [Relays -> [Addrs -> {"none", "pending", "bound", "dropped"}]]
    /\ held \in [Addrs -> Relays \cup {None}]
    /\ term \in [Relays -> BOOLEAN]
    /\ \A r \in Relays : term[r] <=> new[r] = "dropped"

\* A relay that was returned accepts on every address it publishes until it
\* is dropped, whoever else starts or fails there (215-276).
OkListens == \A r \in Relays : new[r] = "ok" => \A a \in Bind[r] : held[a] = r

\* A call that failed never holds all its addresses, so the address that
\* failed it can become free again; one with a single address leaves nothing
\* behind (258-261, 289-305).
FailedHoldsNotAll ==
    \A r \in Relays :
        new[r] = "failed" /\ Bind[r] # {} => \E a \in Bind[r] : held[a] # r

\* The addresses of a relay that was dropped become free, although not at
\* once: a new relay there may fail in between (199-203, 297).
DroppedReleases ==
    \A r \in Relays : (new[r] = "dropped") ~> (\A a \in Addrs : held[a] # r)
=============================================================================
