----------------------------- MODULE TermProofs -----------------------------
(***************************************************************************)
(* Theorems about Term for any terms, tasks, callers and assignment of     *)
(* terms to tasks.                                                         *)
(***************************************************************************)
EXTENDS Term, TLAPS

\* The invariant of the proofs: types and what flags, listeners and wake-ups
\* say of each other.
TermInv == TypeOK /\ SignalInv

\* term() has notified every listener (util.rs, 32-36).
LEMMA NotifyKeeps == ASSUME TermInv, NEW c \in Callers, Notify(c) PROVE TermInv'
<1> USE DEF TermInv, TypeOK
<1> DEFINE t == call[c]
<1>1. t \in Terms /\ call' = [call EXCEPT ![c] = None]
  BY DEF Notify
<1>2. /\ signalled' = [k \in Tasks |->
            IF branch[k][t] # "none" THEN signalled[k] \cup {t} ELSE signalled[k]]
      /\ woken' = [k \in Tasks |-> woken[k] \/ branch[k][t] = "armed"]
  BY DEF Notify, Notified, Listening
<1>3. UNCHANGED <<term, task, branch, polling, todo>>
  BY DEF Notify
<1>4. \A u \in Terms : BeingNotified(u) => BeingNotified(u)' \/ u = t
  BY <1>1 DEF BeingNotified
<1>5. \A u \in Terms : BeingNotified(u)' => BeingNotified(u)
  BY <1>1, NamesAssumption DEF BeingNotified
<1>6. \A k \in Tasks : term[t]
  BY <1>1 DEF SignalInv, BeingNotified
<1>7. TypeOK'
  <2>1. signalled' \in [Tasks -> SUBSET Terms] /\ woken' \in [Tasks -> BOOLEAN]
    BY <1>1, <1>2
  <2>2. call' \in [Callers -> Terms \cup {None}]
    BY <1>1
  <2>3. \A k \in Tasks : woken'[k] => task[k] = "running"
    BY <1>1, <1>2 DEF SignalInv
  <2> QED
    BY <1>3, <2>1, <2>2, <2>3
<1>8. SignalInv'
  BY <1>1, <1>2, <1>3, <1>4, <1>5, <1>6 DEF SignalInv
<1> QED
  BY <1>7, <1>8

\* A task that ends has no listener left (util.rs, 64-75).
LEMMA EndKeeps ==
    ASSUME TermInv, NEW k \in Tasks, NEW o \in {"finished", "dropped"},
           EndTask(k, o), UNCHANGED <<term, call>>
    PROVE  TermInv'
<1> USE DEF TermInv, TypeOK, EndTask, Branches
<1>1. TypeOK'
  OBVIOUS
<1>2. SignalInv'
  BY DEF SignalInv, BeingNotified
<1> QED
  BY <1>1, <1>2

\* Every step keeps the invariant (all of util.rs).
LEMMA TermNext == TermInv /\ [Next]_vars => TermInv'
<1> SUFFICES ASSUME TermInv, [Next]_vars PROVE TermInv'
  OBVIOUS
<1> USE DEF TermInv, TypeOK, Branches
<1>1. ASSUME NEW c \in Callers, NEW t \in Terms, Store(c, t) PROVE TermInv'
  <2>1. \A u \in Terms : BeingNotified(u) => BeingNotified(u)'
    BY <1>1, NamesAssumption DEF Store, BeingNotified
  <2>2. BeingNotified(t)'
    BY <1>1 DEF Store, BeingNotified
  <2>3. /\ term' = [term EXCEPT ![t] = TRUE] /\ call' = [call EXCEPT ![c] = t]
        /\ UNCHANGED <<task, branch, signalled, woken, polling, todo>>
    BY <1>1 DEF Store, poll
  <2>4. \A u \in Terms : BeingNotified(u)' => BeingNotified(u) \/ u = t
    BY <2>3 DEF BeingNotified
  <2>5. TypeOK'
    BY <2>3
  <2>6. SignalInv'
    BY <2>1, <2>2, <2>3, <2>4 DEF SignalInv
  <2> QED
    BY <2>5, <2>6
<1>2. ASSUME NEW k \in Tasks, NEW t \in Terms, Listen(k, t) PROVE TermInv'
  BY <1>2 DEF Listen, poll, SignalInv, BeingNotified
<1>3. ASSUME NEW k \in Tasks, Spawn(k) PROVE TermInv'
  <2>1. TypeOK'
    BY <1>3 DEF Spawn
  <2>2. SignalInv'
    BY <1>3 DEF Spawn, SignalInv, BeingNotified
  <2> QED
    BY <2>1, <2>2
<1>4. ASSUME NEW k \in Tasks, Poll(k) PROVE TermInv'
  <2>1. TypeOK'
    BY <1>4, OfAssumption DEF Poll
  <2>2. SignalInv'
    BY <1>4 DEF Poll, SignalInv, BeingNotified
  <2> QED
    BY <2>1, <2>2
<1>5. ASSUME NEW k \in Tasks, NEW t \in Of[k], CheckFlag(k, t) PROVE TermInv'
  <2>0. t \in Terms
    BY OfAssumption
  <2>1. CASE Flag(t)
    BY <1>5, <2>1, EndKeeps DEF CheckFlag
  <2>2. CASE ~Flag(t)
    <3>0. /\ polling[k] /\ t \in todo[k] /\ ~term[t] /\ branch[k][t] = "fresh"
          /\ branch' = [branch EXCEPT ![k][t] = "missed"]
          /\ UNCHANGED <<term, call, task, signalled, woken, polling, todo>>
      BY <1>5, <2>2 DEF CheckFlag, Turn, Flag, poll
    <3>1. TypeOK'
      BY <2>0, <3>0
    <3>2. SignalInv'
      BY <2>0, <3>0 DEF SignalInv, BeingNotified
    <3> QED
      BY <3>1, <3>2
  <2> QED
    BY <2>1, <2>2
<1>6. ASSUME NEW k \in Tasks, NEW t \in Of[k], PollListener(k, t) PROVE TermInv'
  <2>0. t \in Terms
    BY OfAssumption
  <2>1. CASE t \in signalled[k]
    BY <1>6, <2>1, EndKeeps DEF PollListener
  <2>2. CASE t \notin signalled[k]
    <3>0. /\ polling[k] /\ branch[k][t] \in {"missed", "armed"}
          /\ branch' = [branch EXCEPT ![k][t] = "armed"]
          /\ todo' = [todo EXCEPT ![k] = @ \ {t}]
          /\ UNCHANGED <<term, call, task, signalled, woken, polling>>
      BY <1>6, <2>2 DEF PollListener, Polled, Turn
    <3>1. TypeOK'
      BY <2>0, <3>0
    <3>2. SignalInv'
      BY <2>0, <2>2, <3>0 DEF SignalInv, BeingNotified
    <3> QED
      BY <3>1, <3>2
  <2> QED
    BY <2>1, <2>2
<1>7. ASSUME NEW k \in Tasks, PollWork(k) PROVE TermInv'
  <2>1. CASE EndTask(k, "finished")
    BY <1>7, <2>1, EndKeeps DEF PollWork
  <2>2. CASE Polled(k, Work) /\ UNCHANGED branch
    <3>0. /\ todo' = [todo EXCEPT ![k] = @ \ {Work}]
          /\ UNCHANGED <<term, call, task, branch, signalled, woken, polling>>
      BY <1>7, <2>2 DEF PollWork, Polled
    <3>1. TypeOK'
      BY <3>0
    <3>2. SignalInv'
      BY <3>0, NamesAssumption DEF SignalInv, BeingNotified
    <3> QED
      BY <3>1, <3>2
  <2> QED
    BY <1>7, <2>1, <2>2 DEF PollWork
<1>8. ASSUME NEW k \in Tasks, Pending(k) PROVE TermInv'
  BY <1>8 DEF Pending, SignalInv, BeingNotified
<1>9. ASSUME NEW k \in Tasks, WorkWakes(k) PROVE TermInv'
  BY <1>9 DEF WorkWakes, SignalInv, BeingNotified
<1>10. CASE UNCHANGED vars
  BY <1>10 DEF vars, SignalInv, BeingNotified
<1> QED
  BY <1>1, <1>2, <1>3, <1>4, <1>5, <1>6, <1>7, <1>8, <1>9, <1>10, NotifyKeeps
     DEF Next, PollStep

\* Types and signals are right in every state the code can reach (9-75).
THEOREM TermSignals == Spec => [](TypeOK /\ SignalInv)
<1>1. Init => TermInv
  BY NamesAssumption DEF Init, TermInv, TypeOK, Branches, SignalInv, BeingNotified
<1> QED
  BY <1>1, TermNext, PTL DEF Spec, TermInv

\* Types alone, for any terms, tasks and threads (util.rs, 9-75).
THEOREM TermTypeOK == Spec => []TypeOK
  BY TermSignals, PTL

\* No wake-up is lost, whatever threads call term() or spawn (32-75).
THEOREM TermNoLostWakeup == Spec => []NoLostWakeup
<1>1. TypeOK /\ SignalInv => NoLostWakeup
  BY OfAssumption DEF TypeOK, Branches, SignalInv, NoLostWakeup
<1> QED
  BY <1>1, TermSignals, PTL

\* A task is dropped only after one of its terms was triggered: the safety
\* part of what Term promises (comments of util.rs, 79-80, 92-93 and 119).
THEOREM TermImplementsSafety == Spec => T!SafeSpec
<1>1. Init => T!Init
  BY DEF Init, T!Init
<1>2. TypeOK /\ SignalInv /\ [Next]_vars => [T!Next]_(T!vars)
  <2> SUFFICES ASSUME TypeOK, SignalInv, [Next]_vars
               PROVE  T!Next \/ UNCHANGED T!vars
    OBVIOUS
  <2> USE DEF TypeOK, T!vars
  <2>1. ASSUME NEW c \in Callers, NEW t \in Terms, Store(c, t) PROVE T!Next
    BY <2>1 DEF Store, T!Next, T!Trigger
  <2>2. ASSUME NEW k \in Tasks, Spawn(k) PROVE T!Next
    BY <2>2 DEF Spawn, T!Next, T!Spawn
  <2>3. ASSUME NEW k \in Tasks, NEW t \in Of[k], CheckFlag(k, t)
        PROVE  T!Next \/ UNCHANGED T!vars
    BY <2>3 DEF CheckFlag, Turn, EndTask, Flag, T!Next, T!DropTask
  <2>4. ASSUME NEW k \in Tasks, NEW t \in Of[k], PollListener(k, t)
        PROVE  T!Next \/ UNCHANGED T!vars
    <3>1. t \in signalled[k] => term[t]
      BY OfAssumption DEF SignalInv
    <3> QED
      BY <2>4, <3>1 DEF PollListener, Polled, Turn, EndTask, T!Next, T!DropTask
  <2>5. ASSUME NEW k \in Tasks, PollWork(k) PROVE T!Next \/ UNCHANGED T!vars
    BY <2>5 DEF PollWork, Polled, Turn, EndTask, T!Next, T!Finish
  <2>6. CASE \/ \E c \in Callers : Notify(c)
             \/ \E k \in Tasks : \/ \E t \in Terms : Listen(k, t)
                                 \/ Poll(k) \/ Pending(k) \/ WorkWakes(k)
             \/ UNCHANGED vars
    BY <2>6 DEF Notify, Listen, Poll, Pending, WorkWakes, vars
  <2> QED
    BY <2>1, <2>2, <2>3, <2>4, <2>5, <2>6 DEF Next, PollStep
<1> QED
  BY <1>1, <1>2, TermSignals, PTL DEF Spec, T!SafeSpec
=============================================================================
