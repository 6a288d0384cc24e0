-------------------------------- MODULE Term --------------------------------
(***************************************************************************)
(* Term (crates/tx3/src/util.rs): a flag and an event that end tasks.      *)
(*                                                                         *)
(* term() stores the flag, then notifies every listener of the event; its  *)
(* callback comes last and changes nothing here.  A task is spawned with   *)
(* one Term (spawn, spawn_err) or two (spawn2, spawn_err2): on_term() of   *)
(* each registers a listener in the thread that spawns, and the task polls *)
(* those futures and its own in a tokio select!, until one is ready.  An   *)
(* on_term future loads the flag at its first poll only; from then on it   *)
(* relies on its listener.  A task is polled when it was woken: when it is *)
(* spawned, by its own future, or by a notified listener that it polled.   *)
(*                                                                         *)
(* Threads interleave between any two accesses to a flag or an event.  An  *)
(* event is notified, polled and listened to under its own lock, and with  *)
(* the fences of event_listener the accesses are sequentially consistent.  *)
(***************************************************************************)
EXTENDS FiniteSets

CONSTANTS Terms,   \* Term instances (clones share their state)
          Tasks,   \* tasks to be spawned
          Callers, \* threads that call term()
          Of,      \* the terms each task is spawned with
          Work,    \* the branch of select! that polls the task's own future
          None     \* no term

ASSUME OfAssumption == Of \in [Tasks -> SUBSET Terms]
ASSUME NamesAssumption == Work \notin Terms /\ None \notin Terms

VARIABLES
    term,      \* the flag of each term
    call,      \* the term each caller has stored and not yet notified
    task,      \* what became of each task
    branch,    \* how far each on_term future of a task got
    signalled, \* the terms whose event has notified a task's listener
    woken,     \* the task is scheduled to be polled
    polling,   \* the task is being polled
    todo       \* the branches its select! has yet to poll

vars == <<term, call, task, branch, signalled, woken, polling, todo>>
poll == <<woken, polling, todo>>

\* "none": no listener; "fresh": never polled; "missed": loaded the flag and
\* found it clear; "armed": the listener will wake the task.
Branches == {"none", "fresh", "missed", "armed"}

Init ==
    /\ term = [t \in Terms |-> FALSE]
    /\ call = [c \in Callers |-> None]
    /\ task = [k \in Tasks |-> "absent"]
    /\ branch = [k \in Tasks |-> [t \in Terms |-> "none"]]
    /\ signalled = [k \in Tasks |-> {}]
    /\ woken = [k \in Tasks |-> FALSE]
    /\ polling = [k \in Tasks |-> FALSE]
    /\ todo = [k \in Tasks |-> {}]

-----------------------------------------------------------------------------
(* term(): any thread, any number of times (each dropped clone calls it).  *)

Store(c, t) ==
    /\ call[c] = None
    /\ term' = [term EXCEPT ![t] = TRUE]
    /\ call' = [call EXCEPT ![c] = t]
    /\ UNCHANGED <<task, branch, signalled, poll>>

\* notify(usize::MAX): every listener registered now.
Listening(t) == {k \in Tasks : branch[k][t] # "none"}
Notified_One(t) == {L \in SUBSET Listening(t) :
                       Cardinality(L) = (IF Listening(t) = {} THEN 0 ELSE 1)}
Notified(t) == {Listening(t)}

Notify(c) ==
    /\ call[c] # None
    /\ \E L \in Notified(call[c]) :
          /\ signalled' = [k \in Tasks |->
                IF k \in L THEN signalled[k] \cup {call[c]} ELSE signalled[k]]
          /\ woken' = [k \in Tasks |->
                woken[k] \/ (k \in L /\ branch[k][call[c]] = "armed")]
    /\ call' = [call EXCEPT ![c] = None]
    /\ UNCHANGED <<term, task, branch, polling, todo>>

-----------------------------------------------------------------------------
(* spawn: on_term() for each term of the task, then the task itself.       *)

Listen(k, t) ==
    /\ task[k] = "absent" /\ t \in Of[k] /\ branch[k][t] = "none"
    /\ branch' = [branch EXCEPT ![k][t] = "fresh"]
    /\ UNCHANGED <<term, call, task, signalled, poll>>

Spawn(k) ==
    /\ task[k] = "absent" /\ \A t \in Of[k] : branch[k][t] = "fresh"
    /\ task' = [task EXCEPT ![k] = "running"]
    /\ woken' = [woken EXCEPT ![k] = TRUE]
    /\ UNCHANGED <<term, call, branch, signalled, polling, todo>>

-----------------------------------------------------------------------------
(* A poll of the task.                                                     *)

Poll(k) ==
    /\ woken[k] /\ ~polling[k]
    /\ woken' = [woken EXCEPT ![k] = FALSE]
    /\ polling' = [polling EXCEPT ![k] = TRUE]
    /\ todo' = [todo EXCEPT ![k] = Of[k] \cup {Work}]
    /\ UNCHANGED <<term, call, task, branch, signalled>>

\* select! starts at a random branch and polls one branch at a time.
Turn(k, b) ==
    /\ polling[k] /\ b \in todo[k]
    /\ \A u \in Of[k] \ {b} : branch[k][u] # "missed"

Polled(k, b) ==
    /\ todo' = [todo EXCEPT ![k] = @ \ {b}]
    /\ UNCHANGED <<task, signalled, woken, polling>>

\* A branch was ready: the task returns, and drops its futures and listeners.
EndTask(k, outcome) ==
    /\ task' = [task EXCEPT ![k] = outcome]
    /\ branch' = [branch EXCEPT ![k] = [t \in Terms |-> "none"]]
    /\ signalled' = [signalled EXCEPT ![k] = {}]
    /\ woken' = [woken EXCEPT ![k] = FALSE]
    /\ polling' = [polling EXCEPT ![k] = FALSE]
    /\ todo' = [todo EXCEPT ![k] = {}]

\* The first poll of an on_term future loads the flag ...
Flag_Ignored(t) == FALSE
Flag(t) == term[t]

CheckFlag(k, t) ==
    /\ Turn(k, t) /\ branch[k][t] = "fresh"
    /\ IF Flag(t)
       THEN EndTask(k, "dropped")
       ELSE /\ branch' = [branch EXCEPT ![k][t] = "missed"]
            /\ UNCHANGED <<task, signalled, poll>>
    /\ UNCHANGED <<term, call>>

\* ... and goes on to the listener, as every later poll does.
PollListener(k, t) ==
    /\ Turn(k, t) /\ branch[k][t] \in {"missed", "armed"}
    /\ IF t \in signalled[k]
       THEN EndTask(k, "dropped")
       ELSE /\ branch' = [branch EXCEPT ![k][t] = "armed"]
            /\ Polled(k, t)
    /\ UNCHANGED <<term, call>>

\* The future of the task may or may not be ready.
PollWork(k) ==
    /\ Turn(k, Work)
    /\ \/ EndTask(k, "finished")
       \/ Polled(k, Work) /\ UNCHANGED branch
    /\ UNCHANGED <<term, call>>

Pending(k) ==
    /\ polling[k] /\ todo[k] = {}
    /\ polling' = [polling EXCEPT ![k] = FALSE]
    /\ UNCHANGED <<term, call, task, branch, signalled, woken, todo>>

\* Whatever the task's own future waits for wakes it, also during a poll.
WorkWakes(k) ==
    /\ task[k] = "running" /\ ~woken[k]
    /\ woken' = [woken EXCEPT ![k] = TRUE]
    /\ UNCHANGED <<term, call, task, branch, signalled, polling, todo>>

-----------------------------------------------------------------------------
PollStep(k) ==
    \/ Poll(k)
    \/ \E t \in Of[k] : CheckFlag(k, t) \/ PollListener(k, t)
    \/ PollWork(k)
    \/ Pending(k)

Next ==
    \/ \E c \in Callers : Notify(c) \/ \E t \in Terms : Store(c, t)
    \/ \E k \in Tasks :
          \/ \E t \in Terms : Listen(k, t)
          \/ Spawn(k)
          \/ PollStep(k)
          \/ WorkWakes(k)

Spec == Init /\ [][Next]_vars

\* A term() call that has begun goes on, and the runtime polls woken tasks.
FairSpec ==
    /\ Spec
    /\ \A c \in Callers : WF_vars(Notify(c))
    /\ \A k \in Tasks : WF_vars(PollStep(k))

-----------------------------------------------------------------------------
(* Properties.                                                             *)

\* The state of terms and tasks keeps to its type, and only a running task
\* is scheduled or polled (util.rs, 9-75).
TypeOK ==
    /\ term \in [Terms -> BOOLEAN]
    /\ call \in [Callers -> Terms \cup {None}]
    /\ task \in [Tasks -> {"absent", "running", "finished", "dropped"}]
    /\ branch \in [Tasks -> [Terms -> Branches]]
    /\ signalled \in [Tasks -> SUBSET Terms]
    /\ woken \in [Tasks -> BOOLEAN]
    /\ polling \in [Tasks -> BOOLEAN]
    /\ todo \in [Tasks -> SUBSET (Terms \cup {Work})]
    /\ \A k \in Tasks : woken[k] \/ polling[k] => task[k] = "running"

\* No wake-up is lost: once the term() call of a terminated term is over, a
\* task that was spawned with it never sleeps - it is scheduled, or in a poll
\* that has this term's branch ahead of it (util.rs, 34-35 against 48-54).
BeingNotified(t) == \E c \in Callers : call[c] = t
NoLostWakeup ==
    \A k \in Tasks : \A t \in Of[k] :
        task[k] = "running" /\ term[t] /\ ~BeingNotified(t) =>
            woken[k] \/ (polling[k] /\ t \in todo[k])

\* Its inductive strengthening: what a set flag, a listener and a wake-up say
\* of each other at every point of term(), on_term and select! (32-75).
SignalInv ==
    \A k \in Tasks : \A t \in Terms :
        /\ branch[k][t] # "none" => t \in Of[k]
        /\ branch[k][t] = "fresh" => task[k] \in {"absent", "running"}
        /\ branch[k][t] = "fresh" /\ task[k] = "running" =>
              woken[k] \/ (polling[k] /\ t \in todo[k])
        /\ branch[k][t] = "missed" => polling[k] /\ t \in todo[k]
        /\ branch[k][t] = "armed" => task[k] = "running"
        /\ branch[k][t] \in {"missed", "armed"} /\ term[t] =>
              t \in signalled[k] \/ BeingNotified(t)
        /\ branch[k][t] = "armed" /\ t \in signalled[k] =>
              woken[k] \/ (polling[k] /\ t \in todo[k])
        /\ t \in signalled[k] \/ BeingNotified(t) => term[t]
        /\ t \in Of[k] /\ task[k] = "running" => branch[k][t] # "none"

T == INSTANCE Termination

\* A task is dropped only after one of its terms was triggered, and is then
\* dropped whatever its own future does, whenever it was spawned (45-130).
TerminationSpec == T!Spec
=============================================================================
