---------------------------- MODULE Termination ----------------------------
(***************************************************************************)
(* What a Term promises (the comments of util.rs): a task spawned with a   *)
(* Term runs until its future finishes, or is dropped once a Term it was   *)
(* spawned with has terminated - and then it is dropped at last, however   *)
(* long its future would go on, and also if it was spawned too late.       *)
(* Module Relay uses a Term this way: Cancel is DropTask.                  *)
(***************************************************************************)
CONSTANTS Terms, Tasks, Of

VARIABLES term, \* the terms that were triggered, as a function to BOOLEAN
          task  \* what became of each task

vars == <<term, task>>

Init ==
    /\ term = [t \in Terms |-> FALSE]
    /\ task = [k \in Tasks |-> "absent"]

Trigger(t) ==
    /\ term' = [term EXCEPT ![t] = TRUE]
    /\ UNCHANGED task

Spawn(k) ==
    /\ task[k] = "absent"
    /\ task' = [task EXCEPT ![k] = "running"]
    /\ UNCHANGED term

Finish(k) ==
    /\ task[k] = "running"
    /\ task' = [task EXCEPT ![k] = "finished"]
    /\ UNCHANGED term

DropTask(k) ==
    /\ task[k] = "running" /\ \E t \in Of[k] : term[t]
    /\ task' = [task EXCEPT ![k] = "dropped"]
    /\ UNCHANGED term

Next ==
    \/ \E t \in Terms : Trigger(t)
    \/ \E k \in Tasks : Spawn(k) \/ Finish(k) \/ DropTask(k)

SafeSpec == Init /\ [][Next]_vars
Spec == SafeSpec /\ \A k \in Tasks : WF_vars(DropTask(k))
=============================================================================
