------------------------------- MODULE TaskAbs -------------------------------
(***************************************************************************)
(* What the coordination service promises the agents about the tasks,      *)
(* whatever requests race, pushes fail and processes crash: a task is      *)
(* verified once, claimed once, completed by the executor that claimed it, *)
(* one state after the other, and never goes back.  It is claimed only     *)
(* when the tasks it requires are completed.                               *)
(* TaskService implements this specification; what it adds is how a        *)
(* transition, decided on events read long before, reaches the branch.     *)
(***************************************************************************)

CONSTANTS Tasks,      \* the tasks
          Proposals,  \* what a task can be verified for
          Executors,  \* who may claim a task
          Requires,   \* Requires[t][p]: the tasks to complete before proposal p of t
          Nobody      \* the executor of a task that is not claimed

VARIABLE status   \* the status of each task

\* A task is bound to the proposal it was verified for, then to its executor.
Unknown == [state |-> "none", proposal |-> Nobody, executor |-> Nobody]
Verified(p) == [state |-> "verified", proposal |-> p, executor |-> Nobody]
InHands == [state : {"claimed", "completed_local", "completed"},
            proposal : Proposals, executor : Executors \cup {Nobody}]

RequirementsMet(t, p) == \A d \in Requires[t][p] : status[d].state = "completed"

\* Tasks may have come a part of the way before.
TaskInit ==
    /\ status \in [Tasks -> {Unknown} \cup {Verified(p) : p \in Proposals} \cup InHands]
    /\ \A t \in Tasks : status[t] \in InHands => RequirementsMet(t, status[t].proposal)

Verify(t, p) ==
    /\ status[t] = Unknown
    /\ status' = [status EXCEPT ![t] = Verified(p)]

Claim(t, a) ==
    /\ status[t].state = "verified"
    /\ RequirementsMet(t, status[t].proposal)
    /\ status' = [status EXCEPT ![t].state = "claimed", ![t].executor = a]

\* Whoever claimed the task completes it, locally and then for good.
CompleteLocal(t) ==
    /\ status[t].state = "claimed"
    /\ status' = [status EXCEPT ![t].state = "completed_local"]

Complete(t) ==
    /\ status[t].state = "completed_local"
    /\ status' = [status EXCEPT ![t].state = "completed"]

\* One task changes at a time.
TaskNext ==
    /\ status' # status
    /\ \E t \in Tasks :
        \/ \E p \in Proposals : Verify(t, p)
        \/ \E a \in Executors : Claim(t, a)
        \/ CompleteLocal(t)
        \/ Complete(t)

TaskSpec == TaskInit /\ [][TaskNext]_status
=============================================================================
