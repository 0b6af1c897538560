---------------------------- MODULE TaskLifecycle ----------------------------
(***************************************************************************)
(* The pure part of the task domain (internal/collaboration/domain/task.go *)
(* and the transition functions of application/task.go): the event stream  *)
(* of a task, the status rebuilt from it and the rules that decide whether *)
(* an event may follow.                                                    *)
(*                                                                         *)
(* A proposal is its version, which stands for its SHA-256 too.  The hash  *)
(* of an event stands for its content; it leaves out the time stamp and    *)
(* the signature, which no rule looks at.                                  *)
(***************************************************************************)
EXTENDS Naturals, Sequences

CONSTANT NoHash   \* zeroEventHash, and the absent value of a field

EventTypes == <<"verified", "claimed", "completed_local", "completed">>

\* ComputeEventHash
Hash(e) == [type |-> e.type, sha |-> e.sha, head |-> e.head, seq |-> e.seq,
            by |-> e.by, lease |-> e.lease]

\* LinkLifecycleEvent: the event that follows the events read.
Link(events, body) ==
    [type |-> body.type, sha |-> body.sha, head |-> body.head,
     by |-> body.by, lease |-> body.lease,
     seq  |-> Len(events) + 1,
     prev |-> IF events = <<>> THEN NoHash ELSE Hash(events[Len(events)])]

\* validateLifecycleTransition and the first event's type.
LegalType(events, i) == i <= Len(EventTypes) /\ events[i].type = EventTypes[i]

\* ValidateLifecycleChain
ChainAlways(events) == TRUE
ValidateLifecycleChain(events) ==
    \A i \in 1..Len(events) :
        /\ events[i].seq = i
        /\ events[i].prev = IF i = 1 THEN NoHash ELSE Hash(events[i - 1])
        /\ LegalType(events, i)
        /\ events[i].sha = events[1].sha
        /\ events[i].head = events[1].head

\* VerificationIdentity: type aside, what makes an append a retry.
SameIdentity(e, f) == e.type = f.type /\ e.sha = f.sha /\ e.head = f.head

\* TaskStatusOf: the state is the last event's, the executors the ones of the
\* events that carry them.
ByOf(events, types) ==
    LET idx == {i \in 1..Len(events) : events[i].type \in types}
    IN  IF idx = {} THEN NoHash
        ELSE events[CHOOSE i \in idx : \A j \in idx : j <= i].by

TaskStatusOf(events) ==
    [state       |-> IF events = <<>> THEN "none" ELSE events[Len(events)].type,
     sha         |-> IF events = <<>> THEN NoHash ELSE events[1].sha,
     head        |-> IF events = <<>> THEN NoHash ELSE events[1].head,
     claimedBy   |-> ByOf(events, {"claimed"}),
     completedBy |-> ByOf(events, {"completed_local", "completed"})]

-----------------------------------------------------------------------------

\* claimTransition: go on, answer that the same executor has it, or refuse.
ClaimOnce(status, by) == IF status.state = "verified" THEN "proceed" ELSE "refuse"
ClaimTransition(status, by) ==
    CASE status.state = "verified" -> "proceed"
      [] status.state = "claimed" /\ status.claimedBy = by -> "existing"
      [] OTHER -> "refuse"

\* completeLocalTransition, completeTransition
CompleteLocalTransition(status, by) ==
    IF status.state = "claimed" /\ status.claimedBy = by THEN "proceed" ELSE "refuse"
CompleteTransition(status, by) ==
    IF status.state = "completed_local" /\ status.completedBy = by
      THEN "proceed" ELSE "refuse"

Transition(op, status, by) ==
    CASE op = "claimed"         -> ClaimTransition(status, by)
      [] op = "completed_local" -> CompleteLocalTransition(status, by)
      [] op = "completed"       -> CompleteTransition(status, by)

\* The check of the re-read status that decides what the executor is told.
Confirmed(op, status, by) ==
    /\ status.state = op
    /\ by = IF op = "claimed" THEN status.claimedBy ELSE status.completedBy
=============================================================================
