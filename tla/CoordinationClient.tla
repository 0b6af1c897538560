------------------------- MODULE CoordinationClient -------------------------
(***************************************************************************)
(* The agents' side of coordination: the commands of `openarch             *)
(* coordination` over the HTTP client of core, which gives up a request    *)
(* after a timeout, retries some of them under the same request id and     *)
(* polls with others.  A request that was given up may still reach the     *)
(* service, before or after the next one.                                  *)
(*                                                                         *)
(* The service is one atomic answer per request here: TaskService opens    *)
(* the task commands up, LeaseStore and SessionStore the in-memory         *)
(* authorities.  The rules of the task are those of TaskLifecycle.         *)
(* A session is to this client what a lease is: a credential that it is    *)
(* given once, renews and gives back, without retries.                     *)
(***************************************************************************)
EXTENDS TaskLifecycle, FiniteSets

CONSTANTS Agents,
          Deps,        \* the tasks that the task depends on
          None,
          Retries,     \* the length of TASK_RETRY_DELAYS_MS
          MaxHead,     \* bound: commits of one agent
          MaxGrants,   \* bound: leases granted in one behaviour
          MaxCommands  \* bound: commands run

VARIABLES stream,   \* the lifecycle of the task, with the head a completion names
          done,     \* the dependencies that are completed
          asVerified, \* the documents of the task are on the branch: the scope of
                    \* its service, and its proposal as it was verified
          lease,    \* the lease on the target: None or [by, n]
          grants, lapsed, \* leases granted so far, and those that expired or were forgotten
          cmd,      \* the command each agent runs, or the result of its last one
          call,     \* its HTTP request: None, or on its way, or answered
          late,     \* requests that were given up and have not reached the service
          cred,     \* the lease that the agent was told of
          local, track,   \* its HEAD, and origin/<branch> as it knows it
          ran,      \* commands run
          exit      \* the command that returned in the last step, and how

cvars == <<stream, done, asVerified, lease, grants, lapsed, cmd, call, late, cred, local, track, ran, exit>>

TaskOps == {"submit", "claim", "complete_local", "complete"}
LeaseOps == {"acquire", "release"}
Ops == TaskOps \cup LeaseOps \cup {"wait"}

\* Which commands go through postJSONWithRetry.
Retried == TaskOps

EventType(op) == CASE op = "submit" -> "verified" [] op = "claim" -> "claimed"
                   [] op = "complete_local" -> "completed_local" [] op = "complete" -> "completed"

\* No command.
Idle == [op |-> "wait", phase |-> "idle", attempt |-> 0, deadline |-> FALSE,
                     unread |-> {}, pending |-> {}, first |-> FALSE]

\* The agents set in at any stage of the task, with or without the lease.
Stage(n, c) == [i \in 1..n |-> [type |-> EventTypes[i], sha |-> NoHash, head |-> NoHash, by |-> c, at |-> 0]]
ClientInit ==
    /\ \E n \in 0..3, c \in Agents :
          /\ stream = Stage(n, c)
          /\ \/ n < 3 /\ grants = 0 /\ lease = None /\ cred = [b \in Agents |-> None]
             \/ n > 1 /\ grants = 1 /\ lease = [by |-> c, n |-> 1]
                /\ cred = [b \in Agents |-> IF b = c THEN 1 ELSE None]
    /\ done \in SUBSET Deps /\ (stream # <<>> /\ Len(stream) > 1 => done = Deps)
    /\ asVerified = TRUE /\ lapsed = {}
    /\ cmd = [c \in Agents |-> Idle]
    /\ call = [c \in Agents |-> None] /\ late = {}
    /\ local = [c \in Agents |-> 0] /\ track = [c \in Agents |-> 0]
    /\ ran = 0 /\ exit = None

-----------------------------------------------------------------------------
(* The service *)

Holds(c, n) == lease # None /\ lease.by = c /\ lease.n = n

\* A release has to show the credential of the grant; of an id that is gone it
\* is answered as done.
CredentialMatches(c, n) == Holds(c, n)

\* validateScope and validateProposalStillMatches, which every command of a task
\* runs before it looks at the lifecycle.
ProposalStillMatches == asVerified

\* What the task service decides about a command of this task.
Decision(r) ==
    LET status == TaskStatusOf(stream)
    IN  IF ~ProposalStillMatches THEN "refuse"
        ELSE CASE r.op = "submit" -> IF stream = <<>> THEN "proceed"
                                ELSE IF status.state = "verified" THEN "existing" ELSE "refuse"
          [] r.op = "claim" -> IF done = Deps THEN ClaimTransition(status, r.c) ELSE "refuse"
          [] r.op = "complete_local" ->
                IF Holds(r.c, r.n) THEN CompleteLocalTransition(status, r.c) ELSE "refuse"
          [] r.op = "complete" ->
                IF Holds(r.c, r.n) THEN CompleteTransition(status, r.c) ELSE "refuse"

Event(r) == [type |-> EventType(r.op), sha |-> NoHash, head |-> NoHash, by |-> r.c, at |-> r.at]

\* An answer, and the number of the lease that it grants.
Plain(kind) == [kind |-> kind, n |-> 0]
Answers == [kind : {"ok", "refused", "held"}, n : 0..MaxGrants]

\* The answer to a request and what it changes.
Executes(r, answer) ==
    \/ /\ r.op \in TaskOps
       /\ answer = Plain(IF Decision(r) = "refuse" THEN "refused" ELSE "ok")
       /\ stream' = IF Decision(r) = "proceed" THEN Append(stream, Event(r)) ELSE stream
       /\ UNCHANGED <<lease, grants, lapsed>>
    \/ /\ r.op = "acquire" /\ lease = None
       /\ grants < MaxGrants
       /\ answer = [kind |-> "ok", n |-> grants + 1]
       /\ lease' = [by |-> r.c, n |-> grants + 1] /\ grants' = grants + 1
       /\ UNCHANGED <<stream, lapsed>>
    \/ /\ r.op = "acquire" /\ lease # None
       /\ answer = Plain("held") /\ UNCHANGED <<stream, lease, grants, lapsed>>
    \/ /\ r.op = "release"
       /\ answer = Plain("ok")
       /\ lease' = IF CredentialMatches(r.c, r.n) THEN None ELSE lease
       /\ UNCHANGED <<stream, grants, lapsed>>

KeepClient == UNCHANGED <<cmd, cred, local, track, ran>> /\ exit' = None

Serve(c) ==
    /\ call[c] # None /\ call[c].answer = None
    /\ \E answer \in Answers :
          Executes(call[c].req, answer) /\ call' = [call EXCEPT ![c].answer = answer]
    /\ UNCHANGED <<late, done, asVerified>> /\ KeepClient

\* 503 service_unavailable, which taskErrorClass marks retryable.
ServeBusy(c) ==
    /\ call[c] # None /\ call[c].answer = None /\ call[c].req.op \in TaskOps
    /\ call' = [call EXCEPT ![c].answer = Plain("busy")]
    /\ UNCHANGED <<stream, done, asVerified, lease, grants, lapsed, late>> /\ KeepClient

\* A request that its sender has given up arrives, or never does; nobody reads
\* the answer.
ServeLate(r) ==
    /\ r \in late /\ late' = late \ {r}
    /\ \E answer \in Answers : Executes(r, answer)
    /\ UNCHANGED <<done, asVerified, call>> /\ KeepClient

\* The lease expires, or the service restarts and has forgotten it.
Lapse ==
    /\ lease # None /\ lease' = None /\ lapsed' = lapsed \cup {lease.n}
    /\ UNCHANGED <<stream, done, asVerified, grants, late, call>> /\ KeepClient

\* The other tasks are worked on by others.
DependencyCompletes(d) ==
    /\ d \in Deps \ done /\ done' = done \cup {d}
    /\ UNCHANGED <<stream, asVerified, lease, grants, lapsed, late, call>> /\ KeepClient

\* Somebody edits or removes the proposal or the scope, or puts it back.
DocsEdited ==
    /\ asVerified' = ~asVerified
    /\ UNCHANGED <<stream, done, lease, grants, lapsed, late, call>> /\ KeepClient

-----------------------------------------------------------------------------
(* The client *)

KeepService == UNCHANGED <<stream, done, asVerified, lease, grants, lapsed>>

\* The command of c returns, or goes on.
Return(c, result) ==
    /\ cmd' = [cmd EXCEPT ![c] = Idle]
    /\ exit' = [c |-> c, op |-> cmd[c].op, result |-> result, first |-> cmd[c].first]
GoOn(c, k) == cmd' = [cmd EXCEPT ![c] = k] /\ exit' = None

Request(c, op) ==
    [c |-> c, op |-> op, n |-> cred[c],
     at |-> IF op = "complete_local" THEN local[c] ELSE IF op = "complete" THEN track[c] ELSE 0]

\* taskCompleteAction refuses while HEAD is not what origin has.
HeadAny(c) == TRUE
HeadIsPushed(c) == local[c] = track[c]

\* Nothing of an earlier command of the agent has had, or may yet have, this
\* effect (a history variable of the properties).
By(type, c) == \E i \in 1..Len(stream) : stream[i].type = type /\ stream[i].by = c
First(c, op) ==
    /\ \A r \in late : r.c = c => (r.op \in TaskOps) # (op \in TaskOps)
    /\ op \in TaskOps => ~By(EventType(op), c)
    /\ op \in LeaseOps => lease = None \/ lease.by # c

\* What an agent has to have in hand to type the command.
Ready(c, op) ==
    CASE op \in {"complete_local", "release"} -> cred[c] # None
      [] op = "complete" -> cred[c] # None /\ HeadIsPushed(c) /\ By("completed_local", c)
      [] op = "acquire" -> cred[c] = None
      [] OTHER -> TRUE

\* A command starts: requireConfigured and requireAvailable are behind it.
Begin(c, op) ==
    /\ cmd[c].phase = "idle" /\ ran < MaxCommands /\ Ready(c, op)
    /\ ran' = ran + 1
    /\ GoOn(c, [Idle EXCEPT !.op = op, !.phase = IF op = "wait" THEN "reading" ELSE "calling",
                            !.unread = Deps, !.first = First(c, op)])
    /\ call' = [call EXCEPT ![c] = IF op = "wait" THEN None ELSE [req |-> Request(c, op), answer |-> None]]
    /\ cred' = IF op = "release" THEN [cred EXCEPT ![c] = None] ELSE cred
    /\ UNCHANGED <<late, local, track>> /\ KeepService

\* requireAvailable fails: the service does not answer, or it names another
\* docs-repo or branch than the local DocumentStore has.
Unavailable(c) ==
    /\ cmd[c].phase = "idle" /\ ran < MaxCommands
    /\ ran' = ran + 1 /\ Return(c, "failed")
    /\ UNCHANGED <<late, call, cred, local, track>> /\ KeepService

\* How an answer ends the command: requireOk and the parsers.
ResultOf(outcome) ==
    CASE outcome = "ok" -> "ok" [] outcome \in {"held", "refused"} -> "refused" [] OTHER -> "failed"

\* isRetryableCoordinationError under postJSONWithRetry: no answer at all, or
\* one that says so.
RetryableAny(op, outcome) == outcome \in {"unknown", "busy"}
Retryable(op, outcome) == op \in Retried /\ outcome \in {"unknown", "busy"}

\* One request of the command is over: go round again, or end with its outcome.
NextAttemptSame(k) == k
NextAttempt(k) == k + 1
Polls(k, outcome) == k.op = "acquire" /\ outcome = "held" /\ ~k.deadline
Again(k, outcome) == Retryable(k.op, outcome) /\ k.attempt < Retries
Settle(c, outcome) ==
    \/ Polls(cmd[c], outcome) /\ GoOn(c, [cmd[c] EXCEPT !.phase = "delay"])
    \/ Again(cmd[c], outcome) /\ GoOn(c, [cmd[c] EXCEPT !.phase = "delay", !.attempt = NextAttempt(@)])
    \/ ~Polls(cmd[c], outcome) /\ ~Again(cmd[c], outcome) /\ Return(c, ResultOf(outcome))

Receive(c) ==
    /\ call[c] # None /\ call[c].answer # None
    /\ Settle(c, call[c].answer.kind)
    /\ call' = [call EXCEPT ![c] = None]
    /\ cred' = IF call[c].answer.n # 0 THEN [cred EXCEPT ![c] = call[c].answer.n] ELSE cred
    /\ UNCHANGED <<late, local, track, ran>> /\ KeepService

\* BASE_TIMEOUT_MS, a refused connection or a reset one: the request may still
\* arrive, or the answer is lost.
Timeout(c) ==
    /\ call[c] # None
    /\ Settle(c, "unknown")
    /\ call' = [call EXCEPT ![c] = None]
    /\ late' = IF call[c].answer = None THEN late \cup {call[c].req} ELSE late
    /\ UNCHANGED <<cred, local, track, ran>> /\ KeepService

Resend(c) ==
    /\ cmd[c].phase = "delay"
    /\ GoOn(c, [cmd[c] EXCEPT !.phase = "calling"])
    /\ call' = [call EXCEPT ![c] = [req |-> Request(c, cmd[c].op), answer |-> None]]
    /\ UNCHANGED <<late, cred, local, track, ran>> /\ KeepService

\* The deadline of --wait and --timeout; without --wait it has passed before
\* the first answer.
DeadlinePasses(c) ==
    /\ cmd[c].phase # "idle" /\ cmd[c].op \in {"acquire", "wait"} /\ ~cmd[c].deadline
    /\ GoOn(c, [cmd[c] EXCEPT !.deadline = TRUE])
    /\ UNCHANGED <<late, call, cred, local, track, ran>> /\ KeepService

\* taskWaitAction reads one dependency after the other.
StillPending(k, d) == IF d \in done THEN k.pending ELSE k.pending \cup {d}
WaitRead(c, d) ==
    /\ cmd[c].phase = "reading" /\ d \in cmd[c].unread
    /\ GoOn(c, [cmd[c] EXCEPT !.unread = @ \ {d}, !.pending = StillPending(cmd[c], d)])
    /\ UNCHANGED <<late, call, cred, local, track, ran>> /\ KeepService

WaitRound(c) ==
    /\ cmd[c].phase = "reading" /\ cmd[c].unread = {}
    /\ \/ cmd[c].pending = {} /\ Return(c, "ok")
       \/ cmd[c].pending # {} /\ cmd[c].deadline /\ Return(c, "failed")
       \/ cmd[c].pending # {} /\ ~cmd[c].deadline /\ GoOn(c, [cmd[c] EXCEPT !.unread = Deps, !.pending = {}])
    /\ UNCHANGED <<late, call, cred, local, track, ran>> /\ KeepService

\* A read of taskWaitAction fails: getJSON is not retried.
WaitFails(c) ==
    /\ cmd[c].phase = "reading" /\ Return(c, "failed")
    /\ UNCHANGED <<late, call, cred, local, track, ran>> /\ KeepService

\* The executor works: it commits and it pushes.
Commit(c) == /\ local[c] < MaxHead /\ cmd[c].phase = "idle" /\ By("claimed", c) /\ GoOn(c, Idle)
             /\ local' = [local EXCEPT ![c] = @ + 1]
             /\ UNCHANGED <<late, call, cred, track, ran>> /\ KeepService
Push(c) == /\ track[c] # local[c] /\ cmd[c].phase = "idle" /\ GoOn(c, Idle)
           /\ track' = [track EXCEPT ![c] = local[c]]
           /\ UNCHANGED <<late, call, cred, local, ran>> /\ KeepService

ClientStep(c) == \/ Receive(c) \/ Resend(c) \/ WaitRound(c)
                 \/ \E d \in Deps : WaitRead(c, d)
ClientNext ==
    \/ \E c \in Agents :
          \/ \E op \in Ops : Begin(c, op)
          \/ Unavailable(c)
          \/ Serve(c) \/ ServeBusy(c) \/ ClientStep(c) \/ Timeout(c) \/ DeadlinePasses(c)
          \/ WaitFails(c) \/ Commit(c) \/ Push(c)
    \/ \E r \in late : ServeLate(r)
    \/ \E d \in Deps : DependencyCompletes(d)
    \/ Lapse \/ DocsEdited

\* fetch carries a timeout of its own, the timers of the process fire, and the
\* process runs: nothing is assumed of the network or of the service.
ClientFairness ==
    \A c \in Agents : /\ WF_cvars(ClientStep(c)) /\ WF_cvars(Timeout(c))
                      /\ WF_cvars(DeadlinePasses(c))

ClientSpec == ClientInit /\ [][ClientNext]_cvars /\ ClientFairness

-----------------------------------------------------------------------------
(* Properties *)

CmdRecord == [op : Ops, phase : {"idle", "calling", "delay", "reading"}, attempt : 0..Retries,
              deadline : BOOLEAN, unread : SUBSET Deps, pending : SUBSET Deps, first : BOOLEAN]

Events == [type : {EventType(op) : op \in TaskOps}, sha : {NoHash}, head : {NoHash},
           by : Agents, at : Nat]
Leases == [by : Agents, n : 1..MaxGrants]
Requests == [c : Agents, op : TaskOps \cup LeaseOps, n : {None} \cup (1..MaxGrants), at : Nat]
Calls == [req : Requests, answer : {None} \cup [kind : {"ok", "refused", "held", "busy"},
                                                n : 0..MaxGrants]]

\* An agent may have the lease at the start, and None is none of the things that
\* it stands for the absence of.
ASSUME ClientAssumption ==
    /\ {Retries, MaxHead, MaxGrants, MaxCommands} \subseteq Nat /\ MaxGrants > 0
    /\ None \notin Nat \cup Leases \cup Calls
    /\ None \notin [kind : {"ok", "refused", "held", "busy"}, n : 0..MaxGrants]

\* The type invariant: in particular no command sends more than Retries + 1
\* requests for a retried write, and a command that waits for an answer has
\* exactly one request open.
ClientTypeOK ==
    /\ cmd \in [Agents -> CmdRecord]
    /\ \A c \in Agents : (call[c] # None) = (cmd[c].phase = "calling")
    /\ Len(stream) <= Len(EventTypes)
    /\ lapsed \subseteq 1..grants /\ grants <= MaxGrants

\* A command that reports success has had its effect, whichever of its
\* attempts the service executed and whatever other agents did since: the
\* event is in the lifecycle, and an executor's event is its own.
ToldIsTrue ==
    exit # None /\ exit.result = "ok" /\ exit.op \in TaskOps =>
        \E i \in 1..Len(stream) : /\ stream[i].type = EventType(exit.op)
                                  /\ exit.op = "submit" \/ stream[i].by = exit.c

\* The service refuses an attempt of a command of which it has executed an
\* earlier attempt.
RefusesExecuted(c, ops) ==
    /\ call[c] # None /\ call[c].answer = None /\ call[c].req.op \in ops /\ cmd[c].first
    /\ call'[c] # None /\ call'[c].answer = Plain("refused")
    /\ By(EventType(call[c].req.op), c)

\* The retries of postJSONWithRetry, sent while an earlier attempt may already
\* have been executed, turn a claim that succeeded into a refused one only while
\* the documents of the task are not those it was verified with.
ClaimHonest == [][\A c \in Agents : RefusesExecuted(c, {"claim"}) => ~ProposalStillMatches]_cvars

\* The same of every write of a task (docs/coordination-cli.md: "submit/claim/
\* complete are idempotent writes"): it does not hold of the completions, which
\* the service refuses the second time.
WritesIdempotent ==
    [][\A c \in Agents :
         RefusesExecuted(c, TaskOps \ {"submit"}) => ~ProposalStillMatches]_cvars

\* What fails even of a claim: that an edit of the proposal between the attempts
\* changes nothing.  The service looks at the proposal before it finds the claim.
ClaimHonestOverEdits == [][\A c \in Agents : ~RefusesExecuted(c, {"claim"})]_cvars

\* A lease that an agent was told of and has not given back is still its own,
\* unless it lapsed: no request that arrives late takes it away.
CredentialLive == \A c \in Agents : cred[c] # None => Holds(c, cred[c]) \/ cred[c] \in lapsed

\* An acquisition that is refused has not acquired: an agent is never kept out
\* by a lease that its own command was granted in an earlier attempt.
AcquireHonest ==
    exit # None /\ exit.first /\ exit.op = "acquire" /\ exit.result = "refused"
        => lease = None \/ lease.by # exit.c

\* The head of the final completion contains the work of the local one: only
\* what was pushed is completed, and all of what was completed locally.
CompletionCovers ==
    \A i, j \in 1..Len(stream) :
        stream[i].type = "completed_local" /\ stream[j].type = "completed" => stream[i].at <= stream[j].at

\* `task wait` reports success only when every dependency is completed,
\* although it reads them one after the other.
WaitSound == exit # None /\ exit.op = "wait" /\ exit.result = "ok" => done = Deps

\* What a command reports of the shared state is true of it.
ReportsTrue == ToldIsTrue /\ AcquireHonest /\ WaitSound

\* The types, what an agent believes of its lease, and what a completion covers.
ClientSafe == ClientTypeOK /\ CredentialLive /\ CompletionCovers

\* Every command returns, whatever the network and the service do.
CommandsEnd == \A c \in Agents : (cmd[c].phase # "idle") ~> (cmd[c].phase = "idle")
=============================================================================
