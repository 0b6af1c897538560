----------------------------- MODULE TaskService -----------------------------
(***************************************************************************)
(* The task commands of the coordination service                           *)
(* (internal/collaboration/application/task.go over adapter/docsrepo/      *)
(* task.go and the Authority's AppendTaskLifecycle), composed with the     *)
(* docs-repo they read and write (DocsRepo) and the lease authority they   *)
(* ask (LeaseAbs).  Writers are request slots: the HTTP server runs        *)
(* requests concurrently and nothing but the docs-repo mutex orders their  *)
(* steps, so every call of a store is an action of its own and a request   *)
(* carries what it read from one to the next.  Files and Tasks coincide:   *)
(* the events.ndjson of each task.                                         *)
(***************************************************************************)
EXTENDS DocsRepo, TaskLifecycle

CONSTANTS Agents,      \* executors
          DependsOn,   \* DependsOn[t][v]: dependencies of proposal v of t
          Targets,     \* semantic targets a lease can name
          LeaseIds,    \* ids of leases
          SeedHeads,   \* the commits a run starts with
          SeedLogs     \* event streams a run starts with

Tasks == Files

ASSUME TaskAssumption ==
    /\ Tasks \subseteq Docs
    /\ DependsOn \in [Tasks -> [Versions -> SUBSET Tasks]]

VARIABLES req,     \* the request in each slot
          holder,  \* LeaseAbs: who holds each target
          spent,   \* LeaseAbs: lease ids granted
          acks     \* successes answered to agents

taskVars == <<req, holder, spent, acks>>
allVars == <<docsVars, taskVars>>

Leases == INSTANCE LeaseAbs
            WITH Keys <- Targets, Owners <- Agents, Free <- None

Ops == {"verified", "claimed", "completed_local", "completed"}

Idle == [pc |-> "idle"]

\* What is answered to the agent, for the properties.
Ack(r) == [op |-> req[r].op, task |-> req[r].task, by |-> req[r].by,
           sha |-> req[r].sha, head |-> req[r].head]

Goto(r, pc) == req' = [req EXCEPT ![r].pc = pc]
End(r) == req' = [req EXCEPT ![r] = Idle]
At(r, pc) == req[r].pc = pc

-----------------------------------------------------------------------------
(* Requests arrive.                                                         *)

\* An agent submits a task under a commit it knows of.
Submit(r, t, head) ==
    /\ At(r, "idle")
    /\ req' = [req EXCEPT ![r] =
         [pc |-> "refresh", op |-> "verified", task |-> t, by |-> NoHash,
          sha |-> NoHash, head |-> head, key |-> NoHash, lease |-> NoHash,
          events |-> <<>>, deps |-> {}]]
    /\ UNCHANGED <<docsVars, holder, spent, acks>>

\* An agent claims or completes a task, naming the proposal it means and, to
\* complete it, a target and a lease that was granted at some time.
Execute(r, op, t, v, by, k, l) ==
    /\ At(r, "idle")
    /\ IF op = "claimed" THEN k = NoHash /\ l = NoHash ELSE k \in Targets /\ l \in spent
    /\ req' = [req EXCEPT ![r] =
         [pc |-> "lifecycle", op |-> op, task |-> t, by |-> by,
          sha |-> v, head |-> NoHash, key |-> k, lease |-> l,
          events |-> <<>>, deps |-> {}]]
    /\ UNCHANGED <<docsVars, holder, spent, acks>>

\* A request ends with an error before it writes: the remote is not reached,
\* HEAD is not synchronized, the service is not in scope, a rule refuses, the
\* client goes away.  A call of the docs-repo waits for its mutex first, and
\* sync.Mutex cannot be left by a client that goes away.
Refused(r) ==
    /\ req[r].pc \notin {"idle", "writing"}
    /\ req[r].pc \in {"decide", "lease"} \/ mu = None
    /\ End(r)
    /\ UNCHANGED <<docsVars, holder, spent, acks>>

-----------------------------------------------------------------------------
(* Submit.                                                                  *)

SubmitRefresh(r) ==
    /\ At(r, "refresh")
    /\ Refresh(req[r].head)
    /\ Goto(r, "proposal")
    /\ UNCHANGED <<holder, spent, acks>>

SubmitProposal(r) ==
    /\ At(r, "proposal")
    /\ CanRead
    /\ DocAt(req[r].task) # NoHash
    /\ req' = [req EXCEPT ![r].pc = "graph", ![r].sha = DocAt(req[r].task)]
    /\ UNCHANGED <<docsVars, holder, spent, acks>>

\* ValidateDependencyGraph over the proposals at HEAD: no task reaches itself.
\* With the tasks of a run being few, paths are bounded by their number.
DepsAt(t) == IF DocAt(t) = NoHash THEN {} ELSE DependsOn[t][DocAt(t)]
ReachableFrom(t) ==
    LET R[n \in 0..MaxHeads] ==
          IF n = 0 THEN DepsAt(t) ELSE R[n - 1] \cup UNION {DepsAt(u) : u \in R[n - 1]}
    IN  R[MaxHeads]
Acyclic == \A t \in Tasks : t \notin ReachableFrom(t)

SubmitGraph(r) ==
    /\ At(r, "graph")
    /\ CanRead
    /\ Acyclic
    /\ Goto(r, "events")
    /\ UNCHANGED <<docsVars, holder, spent, acks>>

\* A task already verified for the same proposal and head is answered as such;
\* any other event refuses the submission.
SubmitEvents(r) ==
    LET events == log[req[r].task]
    IN  /\ At(r, "events")
        /\ CanRead
        /\ \/ /\ events = <<>>
              /\ Goto(r, "append")
              /\ UNCHANGED acks
           \/ /\ events # <<>>
              /\ events[1].sha = req[r].sha /\ events[1].head = req[r].head
              /\ acks' = acks \cup {Ack(r)}
              /\ End(r)
        /\ UNCHANGED <<docsVars, holder, spent>>

-----------------------------------------------------------------------------
(* Claim, CompleteLocal, Complete.                                          *)

\* lifecycleFor: keep the events and insist on the proposal they verify.
ReadLifecycle(r) ==
    LET events == log[req[r].task]
    IN  /\ At(r, "lifecycle")
        /\ CanRead
        /\ TaskStatusOf(events).sha = req[r].sha
        /\ req' = [req EXCEPT ![r].pc = "match", ![r].events = events,
                              ![r].head = TaskStatusOf(events).head]
        /\ UNCHANGED <<docsVars, holder, spent, acks>>

\* validateProposalStillMatches
ProposalMatches(r) ==
    /\ At(r, "match")
    /\ CanRead
    /\ DocAt(req[r].task) = req[r].sha
    /\ Goto(r, "deps")
    /\ UNCHANGED <<docsVars, holder, spent, acks>>

\* ensureDependenciesCompleted reads the proposal once more ...
ReadDependencies(r) ==
    /\ At(r, "deps")
    /\ CanRead
    /\ DocAt(req[r].task) # NoHash
    /\ req' = [req EXCEPT
                 ![r].deps = DepsAt(req[r].task),
                 ![r].pc = IF DepsAt(req[r].task) = {} THEN "decide" ELSE "streams"]
    /\ UNCHANGED <<docsVars, holder, spent, acks>>

\* ... and then every event stream.
DependencyStarted(t) == log[t] # <<>>
DependencyMet(t) == TaskStatusOf(log[t]).state = "completed"

CheckDependencies(r) ==
    /\ At(r, "streams")
    /\ CanRead
    /\ \A t \in req[r].deps : DependencyMet(t)
    /\ Goto(r, "decide")
    /\ UNCHANGED <<docsVars, holder, spent, acks>>

\* The transition is decided on the events read at the start.
Decide(r) ==
    LET verdict == Transition(req[r].op, TaskStatusOf(req[r].events), req[r].by)
    IN  /\ At(r, "decide")
        /\ \/ /\ verdict = "proceed"
              /\ Goto(r, IF req[r].op = "claimed" THEN "append" ELSE "lease")
              /\ UNCHANGED acks
           \/ /\ verdict = "existing"
              /\ acks' = acks \cup {Ack(r)}
              /\ End(r)
        /\ UNCHANGED <<docsVars, holder, spent>>

\* validateLeaseHeld
LeaseHeldByAnyone(r) == holder[req[r].key] # None /\ holder[req[r].key].id = req[r].lease
LeaseHeld(r) == holder[req[r].key] = [owner |-> req[r].by, id |-> req[r].lease]

CheckLease(r) ==
    /\ At(r, "lease")
    /\ LeaseHeld(r)
    /\ Goto(r, "append")
    /\ UNCHANGED <<docsVars, holder, spent, acks>>

-----------------------------------------------------------------------------
(* AppendTaskLifecycle, common to all four commands.                        *)

EventOf(r) ==
    Link(req[r].events,
         [type |-> req[r].op, sha |-> req[r].sha, head |-> req[r].head,
          by |-> req[r].by, lease |-> req[r].lease])

OnlyNewEvent(existing, e) == <<e>>
NextEvents(existing, e) == Append(existing, e)

AppendEvent(r) ==
    LET t == req[r].task
        e == EventOf(r)
    IN  /\ At(r, "append")
        /\ ValidateLifecycleChain(log[t])
        /\ \A i \in 1..Len(log[t]) : ~SameIdentity(log[t][i], e)
        /\ ValidateLifecycleChain(Append(log[t], e))
        /\ Commit(r, t, NextEvents(log[t], e))
        /\ Goto(r, "writing")
        /\ UNCHANGED <<holder, spent, acks>>

\* A same-type event for the same proposal and head is there: a retry.
AppendExisting(r) ==
    LET t == req[r].task
    IN  /\ At(r, "append")
        /\ ValidateLifecycleChain(log[t])
        /\ \E i \in 1..Len(log[t]) : SameIdentity(log[t][i], EventOf(r))
        /\ NothingToCommit(r)
        /\ Goto(r, "writing")
        /\ UNCHANGED <<holder, spent, acks>>

\* The write goes on under the mutex.
Writing(r) ==
    /\ At(r, "writing")
    /\ WriteStep(r)
    /\ UNCHANGED taskVars

\* A submission is answered from the write's outcome, the others read again.
Written(r) ==
    /\ At(r, "writing")
    /\ stage[r].at \in {"ok", "error"}
    /\ stage' = [stage EXCEPT ![r] = Write("idle", 0)]
    /\ \/ /\ stage[r].at = "error"
          /\ End(r)
          /\ UNCHANGED acks
       \/ /\ stage[r].at = "ok" /\ req[r].op = "verified"
          /\ acks' = acks \cup {Ack(r)}
          /\ End(r)
       \/ /\ stage[r].at = "ok" /\ req[r].op # "verified"
          /\ Goto(r, "reread")
          /\ UNCHANGED acks
    /\ UNCHANGED <<heads, log, local, draft, mu, holder, spent>>

\* Only the executor the stream names is told that it has the task.
Reread(r) ==
    /\ At(r, "reread")
    /\ CanRead
    /\ Confirmed(req[r].op, TaskStatusOf(log[req[r].task]), req[r].by)
    /\ acks' = acks \cup {Ack(r)}
    /\ End(r)
    /\ UNCHANGED <<docsVars, holder, spent>>

-----------------------------------------------------------------------------
(* Around the requests.                                                     *)

GrantLease(k, a, l) ==
    /\ Leases!Grant(k, a, l)
    /\ UNCHANGED <<docsVars, req, acks>>

LapseLease(k) ==
    /\ holder[k] # None
    /\ Leases!Lapse({k})
    /\ UNCHANGED <<docsVars, req, acks>>

\* The service process ends: requests and leases are gone, an owned commit may
\* stay in the worktree, and a write interrupted before its commit leaves the
\* file uncommitted.
Crash(left) ==
    /\ \E r \in Writers : req[r].pc # "idle"
    /\ left = Dirty => draft = None /\ mu = None /\ \E r \in Writers : At(r, "append")
    /\ draft' = IF left = Dirty THEN Dirty ELSE draft
    /\ mu' = None
    /\ stage' = [w \in Writers |-> Write("idle", 0)]
    /\ req' = [w \in Writers |-> Idle]
    /\ Leases!Lapse(Targets)
    /\ UNCHANGED <<heads, log, local, acks>>

Agent ==
    \E d \in Editable, v \in Versions : AgentPush(d, v) /\ UNCHANGED taskVars

Operator == OperatorReset /\ UNCHANGED taskVars

Arrive ==
    \E r \in Writers, t \in Tasks :
        \/ \E head \in 1..Len(heads) : Submit(r, t, head)
        \/ \E op \in Ops \ {"verified"}, v \in Versions, by \in Agents,
              k \in Targets \cup {NoHash}, l \in LeaseIds \cup {NoHash} :
              Execute(r, op, t, v, by, k, l)

\* What the goroutine of a request does next.
Step(r) ==
    \/ SubmitRefresh(r) \/ SubmitProposal(r) \/ SubmitGraph(r) \/ SubmitEvents(r)
    \/ ReadLifecycle(r) \/ ProposalMatches(r) \/ ReadDependencies(r)
    \/ CheckDependencies(r) \/ Decide(r) \/ CheckLease(r)
    \/ AppendEvent(r) \/ AppendExisting(r) \/ Writing(r) \/ Written(r) \/ Reread(r)

Init ==
    /\ heads = SeedHeads
    /\ log \in SeedLogs
    /\ DocsInit
    /\ req = [w \in Writers |-> Idle]
    /\ Leases!AbsInit
    /\ acks = {}

Next ==
    \/ Arrive
    \/ \E r \in Writers : Step(r)
    \/ \E r \in Writers : Refused(r)
    \/ \E k \in Targets, a \in Agents, l \in LeaseIds : GrantLease(k, a, l)
    \/ \E k \in Targets : LapseLease(k)
    \/ \E left \in {None, Dirty} : Crash(left)
    \/ Agent
    \/ Operator

Spec == Init /\ [][Next]_allVars

\* What only the remote can end: an owned write runs under
\* context.WithoutCancel, and its git commands have no time-out.  It has the
\* mutex, or is next to take it.
Detached(r) ==
    /\ ~Local
    /\ At(r, "append") \/ (At(r, "writing") /\ stage[r].at \in {"push", "rebase", "sync"})

GoesOn(r) == Step(r) \/ Refused(r)

\* A request's goroutine is scheduled, sync.Mutex does not starve a waiter, and
\* a read, which runs under the context of the request, is ended by the remote
\* or by the client's time-out: outside a write a request makes its next step
\* or is answered with an error.
Fairness == \A r \in Writers : SF_allVars(~Detached(r) /\ GoesOn(r))

FairSpec == Spec /\ Fairness

\* What the code cannot enforce: the remote takes or refuses what a write asks
\* of it, or the connection to it breaks, but it does not keep silent for ever.
RemoteAnswers == \A r \in Writers : SF_allVars(Detached(r) /\ GoesOn(r))

-----------------------------------------------------------------------------

Event == [type : Ops, sha : Versions, head : 1..MaxHeads, seq : 1..4,
          by : Agents \cup {NoHash}, lease : LeaseIds \cup {NoHash}]
Recorded == [type : Ops, sha : Versions, head : 1..MaxHeads, seq : 1..4,
             by : Agents \cup {NoHash}, lease : LeaseIds \cup {NoHash},
             prev : Event \cup {NoHash}]

\* The values that stand for nothing are none of the things they stand beside.
ASSUME ValuesAssumption ==
    /\ NoHash \notin Versions \cup LeaseIds
    /\ None # Dirty /\ None \notin Writers
    /\ None \notin [owner : Agents, id : LeaseIds]
    /\ {None, Dirty} \cap [file : Tasks, content : Seq(Recorded)] = {}

\* A run starts with streams the service wrote earlier, under leases that are
\* gone with its last incarnation.
ASSUME SeedAssumption ==
    /\ SeedHeads \in Seq([Docs -> Versions \cup {NoHash}])
    /\ Len(SeedHeads) \in 1..MaxHeads
    /\ \A logs \in SeedLogs :
        /\ logs \in [Tasks -> Seq(Recorded)]
        /\ \A t \in Tasks :
            /\ ValidateLifecycleChain(logs[t])
            /\ \A i, j \in 2..Len(logs[t]) : logs[t][i].by = logs[t][j].by
            /\ \A i \in 1..Len(logs[t]) : logs[t][i].lease = NoHash
            /\ logs[t] # <<>> =>
                /\ logs[t][1].by = NoHash
                /\ \E h \in logs[t][1].head..Len(SeedHeads) :
                      SeedHeads[h][t] = logs[t][1].sha

\* The mutex is held by a request that is writing, never by one that ended.
MutexOwned == mu # None => At(mu, "writing") /\ stage[mu].at \in {"push", "rebase", "sync"}

\* The types of the worktree, the branch and the requests, with MutexOwned: no
\* way out of a write leaves the docs-repo mutex to a request that is over.
TypeOK ==
    /\ MutexOwned
    /\ local \in 1..Len(heads) /\ Len(heads) <= MaxHeads
    /\ \A t \in Tasks : \A i \in 1..Len(log[t]) : Hash(log[t][i]) \in Event
    /\ draft \in {None, Dirty} \/ draft.file \in Tasks
    /\ mu \in Writers \cup {None}
    /\ \A w \in Writers : stage[w].at \in Stages /\ stage[w].attempt \in 0..PushAttempts
    /\ \A w \in Writers : req[w] = Idle \/ (req[w].op \in Ops /\ req[w].task \in Tasks)

\* Whatever requests race, push attempts fail and processes crash, the stream
\* of every task on the branch is a hash chain verified -> claimed ->
\* completed_local -> completed for one proposal and one head.
ChainsLegal ==
    \A t \in Tasks : \A i \in 1..Len(log[t]) :
        /\ log[t][i].type = EventTypes[i] /\ log[t][i].seq = i
        /\ log[t][i].sha = log[t][1].sha /\ log[t][i].head = log[t][1].head
        /\ i > 1 => log[t][i].prev = Hash(log[t][i - 1])

\* The agent that completes a task is the one that claimed it, although the
\* check reads the stream several steps before the event is written.
ExecutorContinuity ==
    \A t \in Tasks : \A i, j \in 2..Len(log[t]) : log[t][i].by = log[t][j].by

\* A success answered to an agent is on the branch, as that agent's own event:
\* of two agents that claim a task at once at most one is told it has it, and
\* no answer rests on a commit that was not pushed.
AckedIsDurable ==
    \A a \in acks : \E i \in 1..Len(log[a.task]) :
        LET e == log[a.task][i]
        IN  e.type = a.op /\ e.by = a.by /\ e.sha = a.sha /\ e.head = a.head

\* The events on the branch are never rewritten or dropped: not by a rebase,
\* a retry, a crash, a reset of the worktree or an agent.
LogAppendOnly ==
    [][\A t \in Tasks :
         /\ Len(log[t]) <= Len(log'[t])
         /\ SubSeq(log'[t], 1, Len(log[t])) = log[t]]_allVars

\* A task is claimed and completed only when the tasks its verified proposal
\* depends on are completed.
DependenciesCompleted ==
    \A t \in Tasks :
        Len(log[t]) >= 2 =>
        \A d \in DependsOn[t][log[t][1].sha] : TaskStatusOf(log[d]).state = "completed"

\* A verified event names the proposal that is in the commit it names.
VerifiedBinding ==
    \A t \in Tasks :
        log[t] # <<>> => heads[log[t][1].head][t] = log[t][1].sha

\* It never names one that is older than that commit: although the branch moves
\* on between the refresh and the reading of the proposal, the version that was
\* verified was on the branch at the advertised commit or later.
VerifiedSeen ==
    \A t \in Tasks :
        log[t] # <<>> =>
        \E h \in log[t][1].head..Len(heads) : heads[h][t] = log[t][1].sha

\* A submission gets past its refresh only under a commit that no agent-owned
\* change follows.
RefreshStrict ==
    [][\A r \in Writers :
         At(r, "refresh") /\ At(r, "proposal")' => heads[req[r].head] = Last(heads)]_allVars

\* When a completion reaches the branch, its executor holds the lease it names.
LeaseHeldAtCompletion ==
    [][\A t \in Tasks :
         Len(log'[t]) > Len(log[t]) /\ Len(log'[t]) > 2 =>
         LET e == log'[t][Len(log'[t])]
         IN  \E k \in Targets : holder[k] = [owner |-> e.by, id |-> e.lease]]_allVars

\* Nor is it another agent's, however late the completion is written: as long
\* as the lease that a completion names is held, it is held by its executor.
CompletionLeased ==
    \A t \in Tasks : \A i \in 3..Len(log[t]) : \A k \in Targets :
        LET e == log[t][i]
        IN  e.lease # NoHash /\ holder[k] # None /\ holder[k].id = e.lease
              => holder[k].owner = e.by

\* What an event says of its executor, its proposal and its lease stays true of
\* the branch, although the service read them several store calls before the
\* event was committed and pushed.
EventsBound == ExecutorContinuity /\ VerifiedSeen /\ CompletionLeased

\* What an agent is shown of a task is rebuilt from its stream (TaskStatusOf): the
\* state of the abstract task.
Shown(events) ==
    [state    |-> IF events = <<>> THEN "none" ELSE events[Len(events)].type,
     proposal |-> IF events = <<>> THEN NoHash ELSE events[1].sha,
     executor |-> ByOf(events, {"claimed"})]

shown == [t \in Tasks |-> Shown(log[t])]

Promise == INSTANCE TaskAbs
             WITH Proposals <- Versions, Executors <- Agents, Requires <- DependsOn,
                  Nobody <- NoHash, status <- shown

\* The commands and the docs-repo under them implement the abstract tasks: every
\* step of a request, a push, a rebase or a crash shows as one transition of one
\* task, by an agent that may make it, or not at all.
TasksImplemented == Promise!TaskSpec

\* Every request ends, and the mutex is free again.
AllEnd ==
    /\ \A r \in Writers : ~At(r, "idle") ~> At(r, "idle")
    /\ mu # None ~> mu = None

\* As long as the remote answers at all, be it with an error each time, every
\* request ends and the mutex is free again: with its bounded attempts to push
\* a write comes to an end however often agents push in between.
RequestsEnd == RemoteAnswers => AllEnd

\* That they end whatever the remote does (AllEnd) does not hold: one write to a
\* silent remote keeps the mutex for ever, and all other requests wait.
=============================================================================
