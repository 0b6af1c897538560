---------------------------- MODULE LspSession ----------------------------
(***************************************************************************)
(* One language-server session of packages/core/src/adapter/lsp: the       *)
(* request tracker, the diagnostic-readiness waiter, the session built on  *)
(* them by startLspSession, and the termination of the server's process    *)
(* tree (infra/processLifecycle.ts).                                       *)
(*                                                                         *)
(* The client is a coroutine of a single-threaded event loop: an event     *)
(* (data, exit, a timer) is delivered only when the client is waiting, and *)
(* the client then runs to its next await.  A module that extends this one *)
(* supplies the client; here Waiting(k) says that it awaits request k.     *)
(*                                                                         *)
(* A request is named by what it asks, which stands for its fresh id.      *)
(* Bytes and framing are abstracted to whole messages; a chunk that does   *)
(* not decode is one event.                                                *)
(***************************************************************************)
EXTENDS Naturals, FiniteSets

CONSTANTS
    Files,        \* the governed source files, numbered 1..n
    Keys          \* the requests a session may send

Server == "server"
Helper == "helper"            \* a process the server started
Processes == {Server, Helper}
Killers == {"close", "decode"} \* terminate(), and the data handler's catch

VARIABLES
    transport,   \* the launch: over tcp, kills the tree, was spawned at all
    req,         \* tracker.pending and the promises: state of each request
    atServer,    \* requests written to the server and not yet answered
    tracker,     \* LspRequestTracker.closed is unset ("open") or set
    received,    \* DiagnosticReadiness.received
    waiter,      \* the waiter's pending uris; {} when there is none
    ready,       \* how the last diagnostics wait resolved
    closed,      \* startLspSession's closed flag
    registered,  \* the session's cleanup is in activeSignalCleanups
    alive,       \* processes of the server's group that still run
    termed,      \* the group has been sent SIGTERM
    exitSeen,    \* the child's exit (or spawn error) has been observed
    kill         \* phase of each run of killProcess

trackerVars == <<req, atServer, tracker>>
diagVars == <<received, waiter, ready>>
procVars == <<alive, termed, exitSeen>>
sessionVars == <<transport, trackerVars, diagVars, closed, registered,
                 procVars, kill>>

ReqStates == {"unsent", "pending", "ok", "failed", "timeout"}
Phases == {"none", "term", "kill", "ended"}

SessionTypeOK ==
    /\ transport \in [tcp : BOOLEAN, tree : BOOLEAN, spawned : BOOLEAN]
    /\ req \in [Keys -> ReqStates]
    /\ atServer \subseteq Keys
    /\ tracker \in {"open", "closed"}
    /\ received \subseteq Files /\ waiter \subseteq Files
    /\ ready \in {"unknown", "yes", "no"}
    /\ closed \in BOOLEAN /\ registered \in BOOLEAN
    /\ alive \subseteq Processes
    /\ termed \in BOOLEAN /\ exitSeen \in BOOLEAN
    /\ kill \in [Killers -> Phases]

SessionInit(t) ==
    /\ transport = t
    /\ req = [k \in Keys |-> "unsent"] /\ atServer = {} /\ tracker = "open"
    /\ received = {} /\ waiter = {} /\ ready = "unknown"
    /\ closed = FALSE /\ registered = TRUE
    /\ alive = (IF t.spawned THEN Processes ELSE {}) /\ termed = FALSE /\ exitSeen = FALSE
    /\ kill = [k \in Killers |-> "none"]

---------------------------------------------------------------------------
(* LspRequestTracker *)

\* request(): rejected at once when the tracker is closed, else pending
\* with a timer and written to the server.
Request(k) ==
    /\ req' = [req EXCEPT ![k] = IF tracker = "open" THEN "pending" ELSE "failed"]
    /\ atServer' = IF tracker = "open" THEN atServer \cup {k} ELSE atServer
    /\ UNCHANGED tracker

\* Mutated: pending requests are forgotten, not rejected.
FailAllMut ==
    /\ tracker' = "closed"
    /\ req' = [k \in Keys |-> IF req[k] = "pending" THEN "unsent" ELSE req[k]]
    /\ atServer' = {}

\* failAll(): the first reason sticks; every pending request is rejected.
\* From then on nothing is pending, so answers still to come are dropped.
FailAll ==
    /\ tracker' = "closed"
    /\ req' = [k \in Keys |-> IF req[k] = "pending" THEN "failed" ELSE req[k]]
    /\ atServer' = {}

\* Mutated: an answer settles its request whatever became of it.
ConsumeResponseMut(k, outcome) ==
    /\ req' = [req EXCEPT ![k] = outcome]
    /\ atServer' = atServer \ {k}
    /\ UNCHANGED tracker

\* consumeResponse(): an answer settles its request only while it is
\* pending; the answer to a request that timed out or was failed is dropped.
ConsumeResponse(k, outcome) ==
    /\ req' = IF req[k] = "pending" THEN [req EXCEPT ![k] = outcome] ELSE req
    /\ atServer' = atServer \ {k}
    /\ UNCHANGED tracker

\* The request's own timer.
RequestTimeout(k) ==
    /\ req[k] = "pending"
    /\ req' = [req EXCEPT ![k] = "timeout"]
    /\ UNCHANGED <<transport, atServer, tracker, diagVars, closed, registered,
                   procVars, kill>>

---------------------------------------------------------------------------
(* DiagnosticReadiness *)

\* wait(): resolves at once when every uri has been seen, else registers a
\* waiter with a timer.  It does not look whether close() ran before.
Wait(uris) ==
    /\ waiter' = uris \ received
    /\ ready' = IF uris \subseteq received THEN "yes" ELSE "unknown"
    /\ UNCHANGED received

\* close(): resolves the present waiter with false.
DiagClose ==
    /\ waiter' = {}
    /\ ready' = IF waiter # {} THEN "no" ELSE ready
    /\ UNCHANGED received

\* observe(): a publishDiagnostics notification for file f.
Observe(f) ==
    /\ received' = received \cup {f}
    /\ waiter' = waiter \ {f}
    /\ ready' = IF waiter = {f} THEN "yes" ELSE ready
    /\ UNCHANGED <<transport, trackerVars, closed, registered, procVars, kill>>

WaitTimeout ==
    /\ waiter # {}
    /\ waiter' = {} /\ ready' = "no"
    /\ UNCHANGED <<transport, trackerVars, received, closed, registered, procVars, kill>>

---------------------------------------------------------------------------
(* Process lifecycle *)

\* terminateProcessTree, or child.kill() when only the client process is to
\* go ("self"), or socket.destroy() for a daemon: the latter two return at
\* once and wait for nobody.
StartKill(by) ==
    IF transport.tcp
      THEN kill' = [kill EXCEPT ![by] = "ended"] /\ UNCHANGED procVars
      ELSE /\ kill' = [kill EXCEPT ![by] = IF transport.tree THEN "term" ELSE "ended"]
           /\ termed' = TRUE
           /\ UNCHANGED <<alive, exitSeen>>

\* waitForProcessGroupExit and waitForChildExit have both resolved.
TreeGone == alive = {} /\ exitSeen

KillWaitDone(by) ==
    /\ kill[by] \in {"term", "kill"}
    /\ TreeGone
    /\ kill' = [kill EXCEPT ![by] = "ended"]
    /\ UNCHANGED <<transport, trackerVars, diagVars, closed, registered, procVars>>

\* Mutated: the session gives up after the grace period without a SIGKILL.
GraceOverMut(by) ==
    /\ kill[by] = "term" /\ ~TreeGone
    /\ kill' = [kill EXCEPT ![by] = "ended"]
    /\ UNCHANGED <<transport, trackerVars, diagVars, closed, registered, procVars>>

\* The grace period is over: SIGKILL to the group, then a second wait.
GraceOver(by) ==
    /\ kill[by] = "term" /\ ~TreeGone
    /\ kill' = [kill EXCEPT ![by] = "kill"]
    /\ alive' = {}
    /\ UNCHANGED <<transport, trackerVars, diagVars, closed, registered, termed, exitSeen>>

\* The second wait is bounded too; its failure is only reported.
ForceWaitOver(by) ==
    /\ kill[by] = "kill" /\ ~TreeGone
    /\ kill' = [kill EXCEPT ![by] = "ended"]
    /\ UNCHANGED <<transport, trackerVars, diagVars, closed, registered, procVars>>

\* The environment: the server ends, on its own or on a signal; a helper
\* ends on a signal to the group ("self" signals the server alone).
ProcessDies(p) ==
    /\ p \in alive
    /\ p = Helper => termed /\ transport.tree
    /\ alive' = alive \ {p}
    /\ UNCHANGED <<transport, trackerVars, diagVars, closed, registered, termed,
                   exitSeen, kill>>

\* child.on("exit").  A socket has no exit event: a daemon that hangs up is
\* not noticed here.
OnExit ==
    /\ ~transport.tcp /\ transport.spawned /\ Server \notin alive /\ ~exitSeen
    /\ exitSeen' = TRUE
    /\ registered' = FALSE
    /\ DiagClose /\ FailAll
    /\ UNCHANGED <<transport, closed, alive, termed, kill>>

\* child.on("error") and child.stdin.on("error"): the launch failed, which
\* also gives the child an exit code, or the pipe or socket broke.  The
\* cleanup stays registered until close().
OnError ==
    /\ Server \notin alive /\ tracker = "open"
    /\ exitSeen' = (exitSeen \/ ~transport.spawned)
    /\ DiagClose /\ FailAll
    /\ UNCHANGED <<transport, closed, registered, alive, termed, kill>>

\* The data handler's catch: a chunk does not decode, or a reply to a
\* server request is refused because the tracker is closed.  The diagnostic
\* waiters are left alone, and nobody awaits this killProcess.
OnBadData ==
    /\ Server \in alive /\ kill["decode"] = "none"
    /\ FailAll
    /\ StartKill("decode")
    /\ UNCHANGED <<transport, diagVars, closed, registered>>

\* Mutated: the cleanup stays registered.
TerminateMut ==
    /\ ~closed
    /\ closed' = TRUE
    /\ DiagClose /\ FailAll
    /\ StartKill("close")
    /\ UNCHANGED <<transport, registered>>

\* terminate(): close() or a signal; only the first call acts.
Terminate ==
    /\ ~closed
    /\ closed' = TRUE /\ registered' = FALSE
    /\ DiagClose /\ FailAll
    /\ StartKill("close")
    /\ UNCHANGED transport
===========================================================================
