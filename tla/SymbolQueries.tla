--------------------------- MODULE SymbolQueries ---------------------------
(***************************************************************************)
(* The two workflows that query a language server through a session:       *)
(*   - "symbols": collectReferences and collectLspSymbolUse of             *)
(*     adapter/symbol-use/LspSymbolUse.ts, which ask for the references of *)
(*     the candidate declarations;                                         *)
(*   - "relations": runLspResolutionPipeline of adapter/semantic-relations *)
(*     with the kernels of its four languages, which ask for the           *)
(*     definitions the candidates point to.                                *)
(* Both start a session, initialize the workspace, open the documents and  *)
(* warm them up, wait for diagnostics, probe the index, query every        *)
(* candidate, close the session, and say in their report whether what they *)
(* found is complete.                                                      *)
(***************************************************************************)
EXTENDS LspSession

CONSTANTS
    Candidates,   \* declarations or type references to query, numbered 1..n
    FileOf,       \* the file each candidate is in
    MaxPolls,     \* bound on the index polls before the deadline
    Jobs          \* the workflow instances, see JobOK

VARIABLES
    job,          \* the workflow: language options and state of the tree
    pc,           \* where the client coroutine waits
    cur,          \* files warmed up, or index polls made
    capable,      \* the initialize answer advertises the capability
    opened,       \* documents read and opened
    probe,        \* outcome of the index probe
    answer,       \* what the answer for a candidate held
    report        \* "none", "unavailable", "partial", "complete", "defect"

flowVars == <<job, pc, cur, capable, opened, probe, answer, report>>
vars == <<sessionVars, flowVars>>

\* A job: its kind and language options (diag: when diagnostics are awaited,
\* probe, warm, conc: requests in flight), the files that cannot be read, the candidates the parser
\* found, and whether the parser or the workspace gave a reason against
\* completeness.  The symbols workflow reads a file once to find its
\* candidates and again to open it; when it was edited between the two, the
\* offset of a candidate may lie beyond the text that is opened (lost), or
\* that text may be empty (emptied).  The relations workflow reads a file once.
JobOK(j) ==
    /\ j.kind \in {"symbols", "relations"}
    /\ j.diag \in {"always", "whenNoCandidates", "none"}
    /\ j.lang \in {"go", "python", "java", "rust"}
    /\ {j.probe, j.warm, j.reason} \subseteq BOOLEAN
    /\ j.conc \in Nat \ {0}
    /\ j.unreadable \subseteq Files
    /\ j.cands \subseteq Candidates
    /\ j.lost \subseteq j.cands /\ j.emptied \subseteq Files
    /\ j.kind = "relations" => j.lost = {} /\ j.emptied = {}

ASSUME JobsAssumption == \A j \in Jobs : JobOK(j)
ASSUME NumbersAssumption ==
    /\ IsFiniteSet(Files) /\ Files = 1..Cardinality(Files)
    /\ Candidates \subseteq Nat /\ FileOf \in [Candidates -> Files] /\ MaxPolls \in Nat
ASSUME KeysAssumption ==
    Keys = {<<"initialize", 0>>} \cup ({"symbol"} \X Files)
           \cup ({"poll"} \X (1..MaxPolls)) \cup ({"query"} \X Candidates)

InitKey == <<"initialize", 0>>
DocKey(f) == <<"symbol", f>>
PollKey(n) == <<"poll", n>>
QueryKey(c) == <<"query", c>>

Launches == {[tcp |-> FALSE, tree |-> TRUE, spawned |-> TRUE],
             [tcp |-> FALSE, tree |-> TRUE, spawned |-> FALSE],
             [tcp |-> FALSE, tree |-> FALSE, spawned |-> TRUE],
             [tcp |-> TRUE, tree |-> TRUE, spawned |-> TRUE]}

\* startSession and the initialize request it is used for first.
Init ==
    /\ job \in Jobs
    /\ \E t \in Launches : SessionInit(t)
    /\ pc = "start" /\ cur = 0
    /\ capable = FALSE /\ opened = {}
    /\ probe = "none"
    /\ answer = [c \in Candidates |-> "none"]
    /\ report = "none"

TypeOK ==
    /\ SessionTypeOK
    /\ pc \in {"start", "initialize", "warm", "diagnostics", "sleep", "poll", "query",
               "close", "closing", "done"}
    /\ cur \in 0..(Cardinality(Files) + MaxPolls)
    /\ opened \subseteq Files
    /\ probe \in {"none", "ready", "late", "failed", "timeout"}
    /\ answer \in [Candidates -> {"none", "targets", "empty"}]
    /\ report \in {"none", "unavailable", "partial", "complete", "defect"}

---------------------------------------------------------------------------
(* The client coroutine *)

Settled(k) == req[k] \in {"ok", "failed", "timeout"}

\* What has a text to be queried with: an empty one counts as missing.
WithSource == opened \ job.emptied

\* What mapWithConcurrency still has to start, and what is in flight.  A
\* candidate of a file without a text is skipped, and marks the collection
\* incomplete; one whose offset has no position in the text is skipped
\* without a mark.
Unstarted == {c \in job.cands \ job.lost :
                req[QueryKey(c)] = "unsent" /\ FileOf[c] \in WithSource}
InFlight == {c \in job.cands : req[QueryKey(c)] = "pending"}

\* The client has something to do; otherwise it waits for an event.
Runnable ==
    \/ pc \in {"start", "close"}
    \/ pc = "initialize" /\ Settled(InitKey)
    \/ pc = "warm" /\ (cur > 0 => Settled(DocKey(cur)))
    \/ pc = "diagnostics" /\ waiter = {}
    \/ pc = "poll" /\ Settled(PollKey(cur))
    \/ pc = "query" /\ \/ Unstarted # {} /\ Cardinality(InFlight) < job.conc
                       \/ Unstarted = {} /\ InFlight = {}
    \/ pc = "closing" /\ kill["close"] = "ended"

Goto(l) == pc' = l

\* startSession; initializeWorkspace sends its request.
Start ==
    /\ pc = "start" /\ Goto("initialize")
    /\ Request(InitKey)
    /\ UNCHANGED <<transport, diagVars, closed, registered, procVars, kill>>
    /\ UNCHANGED <<job, cur, capable, opened, probe, answer, report>>

\* initializeWorkspace fails: the report is "unavailable" either way.
InitializeFails ==
    /\ pc = "initialize" /\ Settled(InitKey)
    /\ req[InitKey] # "ok" \/ ~capable
    /\ report' = "unavailable" /\ Goto("close")
    /\ UNCHANGED <<sessionVars, job, cur, capable, opened, probe, answer>>

\* openAndPrepareDocuments reads and opens what it can; openRelationDocuments
\* throws on the first file it cannot read, which nothing catches.
OpenDocuments ==
    /\ pc = "initialize" /\ req[InitKey] = "ok" /\ capable
    /\ opened' = Files \ job.unreadable
    /\ IF job.kind = "relations" /\ job.unreadable # {}
         THEN report' = "defect" /\ Goto("close")
         ELSE report' = report /\ Goto("warm")
    /\ UNCHANGED <<sessionVars, job, cur, capable, probe, answer>>

ToWarm == IF job.warm THEN {f \in opened : f > cur} ELSE {}

\* documentSymbol for one file after the other, failures only remembered.
WarmNext ==
    /\ pc = "warm" /\ Runnable /\ ToWarm # {}
    /\ LET f == CHOOSE g \in ToWarm : \A h \in ToWarm : g <= h
       IN  cur' = f /\ Request(DocKey(f))
    /\ UNCHANGED <<transport, diagVars, closed, registered, procVars, kill>>
    /\ UNCHANGED <<job, pc, capable, opened, probe, answer, report>>

WaitsForDiagnostics ==
    job.diag = "always" \/ (job.diag = "whenNoCandidates" /\ job.cands = {})

StartDiagnostics ==
    /\ pc = "warm" /\ Runnable /\ ToWarm = {}
    /\ Goto("diagnostics") /\ cur' = 0
    /\ IF WaitsForDiagnostics
         THEN Wait(IF job.kind = "symbols" THEN opened ELSE Files)
         ELSE ready' = "yes" /\ UNCHANGED <<received, waiter>>
    /\ UNCHANGED <<transport, trackerVars, closed, registered, procVars, kill>>
    /\ UNCHANGED <<job, capable, opened, probe, answer, report>>

WarmIncomplete == \E f \in Files : req[DocKey(f)] \in {"failed", "timeout"}

\* probeIndexReady and waitForRustDefinitionIndex: nothing to probe with.
Probes == job.probe /\ job.cands # {} /\ ~(job.kind = "relations" /\ WarmIncomplete)

\* The next workspace/symbol request of the poll.
PollIndex ==
    /\ \/ pc = "diagnostics" /\ waiter = {} /\ Probes
       \/ pc = "sleep"
    /\ cur < MaxPolls
    /\ cur' = cur + 1 /\ Goto("poll")
    /\ Request(PollKey(cur + 1))
    /\ UNCHANGED <<transport, diagVars, closed, registered, procVars, kill>>
    /\ UNCHANGED <<job, capable, opened, probe, answer, report>>


\* The poll ends: the symbol is listed; it is not, before the deadline
\* (sleep and poll again) or after it; or the request fails or times out,
\* which the catch takes for "ready" without telling the two apart.
EndPoll ==
    /\ pc = "poll" /\ Settled(PollKey(cur))
    /\ IF req[PollKey(cur)] = "ok"
         THEN /\ UNCHANGED probe
              /\ \/ probe = "late" /\ cur < MaxPolls /\ Goto("sleep")
                 \/ Goto("query")
         ELSE probe' = req[PollKey(cur)] /\ Goto("query")
    /\ UNCHANGED <<sessionVars, job, cur, capable, opened, answer, report>>

SkipProbe ==
    /\ pc = "diagnostics" /\ waiter = {} /\ ~Probes /\ Goto("query")
    /\ UNCHANGED <<sessionVars, job, cur, capable, opened, probe, answer, report>>

\* mapWithConcurrency, or the pipeline's workers: the next candidate.
StartQuery ==
    /\ pc = "query" /\ Unstarted # {} /\ Cardinality(InFlight) < job.conc
    /\ Request(QueryKey(CHOOSE c \in Unstarted : \A d \in Unstarted : c <= d))
    /\ UNCHANGED <<transport, diagVars, closed, registered, procVars, kill>>
    /\ UNCHANGED flowVars

---------------------------------------------------------------------------
(* The report *)

IndexReady == probe # "late"
DiagnosticsReady == ready = "yes"
Unresolved == {c \in job.cands : req[QueryKey(c)] \in {"failed", "timeout"}}
Resolved == {c \in job.cands : req[QueryKey(c)] = "ok"}
WithTargets == {c \in Resolved : answer[c] = "targets"}

\* Mutated: a failed references request does not mark the collection.
SymbolsCompleteMut ==
    /\ job.unreadable = {} /\ ~WarmIncomplete
    /\ DiagnosticsReady /\ IndexReady

\* collectReferences: what marks the collection incomplete.
SymbolsComplete ==
    /\ job.unreadable = {} /\ ~WarmIncomplete
    /\ DiagnosticsReady /\ IndexReady
    /\ Unresolved = {}
    /\ \A c \in job.cands : FileOf[c] \in WithSource

\* isComplete of the Go kernel.
GoComplete ==
    /\ Unresolved = {} /\ Resolved = job.cands /\ WithTargets # {}
    /\ DiagnosticsReady /\ ~WarmIncomplete

\* isComplete of the Python kernel, and of the Java kernel, which is the same.
PythonComplete ==
    /\ IF job.cands = {} THEN DiagnosticsReady
       ELSE Unresolved = {} /\ Resolved = job.cands /\ WithTargets # {}
    /\ ~WarmIncomplete
JavaComplete == PythonComplete

\* isComplete of the Rust kernel, which counts failed requests.
RustComplete ==
    /\ IF job.cands = {} THEN DiagnosticsReady
       ELSE Unresolved = {} /\ WithTargets # {}
    /\ IndexReady /\ ~WarmIncomplete

\* isComplete of the kernel of the language.
RelationsComplete ==
    CASE job.lang = "go" -> GoComplete
      [] job.lang = "rust" -> RustComplete
      [] job.lang = "java" -> JavaComplete
      [] job.lang = "python" -> PythonComplete

\* The report's availability; job.reason stands for the parser's, the
\* workspace's and the budget's reasons.
Finish ==
    /\ pc = "query" /\ Unstarted = {} /\ InFlight = {}
    /\ report' = IF /\ ~job.reason
                    /\ IF job.kind = "symbols" THEN SymbolsComplete ELSE RelationsComplete
                   THEN "complete" ELSE "partial"
    /\ Goto("close")
    /\ UNCHANGED <<sessionVars, job, cur, capable, opened, probe, answer>>

\* The finally block: session.close().  When a signal closed the session
\* before, close() returns without waiting for the process.
Close ==
    /\ pc = "close"
    /\ IF closed THEN Goto("done") /\ UNCHANGED sessionVars
                 ELSE Goto("closing") /\ Terminate
    /\ UNCHANGED <<job, cur, capable, opened, probe, answer, report>>

Closed ==
    /\ pc = "closing" /\ kill["close"] = "ended" /\ Goto("done")
    /\ UNCHANGED <<sessionVars, job, cur, capable, opened, probe, answer, report>>

Client ==
    \/ Start \/ InitializeFails \/ OpenDocuments \/ WarmNext \/ StartDiagnostics
    \/ EndPoll \/ SkipProbe \/ StartQuery \/ Finish \/ Close \/ Closed
    \/ (pc = "diagnostics" /\ PollIndex)

---------------------------------------------------------------------------
(* Events, delivered while the client waits *)

\* What the answer says: whether the server has the capability, whether
\* the probed symbol is in its index, what it knows of the candidate.
AnswerContent(k) ==
    CASE k = InitKey -> capable' \in BOOLEAN /\ UNCHANGED <<probe, answer>>
      [] k[1] = "poll" -> /\ probe' \in {"ready", "late"}
                          /\ UNCHANGED <<capable, answer>>
      [] k[1] = "query" -> /\ \E a \in {"targets", "empty"} :
                                 /\ job.kind = "symbols" => a = "targets"
                                 /\ answer' = [answer EXCEPT ![k[2]] = a]
                           /\ UNCHANGED <<capable, probe>>
      [] OTHER -> UNCHANGED <<capable, probe, answer>>

\* The server answers request k, with a result or with an error.
Answer(k) ==
    /\ k \in atServer
    /\ \/ ConsumeResponse(k, "ok")
          /\ IF req[k] = "pending" THEN AnswerContent(k)
                                   ELSE UNCHANGED <<capable, probe, answer>>
       \/ ConsumeResponse(k, "failed") /\ UNCHANGED <<capable, probe, answer>>
    /\ UNCHANGED <<transport, diagVars, closed, registered, procVars, kill>>
    /\ UNCHANGED <<job, pc, cur, opened, report>>

Publish(f) ==
    /\ f \in opened \ received /\ Server \in alive
    /\ WaitsForDiagnostics /\ pc \in {"warm", "diagnostics"}   \* else nobody looks
    /\ Observe(f)

\* SIGINT or SIGTERM: the registered cleanup is terminate(), not awaited.
Signal == registered /\ Terminate

Timer == \/ \E k \in Keys : RequestTimeout(k)
         \/ WaitTimeout
         \/ \E by \in Killers : KillWaitDone(by) \/ GraceOver(by) \/ ForceWaitOver(by)

SessionEvent == (Timer \/ OnExit) /\ UNCHANGED flowVars

Fault ==
    /\ \/ \E p \in Processes : ProcessDies(p)
       \/ OnError \/ OnBadData \/ Signal
       \/ \E f \in Files : Publish(f)
    /\ UNCHANGED flowVars

Wake == pc = "sleep" /\ PollIndex

Next == \/ Client
        \/ ~Runnable /\ \/ SessionEvent \/ Fault \/ Wake
                        \/ \E k \in Keys : Answer(k)

\* The event loop runs the client and fires due timers and exit events;
\* nothing is assumed of the server.
Fairness == WF_vars(Client) /\ WF_vars(~Runnable /\ SessionEvent) /\ WF_vars(~Runnable /\ Wake)

Spec == Init /\ [][Next]_vars /\ Fairness

---------------------------------------------------------------------------
(* Properties *)

\* A report is complete only when every candidate that has a position in the
\* text opened was queried and answered in this session, every document was
\* read and warmed up, and the diagnostics the report relies on arrived for
\* every file: a failure or a time-out of any of these leaves it partial,
\* whether by a crash, a signal or an undecodable chunk.  It does not speak
\* of the index probe, whose failed request counts as ready (see
\* ProbeTimeoutIsPartial), nor of candidates skipped without a mark (see
\* EveryCandidateAnswered); the Python, Java and Rust relations with
\* candidates do not rely on diagnostics.
CompleteMeansAnswered ==
    report = "complete" =>
        /\ \A c \in job.cands \ job.lost : req[QueryKey(c)] = "ok"
        /\ job.unreadable = {}
        /\ job.warm => \A f \in Files : req[DocKey(f)] = "ok"
        /\ WaitsForDiagnostics /\ (job.kind = "symbols" \/ job.lang = "go" \/ job.cands = {})
             => Files \subseteq received

\* A promise settles once: no late answer, failAll or timer changes the
\* outcome of a request that was answered, failed or had timed out.
SettledOnce == [][\A k \in Keys : Settled(k) => req'[k] = req[k]]_vars

\* When the workflow has returned, the session is closed and leaves nothing
\* that keeps the process alive: no pending request timer, no diagnostics
\* waiter, no signal handler; and a stdio server it was to kill is either
\* gone or still being killed by a terminate() a signal had begun.
NothingLeftBehind ==
    pc = "done" =>
        /\ closed /\ ~registered /\ waiter = {}
        /\ \A k \in Keys : req[k] # "pending"
        /\ ~transport.tcp /\ transport.tree =>
             alive = {} \/ kill["close"] = "term"

\* A workflow always returns, whatever the server does: every await is
\* bounded by a timer or failed by the session.
WorkflowReturns == <>(pc = "done")

\* After the workflow has returned the server's process tree goes away.
TreeReaped == (pc = "done" /\ ~transport.tcp /\ transport.tree) ~> (alive = {})

\* A finished workflow leaves neither session state nor, in the end, a process.
CleanEnd == TypeOK /\ NothingLeftBehind
WorkflowEnds == WorkflowReturns /\ TreeReaped

\* The index probe's comment: a timeout is reported as "not ready" and the
\* caller marks the collection incomplete.
ProbeTimeoutIsPartial == report = "complete" => probe # "timeout"

\* Stronger, and false: the report is complete only when every candidate was
\* answered.  factForCandidate returns early, without a mark, for a candidate
\* whose offset lies beyond the text opened.
EveryCandidateAnswered ==
    report = "complete" => \A c \in job.cands : req[QueryKey(c)] = "ok"
===========================================================================
