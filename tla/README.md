# OpenArch: TLA+ models, model checking and proofs

OpenArch governs the structure of source repositories. A command line tool and
its core library (TypeScript, `packages/`) scan a project, keep a baseline and a
ledger of evidence in the project's `.openarch/` directory, and judge changes
against them. A coordination service (Go, `services/coordination/`) lets several
agents work on one shared docs-repo: it grants leases, tracks live sessions and
appends the lifecycle events of tasks and validation evidence to files it owns in
that Git repository. An editor plugin shows what the command line finds.

The models cover three kinds of code: the parts that keep durable or shared state,
where several processes, requests or agents act on the same state and may die
between two steps; the parts that drive something unreliable (a language server,
the network, a child process); and the decisions that other parts rest on (what
counts as a change, which verdict follows, what a hook lets through), as pure
operators checked against laws.

## 1. The system

### Components, their state and their operations

| Component | State | Operations | Model |
|---|---|---|---|
| lease authority (`collaboration/adapter/memory/lease.go`, `domain/lease.go`) | leases by key, next lease id, next fence, epoch; all in memory | Acquire, Renew, Release, Get, List, restart | `LeaseStore`, `LeaseAbs`, `LeaseStoreProofs` |
| live session authority (`memory/session.go`) | sessions by repository and id, revision, epoch; in memory | Register, Heartbeat, Close, Get, List, restart | `SessionStore`, `StoresProofs` |
| docs-repo authority (`evidence/adapter/docsrepo/*.go`) | a Git worktree, the branch of its remote, one mutex | refresh, fast-forward, owned commit, push with retries and rebase | `DocsRepo` |
| task lifecycle rules (`domain/task*.go`) | none: rules over an event stream | link, validate chain, transitions, dependencies | `TaskLifecycle` |
| task service (`application/task.go`) | the event stream of each task, in the docs-repo | Submit, Claim, CompleteLocal, Complete, List, Get | `TaskService`, `TaskAbs`, `TaskServiceProofs` |
| evidence service (`internal/evidence/`) | the evidence file in the docs-repo, a projection file | ingest, refresh, read a calibration, restart | `EvidenceService`, `EvidenceServiceProofs` |
| coordination client (`core/src/coordination/`, `cli/.../coordination.ts`) | the command in progress, its open request, its credentials | task and lease commands with timeout, retry and polling | `CoordinationClient`, `CoordinationClientProofs` |
| governance write lock (`core/src/adapter/lock/`) | lock file, guard file, heartbeat timer | acquire, release, heartbeat, recovery of a dead owner's files | `AdvisoryLock`, `LocalProofs` |
| evidence ledger (`HistoryLedger.ts`, `JsonHistoryStore.ts`, `JsonPendingDiffStore.ts`) | pending evidence, raw entries, checkpoint, compaction marker | diff, seal, compact, recover, read | `HistoryLedger`, `StoresProofs` |
| baseline generations (`adapter/storage/Baseline*.ts`) | active directory, backups, staging | complete scan, incremental scan, recovery, read | `BaselineStore`, `StoresProofs` |
| scan, status and gate (`application/scan*.ts`, `governance/*.ts`) | the baseline index over the project's files and configuration | scan in full or incrementally, judge | `GovernanceCommands` over `GatePolicy` over `StructuralMetrics`, `GovernanceProofs` |
| diff, impact and evolution (`semanticDiff.ts`, `changeSurface.ts`, `evolution*.ts`) | none that outlives a command | classify changes, their reach, their history | `SemanticChanges`, `ChangeSets`, `ChangeImpact`, `Evolution`, `GovernanceProofs`, `SymbolQueriesProofs` |
| symbol evidence (`symbol*.ts`) | calibration samples and profiles | ask providers, calibrate, admit | `SymbolEvidence`, `SymbolQueriesProofs` |
| language-server sessions and queries (`adapter/lsp/`, `adapter/symbol-use/`, `adapter/semantic-relations/`, `infra/`) | open requests, timers, a child process tree | initialize, open, warm up, probe, query, terminate | `LspSession`, `SymbolQueries`, `SymbolQueriesProofs` |
| commit hook (`hook/`, `cli/commands/check.ts`) | pending evidence, Git's index | check what is staged, seal it, commit; policies of a check | `CommitHook`, `LocalProofs` |
| test governance (`test-governance/`, `testGovernance*.ts`) | a child process | collect facts of six frameworks, findings, verdict, bloat score | `TestProviders`, `TestGovernance`, `LocalProofs`, `GovernanceProofs` |
| init, readiness, skills, docs-repo link | files of the project | init and its undoing when a step fails | `ProjectSetup`, `LocalProofs` |
| document library (`document-store/`) | an index of fingerprints, dispositions | scan, update, similarity, decide | `Documents`, `SymbolQueriesProofs` |
| project scripts (`script-runtime/`, `anti-patterns/`, `implicit-deps/`) | discovered edges | admit, select targets, run, merge | `Scripts`, `SymbolQueriesProofs` |
| editor plugin (`openarch-plugin/dsh/`) | caches of facts, dashboard, background jobs | collect, invalidate, poll, read output | `GovernanceCache`, `JobOutput`, `LocalProofs` |
| scope and debt registers, event publisher, event signatures | | | not modelled, see section 7 |

`PROJECT.json` lists every component with its sources, how far it is modelled,
and what is left out.

### How they interact

An agent edits and pushes documents (proposals) to the docs-repo with plain Git.
It then calls the coordination service over HTTP. The service refreshes its
worktree to the head the agent names, reads the proposal and the task's events,
validates the transition, asks the lease authority whether the agent holds the
leases a completion needs, and has the docs-repo authority append the new event.
The append is a commit, a push, up to three attempts with a rebase in between,
and a check that the remote has what was committed. Requests run concurrently.
The docs-repo authority's mutex is held during one call of the authority and not
across a request, so requests interleave with each other and with the pushes of
agents between any two calls. Validation evidence takes the same path into
another file, and is read from a projection that is rewritten afterwards. The
client gives up a request after a timeout and may send it again; the one it gave
up may still be executed.

On the other side, commands of the CLI are separate processes on one machine.
Commands that write take the governance lock, a file with a heartbeat; commands
that only read (`review`, `record`) do not. `scan` publishes the baseline, `diff`
writes pending evidence, and the commit hook seals pending evidence and compacts
the ledger. Any of these processes can be killed between two file operations,
and the next command has to cope with what it finds. `scan` and `diff` start
language servers as child processes and believe what these answer in time. The
plugin runs the same commands and caches what they print.

### What is hard about it

* Interleaving: check-then-act over several calls of a store (`task.go`), over
  two file operations of different processes (`LockFileStore.ts`), over two calls
  of the projection (`evidence/application/service.go`), over several questions to
  Git (`changeSet.ts`, `semanticEvidence.ts`), and over three reads without a lock
  (`HistoryLedger.ts`).
* Failure: rejected, unanswered and half-successful pushes; a death between
  commit and push, between marker and checkpoint, between rename and removal; a
  language server that hangs, dies or refuses to die.
* Time: leases and sessions expire while a client still uses them; a restart
  that falls within the second of the last start; a heartbeat, an answer or a
  diagnostic that comes late; facts that are cached while tools change them.
* Identity: an epoch made from the clock, ids that start again at 1, a lookup by
  an id that is unique only within a repository, symbols found by the last part
  of their name.
* Partial knowledge: what was not asked, not answered or not readable must not
  look like "nothing found".

`PROJECT.json` lists the forty hazards that matter most, each at its line, with
the properties that would catch it, or with a note that says why none does and which
stronger property fails; section 6 lists further ones.

### What makes each component correct

* Lease authority: two clients never believe that they hold the same key in one
  incarnation of the service; fences order grants, also across restarts; nothing
  but expiry, release and restart takes a lease away; expiry is final.
* Session authority: an open session stays stored under its own credential, and its
  owner can reach it.
* Docs-repo and task service: event streams stay legal and only grow; what an
  agent was told is on the branch; the executor of a task does not change while
  it is being executed; a dependent task waits; every request ends as long as the
  remote answers at all.
* Evidence service: one conclusion for each calibration slot; what was accepted
  is on the branch and projected; nothing is projected that never was there.
* Client: what a command reports is true although answers are lost; a retried claim is
  not refused unless the documents changed.
* Governance lock: at most one holder, whose file is on disk.
* Evidence ledger: each piece of sealed evidence counts exactly once, at every
  instant at which a command may die.
* Baseline: a complete scan that dies leaves readers a complete generation, a scan that
  succeeds one of the files it saw, none is older than the one before, and one that is
  reported fresh is exact.
* Gate: a verdict follows from the files and policies of now and nothing else.
* Queries: a report that says it is complete rests on an answer to each question it
  counts on;
  a workflow ends and leaves no process.
* Diff, tests, scripts, documents, setup: nothing is silently dropped, and a
  failed step does not destroy what was there.
* Commit hook: what is committed under it was checked, and its evidence sealed.
* Plugin: what is shown comes to agree with the facts.

## 2. Modules

```
LeaseAbs  <--implemented by--  LeaseStore  <--proved about--  LeaseStoreProofs
    ^
    | INSTANCE
TaskService --EXTENDS--> DocsRepo, TaskLifecycle <--EXTENDS-- CoordinationClient
TaskAbs  <--implemented by--  TaskService
EvidenceService --EXTENDS--> DocsRepo

GovernanceCommands --EXTENDS--> GatePolicy --EXTENDS--> StructuralMetrics
SymbolQueries --EXTENDS--> LspSession

MCStores: HistoryLedger, SessionStore, BaselineStore, EvidenceService
MCStores  <--proved about--  StoresProofs  --INSTANCE-->  EvidenceServiceProofs
MCAlgorithms: SemanticChanges, ChangeSets, ChangeImpact, Evolution, StructuralMetrics,
    TestProviders, ProjectSetup, Documents, Scripts, SymbolEvidence
MCAlgorithms  --EXTENDS-->  LocalMachines: CommitHook, TestGovernance, GovernanceCache, JobOutput
AdvisoryLock, LocalMachines, ProjectSetup  <--proved about--  LocalProofs
GovernanceCommands, ChangeImpact, TestGovernance, SemanticChanges  <--proved about--  GovernanceProofs
SymbolQueries, ChangeSets, SymbolEvidence, Scripts, Documents  <--proved about--  SymbolQueriesProofs
```

`TaskService`, `EvidenceService`, `CoordinationClient` and `SymbolQueries` have
their theorems in a module of their name with `Proofs` added, `GovernanceCommands`
in `GovernanceProofs`. The theorems about algorithms are in the last parts of
`GovernanceProofs`, `SymbolQueriesProofs` and `LocalProofs`, each beside the machine
that uses the algorithm or runs next to it.

The `MC...` modules hold the definitions a run needs (symmetry, seeds, enumerated
inputs, dependency tables), with one `.cfg` per run. `MCStores` and `MCAlgorithms`
each check several components that share no state: a behaviour chooses one of
them and the others rest.

**`LeaseAbs`** says what a lease authority promises: a key is free or held under
an id, an id is granted once, and keys are granted only when they are free. It
is the specification `LeaseStore` implements and the lease authority that
`TaskService` is composed with.

**`LeaseStore`** has one action per outcome of an operation, because
every operation runs under the store's mutex. `now`, `epoch`, `nextLease`,
`nextFence` and `leases` are the fields of the Go store and its clock; `grants`,
`granted` and `released` record what clients were told. `Sweep` is the removal
of expired entries with which a refused Acquire, Get and List end; a granted
Acquire removes them in the same step. Renew deletes an expired entry before it
looks at the credential, so that is an action too. `Restart` builds a new store
from the clock, as `main.go` does.

**`SessionStore`** is built the same way. Heartbeat and Close find a session by
its id alone, in the order of a Go map iteration, so the entry they find is
chosen from all sessions with that id, those of other repositories included.

**`DocsRepo`** represents a commit by its position in `heads`; `log` is the
content of the service-owned files at the last commit. `draft` is the service's
own commit that is not on the branch yet, or `Dirty` for what an interrupted
write leaves in the worktree. An owned write holds `mu` from its commit to its
last check, through the stages push, rebase and sync of `stage`. In local mode
there is no remote and agents commit into the service's worktree.

**`TaskLifecycle`** holds the pure rules: the hash chain, the legal order of
events, the identity of a retry, transitions, dependencies and their cycles. It
has no variables.

**`TaskService`** gives each concurrent request a slot. `req[r]` is the program
counter of the request with the values it read so far, so that a value read in
one step and used in a later one can be stale in the model where it can be stale
in the code. One action is one call of a store. `acks` is what agents were told.
`Detached` marks the part of a write that runs under `context.WithoutCancel`.

**`TaskAbs`** says what the service promises about tasks: each is verified once, claimed
once by one executor, completed locally and then for good by that executor, and none of
this is undone; it is claimed only when the tasks it requires are completed. One
variable holds the status of each task, and each action is one atomic transition. In
`TaskService` the transition is decided on events that were read calls ago and takes
effect when a push reaches the branch. `shown` is the mapping: the status of a task is
what its events on the branch say (`Shown`); `TasksImplemented` says that `TaskService`
is an implementation under it. That a completion happens under a lease is no part of
`TaskAbs`, because it does not hold (`LeaseHeldAtCompletion`, section 3).

**`AdvisoryLock`** has one action per file operation of `acquire`, `release` and
the heartbeat. A file is absent, half-written (its content does not parse yet)
or complete; a process may die at the program points in `CrashAt`.

**`HistoryLedger`** models the three kinds of command that write the ledger, one
at a time, step by step, with a crash possible between steps, and one reader
without the lock. An entry is its content-addressed id with the day of its
timestamp; a checkpoint is the set of ids folded into it together with their
number, which differ when an entry was folded twice.

**`BaselineStore`** models directories as a function from paths to shards with an
index, and follows the order of the file operations of a complete scan (stage,
move the active one aside, install, remove the backup) and of an incremental one
(shards in place, then deletions, then the index).

**`EvidenceService`** is composed with `DocsRepo` in the way `TaskService` is: a
slot `calls[w]` holds a request and what it has read, and each call of the
authority or of the projection is one action. `accepted` and `published` are
histories: the records that were acknowledged, and the contents the file has had.
The projection may be lost (it lives in the temporary directory) and the service
may die at any point.

**`CoordinationClient`** has the commands of `openarch coordination` over a network
that loses, delays and reorders. The service is one atomic answer here, by the
rules of `TaskLifecycle` and of a lease table; what is open is when a request is
executed with respect to the client's timeout and its retry, and with respect to edits of
the proposal and the scope (`DocsEdited`), which the service compares with what was
verified before it looks at the lifecycle.

**`LspSession`** is the event loop of one session: a request settles by its answer,
its timer, the end of the session, or an undecodable chunk; the process tree is
ended in phases (asked, waited for, killed, waited for). **`SymbolQueries`** adds
the client coroutine, for the two workflows and the four languages. A job says which files
were edited between the search for candidates and the opening of the documents, so that
a candidate has no position in the text any more (`lost`) or the text is empty (`emptied`).

**`StructuralMetrics`**, **`GatePolicy`** and **`GovernanceCommands`** go from the
metrics of a file over the gate's decision to a tree under edits and scans. A scan
takes its steps one by one, with edits in between, because it reads the sources
three times (identity, parsing, hashes).

**`SemanticChanges`**, **`ChangeSets`**, **`ChangeImpact`**, **`Evolution`**,
**`SymbolEvidence`**, **`TestProviders`**, **`Documents`**, **`Scripts`** and most
of **`TestGovernance`** and **`ProjectSetup`** are operators. Each states, beside the
translation of the code, laws that are not the code said again: an independent
definition (components as the finest partition, reach by paths), a relation between
two runs (a permutation or a reversal of the input), or honesty (what is reported
complete missed nothing). `MCAlgorithms` has one action for each algorithm, which
chooses an input.

**`CommitHook`** is a machine: the hook's questions to Git, one for the hash of each
staged file, with staging and other checks between any two of them, up to the commit. **`GovernanceCache`** and
**`JobOutput`** are the plugin's machines, and **`TestGovernance`** has that of a test
process. **`LocalMachines`** puts the four side by side; they share no state, and a
behaviour is one of one of them. `MCAlgorithms` adds the inputs of the algorithms, and
its runs are behaviours of `MachinesSpec` otherwise.

### What the models leave out

The control flow is kept; data is reduced to what the properties tell apart.

* The clock never steps back. Ticks stand for time; `TicksPerSecond` relates them
  to the whole seconds of the epoch.
* Hashes are injective: an event's hash stands for its fields other than the
  timestamp and the signature. Signatures are taken to verify.
* Validation that only rejects a request before it touches any state (field
  syntax, scope checks, proof-of-leases format) is one refusal, `Refused`.
* One instance of the coordination service runs at a time, as its deployment
  requires.
* In `HistoryLedger` a piece of evidence gets a fresh id unless the same content
  is sealed again; the exponential decay of folded deltas is real arithmetic and
  is left out: the model follows which entries a checkpoint stands for.
* In `BaselineStore` the identity of a generation is a function of its shards;
  calibration and other metadata of the index are left out, and so are staging
  directories a dead scan left, which nothing reads.
* In `EvidenceService` a record is its slot and its conclusion; whether it is too
  long to be read back is a property of the record.
* A source file is what its parser returned, a script what it returned, a language
  server's answer right or wrong: syntax is an input, its failure is an outcome.
* Scores that multiply logarithms or weights are left out or scaled to integers;
  what they are computed from and how they are compared is kept.

## 3. Runs

### Passing runs

| Run | Bounds | What it shows |
|---|---|---|
| `lease_store` | 2 keys, 2 owners, 3 grants, 5 ticks at 2 per second | leases exclude each other, fences order grants over restarts, a holder is in the store, expiry is final, `LeaseStore` implements `LeaseAbs` |
| `task_service` | 2 requests, 2 agents, 1 task, 2 contents, 4 commits of which 2 at the start, fresh or claimed task | streams legal and append-only, executor kept, acknowledged events durable, an event bound to the commit and proposal it names |
| `task_live` | 2 requests, 1 new commit, fair scheduling | every request ends and the mutex is freed, as long as the remote answers a write at all |
| `task_local` | no remote; 2 requests, 2 tasks, one depending on the other; 3 commits; the other task's proposal is edited | the streams implement the abstract tasks, so a task is claimed only after its dependency is completed; a verification never names a version older than its commit |
| `advisory_lock` | 4 processes, 2 acquisitions each; deaths that leave a lock or a guard but not both | mutual exclusion, the holder's files are its own |
| `stores` | ledger: 3 entries, 4 days, window of 1 day; sessions: 2 repositories, 1 id, 2 owners, 3 registrations, 5 ticks; baseline: 2 paths, 2 versions, 3 scans of both kinds; evidence: 2 requests, 3 records of 2 slots, 3 commits, 2 push attempts | sealed evidence counts once at every instant and a raw file goes only when it is folded in; an open session stays stored under its credential and can be found, and expiry is final; a complete scan that dies leaves a complete generation, a scan that succeeds one of what it saw, never an older one; acknowledged evidence is on the branch and projected |
| `clients` | 2 agents with 2 commands each, 2 dependencies, 1 retry, 2 grants | what a command reports is true, no lease of another agent is used, a retried claim is refused only while the documents of the task are edited, every command returns |
| `symbol_queries` | 2 files, 2 candidates, 2 polls; 10 jobs over both workflows and all languages, with files edited before they are opened | complete means answered, for candidates with a position in the text, a request settles once, the workflow ends, no process is left |
| `governance` | 3 files in 2 languages, 5 configurations and an index of an old format, with and without a Maven layout, 2 edits, 3 scans | a fresh baseline is exact, the gate accepts what a scan wrote, a verdict follows the present files and policies |
| `algorithms` | enumerated inputs of each algorithm; the plugin with 2 changes of facts and 2 slots; a tail of 3 characters over an output of 7; a commit with 2 files and 1 edit | the laws of the algorithms; what is committed is sealed; the dashboard converges and output is given once |

Why the bounds are enough to be interesting. Two requests and two agents give
every pairwise interleaving of check and act, and the mutex and the remote
arbitrate between pairs. Four commits, two of them there at the start, let a
request be relaxed over a service commit, lose a race and rebase. `PushAttempts`
is 3 as in the code for tasks; the evidence service, whose write is the same, has 2.
Three grants over two keys and five ticks include a key granted again after expiry,
after release, and after a restart that crosses a second. Four processes give the
lock a dead owner, two recoverers and a newcomer; with two acquisitions a process
meets its own earlier files. Three entries over four days with a window of one day
give two compactions, the second of which folds onto an existing checkpoint. Three
scans give two backups left by deaths and a recovery that chooses between them. Two
conclusions of one slot let one ingestion replace another's record. Two commands
for each agent let a late request of the first arrive during the second. Two
candidates make one worker wait for the other and one query fail beside one that is
answered. Three scans with two edits cover a change between identity and hashes and
the incremental scan that follows it. The inputs of `algorithms` have up to three
elements: enough for a pair that is related and one that is not.

`task_service` starts from a fresh or a claimed task (`FreshOrClaimed`),
`task_local` from streams at which the first task waits (`T1WaitsLong`). The seeds
are streams that the service itself writes. In `advisory_lock` a behaviour chooses at
its start where processes may die (`CrashSets`): anywhere but while a complete guard
is on disk, or while claiming and using the guard before the own lock file exists.

Symmetry is declared for sets of model values that no definition tells apart, and
only in runs without a liveness property. In `stores` it covers ids, repositories,
session ids and owners.

Deadlock is not checked where the model really stops: when all processes have
acquired the lock as often as the bound allows, after the last scan, command or
commit, and when an input has been judged.

### Fairness

`task_live` assumes strong fairness of each request's next step outside a write. The
Go runtime schedules every runnable goroutine, and `sync.Mutex` hands the lock to a
waiter that has starved for a millisecond; a request that is again and again able to
take the mutex therefore gets it. A read runs under the context of the request, so a
remote that keeps silent is ended by the client's timeout, and the request fails.

Of a write the code justifies less. It runs under `context.WithoutCancel`
(`authority.go:114`, `:186`, `:270`) and its git commands have no timeout
(`command_other.go:10`, `git.go:411`), so a remote that keeps the connection open and
says nothing keeps the write, and with it the mutex, for ever. That the remote does not
is therefore no part of the specification's fairness but the hypothesis of the property:
`RequestsEnd == RemoteAnswers => AllEnd`. The remote may answer with an error each time
and agents may push for ever in between; the three attempts bound the retries. Nothing is
assumed of agents or leases.

`clients` assumes that the process runs and that its timers fire: the step of a
client, the timeout of `fetch`, and the deadline of a poll. Nothing is assumed of the
network or of the service.

`symbol_queries` assumes that the event loop runs the client and delivers timers and
the exit of a child. Nothing is assumed of the language server: it may answer
wrongly, or never, and may not end when it is asked to.

`algorithms` assumes the timers of the plugin and of the test runner, and of a
collection of facts that it fails now and then and not for ever: a dashboard over
facts that can never be collected has nothing to converge to.

`history_recovers` assumes that commands are run again and again (a developer
keeps committing) and that a command that runs goes on when it is not killed.
Nothing is assumed of the calendar.

### Runs that show a disagreement

Each of these checks one property that the repository states of itself, and TLC
finds a behaviour of the code that violates it. The statement and the lines are
quoted under `findings` in `PROJECT.json`.

| Run | Property | Behaviour |
|---|---|---|
| `history_recovers` | `Recovers` | a death right after the marker of a second compaction leaves a ledger no command can read or repair |
| `retried_completion` | `WritesIdempotent` | a completion whose answer is lost took effect; its retry is refused, and the command reports a refusal |

### Limits of the passing results

Each passing run rests on something that the code does not guarantee, or leaves out
something that one would wish for. The modules state these stronger properties too,
and TLC finds each of them violated when it takes the place of the properties of the
configuration named here (as an INVARIANT or, for those marked P, as a PROPERTY).

| Configuration | Property | What happens |
|---|---|---|
| `MCHistoryRecovers.cfg` | `ReaderExact` | a reader without the lock reads the checkpoint before and the directory after a compaction's cleanup (`HistoryLedger.ts:94`) |
| `MCTaskLive.cfg` | `AllEnd` (P) | the remote keeps silent: one write keeps the mutex and every request waits (`authority.go:114`, `git.go:411`) |
| `MCStores.cfg` | `LookupExact` | two repositories have a session under one id, and a heartbeat or close finds the other one (`session.go:164`) |
| `MCStores.cfg` | `FullScanUnblocks` | a backup that was left behind blocks incremental scans, and a complete scan does not remove it (`BaselineStoreAccess.ts:79`) |
| `MCStores.cfg` | `InPlaceResumes` | an incremental scan that died between two shards leaves an incomplete generation (`scanIncremental.ts:109`), which readers and the next incremental scan refuse (`scan.ts:125`) until a complete scan |
| `MCStores.cfg` | `ServedIsCurrent` (P) | two requests rewrite the projection in the other order, or the service starts without one and creates it empty: calibrations are read from it until the next write (`service.go:108`, `ndjson/store.go:20`) |
| `MCStores.cfg` | `StaysReadable` | a record that is longer than the reader's buffer once it is encoded is committed, and the file cannot be read again (`authority.go:359`) |
| `MCGovernanceCommands.cfg` | `GateReadyAnyLayout` | with a Maven layout the gate's scope differs from the scan's, and it refuses every baseline (`gateConfig.ts:144`) |
| `MCGovernanceCommands.cfg` | `FreshAlwaysExact` | an edit between parsing and hashing stores new hashes beside old metrics (`scanEntries.ts:72`), and the baseline is fresh |
| `MCRetriedCompletion.cfg` | `ClaimHonestOverEdits` (P) | the proposal is edited between an attempt of a claim that took effect and its retry, which the service refuses before it finds the claim (`task.go:171`) |
| `MCSymbolQueries.cfg` | `EveryCandidateAnswered` | a file shrinks between the search for candidates and its opening; a candidate whose offset has no position is skipped without a mark (`LspSymbolUse.ts:362`) |
| `MCSymbolQueries.cfg` | `ProbeTimeoutIsPartial` | the probe of the index gives up, or takes an error for readiness, and the report is complete nevertheless (`LspSymbolUse.ts:408`) |
| `MCAlgorithms.cfg` | `ForceCollects` (P) | a forced refresh joins a collection that began earlier (`openarch-tools.mjs:68`) |
| `MCAlgorithms.cfg` | `NeverBackwards` (P) | an older answer arrives last and the dashboard returns to it (`openarch-dashboard.mjs:105`) |

Other limits also need other constants:

* `MCLeaseStore.cfg` with `RestartTicks = 1`, `MaxClock = 6`, `MaxGrants = 2`, and the
  invariant `CredentialsUnique`: a restart within the second of the last start keeps
  the epoch (`main.go:105`), and the same credential is issued again.
* `MCTaskService.cfg` with `Agents = {a}`, `MaxHeads = 3`, `SeedHeads <- OneCommit`
  and `SeedLogs <- AnyStage`. The invariant `VerifiedBinding`: a push between refresh
  and read (`application/task.go:49`) lets an event bind a proposal to a commit
  without it. The property `LeaseHeldAtCompletion`: the lease lapses between its check
  (`application/task.go:250`) and the commit of the completion.
* `MCAdvisoryLock.cfg` with `Processes = {p, q}`, `Signalable = {q}`, `CrashSets <-
  NoDeath`, `MaxAcquires = 1` and no symmetry: a live holder that may not be
  signalled is taken for dead once its heartbeat is late (`LockFileStore.ts:31`), and
  `MutualExclusion` fails. It also fails with `CrashSets <- AnyDeath`: a process dies
  with guard and lock on disk, and two recoverers unlink by path what they checked by
  content.
* `MCTaskLocal.cfg` with `OneTask` for `Files`, `Docs` and `Editable`, one writer,
  `DependsOn <- NoDeps`, `SeedLogs <- Empty` and the property `RefreshStrict`: local
  mode accepts a head that agent-owned changes followed (`git.go:232`).
* `MCTaskLocal.cfg` with `Editable <- OneTask`, `Local = FALSE` and `SeedLogs <-
  T1Waits`: an agent edits the proposal between the comparison of its hash and the
  reading of its dependencies (`application/task.go:459`) and edits it back, and
  `TasksImplemented` fails.

So `lease_store` holds for restarts of at least a second, `task_live` for a remote that
answers, `task_local` for a task whose own proposal nobody edits,
`advisory_lock` for processes of one user that do not die with both files on disk,
and `governance` for baselines no edit tore apart.

## 4. Proofs

The theorems hold for every value of the constants that the named assumptions of
the modules admit: any number of keys, agents, requests, processes, files, retries
and crashes, where a run has two or three. The assumptions say that numbers are
numbers and bounds are not zero, that sets that are counted are finite, and that a
value that stands for "nothing" is none of the things it stands beside. TLC evaluates
them on each run. What the code does not guarantee is not assumed but a hypothesis of
the theorem, and listed with it.

| Module | Theorem | States | Hypothesis |
|---|---|---|---|
| `LeaseStoreProofs` | `TypeCorrect` | `TypeOK` | |
| | `LeaseSafety`, `FencesIncrease`, `HoldersStored` | `HolderExclusive`, `FenceOrder`, `HeldIsStored` | `SlowRestart` |
| | `ExpiryFinal` | `NoResurrection` | `SlowRestart` |
| | `Refinement` | `ImplementsAbs` | `SlowRestart` |
| `LocalProofs` | `TypeCorrect` | `TypeOK` of the lock | |
| | `LockExclusion`, `FilesAccounted` | `MutualExclusion`, `FilesOwned` | `SafeDeaths`, `AllSignalable` |
| | `CommitsGuarded`, `EditorIsSound` | `CommitGuarded`, `EditorSound` | |
| | `OutcomeFinal`, `RunsAnsweredOnce` | `SettledFinal`, `AnsweredOnce` | |
| | `OverridesAreExact`, `ChecksAreHonest`, `QualitySpeaksForAll` | `OverridesExact`, `CheckHonest`, `QualitySpeaks` | exit codes of 0..3, actions `warn` and `block` |
| | `SkillsSurvive`, `ReportsOnce` | `SkillKept`, `ReadinessFunctional` | |
| | `ShapesAreMeaning` | `ShapesIdentity` | names are lists |
| | `InitSpares` | four conjuncts of `InitRespects`, for any request | `DiskMade`, `AskedFor`, `OneToOne` |
| | `InitsDeliver` | `InitDelivers` | `DiskMade`, `AskedFor`, `Settles` |
| | `InitsRespect` | `InitRespects` | the same and `OneToOne` |
| `TaskServiceProofs` | `TypeCorrect`, `StreamsLegal`, `AcksDurable`, `VerifiedOnBranch`, `EventsStayBound` | `TypeOK`, `ChainsLegal`, `AckedIsDurable`, `VerifiedSeen`, `EventsBound` | |
| | `StreamsAppendOnly` | `LogAppendOnly` | |
| | `ClaimsWait` | `DependenciesCompleted` | `FixedProposals`, `SeedsMet` |
| | `TasksRefined` | `TasksImplemented` with no task required by another | |
| | `TasksRefinedInOrder` | `TasksImplemented` | `FixedProposals`, `SeedsMet` |
| `CoordinationClientProofs` | `BeliefsTrue`, `ReportsCorrect` | `ClientSafe`, `ReportsTrue` | |
| | `ClaimsIdempotent` | `ClaimHonest` | |
| `SymbolQueriesProofs` | `EndsClean`, `CompleteIsTrue` | `CleanEnd`, `CompleteMeansAnswered` | |
| | `SettlesOnce` | `SettledOnce` | |
| | `ReportsLoseNothing`, `IntroducedFilesAreNew`, `PairsMissNothing` | `NoChangeLost`, `IntroducedIsNew`, `PairsComplete` of change sets | the population is among the files; where sets are counted, they are finite |
| | `ProfilesEarned`, `NumbersBacked`, `SamplesOnlyWithhold`, `SampleOrderIsFree` | `EligibleEarned`, `EvidenceBacked`, `MoreSamplesSafe`, `OrderFree` of symbol evidence | `PairsMade`, `StoreKept` |
| | `AdmissionIsKnown`, `LanguagesAnswered`, `NobodyOverlooked` | `AdmittedIsKnown`, `EveryLanguageAnswered`, `NothingFilteredAway` | references not available; ids of providers are not `None`; finitely many files |
| | `AnswersHonest`, `OthersDoNotMatter`, `NoRuleLeftOut`, `CheckIsForesight` | `RunHonest`, `ScriptsIndependent`, `ReportComplete`, `CheckForesees` of scripts | `FactsMade`; rules require known domains; scopes are scopes |
| | `IndexKeepsUp`, `ChecksHonest`, `CandidatesEven` | `IndexFollows`, `DocsHonest`, `CandidatesFair` of documents | `None` is no content; a least count between 0 and the number of seeds |
| `EvidenceServiceProofs` | `EvidenceSafe` | `EvidenceExact` | |
| `StoresProofs` | `LedgerTyped`, `CountsOnce`, `LedgersExact` | `TypeOK`, `ReplayExact`, `LedgerExact` | |
| | `DeletionsCovered` | `RawCovered` | |
| | `SessionsSafe`, `SessionsExpire` | `SessionsExact`, `NoResurrection` | |
| | `GenerationsSafe`, `NoOlderGeneration` | `GenerationsExact`, `NeverOlder` | |
| `GovernanceProofs` | `FreshIsExact`, `ScanSuffices`, `VerdictsSound` | `FreshMeansExact`, `GateReadyAfterScan`, `VerdictSound` | `NoneHasNoFields` |
| | `VerdictsStable` | `VerdictStable` | `NoneHasNoFields` |
| | `NoSilentZeros`, `ConsumersAgree`, `DemandsCover`, `NewIsNew` | `NoSilentZero`, `ConsumersOverlap`, `DemandCovers`, `NewMeansNew` of change impact | a file has one profile |
| | `AvailableCoversAll`, `SpansAreAll`, `CoveragesAgree`, `PassIsForAll` | `AvailableMeansAll`, `SpansHonest`, `CoverageAgrees`, `PassSpeaksForAll` of a test report | `RunOK` |
| | `EvidenceOnlyLowers` | `EvidenceLowers` | |
| | `DiffReverses`, `CosmeticIsCosmetic` | `Reversible`, `NeverSilent` of the change classifier | `NoAnswerApart`, `DeclarationsOver` |
| | `RemovalsAreReported` | `RemovalIsPublic` | `DeclarationsOver` |

`PROJECT.json` lists the theorems that say most; the table has
them all but for the ones that only state an inductive invariant.

`task_live`'s constants and those of the other runs of one specification satisfy the
same assumptions, so a theorem about `TaskService` is one about `task_service`,
`task_live` and `task_local`.

### The hypotheses

* `SlowRestart` (`RestartTicks >= TicksPerSecond`): a restart takes a second, so that
  the epoch it reads is greater. `main.go` does not wait; section 3 has the
  constants under which `CredentialsUnique` fails without.
* `SafeDeaths`: in one behaviour processes die only outside the guard, or only before
  a lock file is theirs. `AllSignalable`: processes may signal each other. Section 3
  has what happens otherwise.
* `FixedProposals`: nobody edits a proposal that has dependencies (`Editable` tasks
  have none in any version). `SeedsMet`: the streams the service starts from
  are its own, so a claimed task's dependencies are completed. Without the first the two
  reads of the proposal may differ (`task.go:459`).
* `NoneHasNoFields` (`DOMAIN None = {}`): the value that stands for an absent index,
  profile or calibration is not a record. It is about the notation and not about the
  code; TLC's model value is no function and has no domain to evaluate.

The theorems about algorithms are about every input that the code can give them. Their
hypotheses say which these are, and none of them restricts what the environment does.

* `DiskMade`, `AskedFor`: a record has the fields of a disk or of a request, and the
  few that are Boolean or one of three words are. `OneToOne`: the docs repository that
  is found has one root for each scope id, as `registerSharedDocumentScope` keeps it.
* `Settles`: when the request sets the persistence, writing it twice into this
  configuration and into this ignore file is writing it once. What the text rewriting
  does to every text needs induction over lines; `PersistenceSafe` and `ExcludeSettles`
  are checked by TLC on every text of up to four lines and every ignore file of up to
  five pieces. A request without a persistence needs no such hypothesis. Of those ignore files
  only the empty one is excluded: a second run puts an end of line before the block, and
  only then does the file rest, which is why `ExcludeSettles` claims no more than that.
* `RunOK`: a test run's providers are adapters, each of its files has an outcome, its
  findings are in its files and a policy says `block`, `warn` or `review`. `PairsMade`: a
  version pair that was matched has its facts in both revisions, an added or removed one in
  one of them only. `StoreKept`: the store is finite, and a profile that counts has the
  scope of its samples. `FactsMade`: project facts have their three fields. These are what
  the callers construct.
* `DeclarationsOver`: declarations as the parsers report them, and no signature is the
  text `*` that marks a declaration without a counterpart. `NoAnswerApart`: the answer
  that nothing can be compared is no set of changes.

### The arguments

None of the properties is inductive as it stands. Each module defines the invariant
that is (`IInv`, in `StoresProofs` `LedgerInv`, `SessionInv` and `BaselineInv`) as a
conjunction of named parts. TLC checked each of them on a small instance before it was
proved. There is one lemma for each action, or one for what several actions have in
common, and one step in it for each part that the action can disturb.

*Leases.* `Counters` (ids and fences advance together), `StoredIsGranted` (an entry of
the store is a lease that was handed out) and `GrantShape` (a grant's id is its epoch
and fence, none from a later epoch or above the counter). A new grant is above all
others by `GrantShape`; so ids are unique, and the entry that a credential finds is the
one it was issued for (`CredentialOpensOwnLease`). A client that still holds a key is
in the store, so Acquire, which found the key free or expired, has not taken it from a
holder. For `Refinement`, the id of a grant is fresh (`GrantStep`), and every other
operation is a lapse of the keys that are free afterwards (`OtherStep`).

*Lock.* Where a process has the lock or the guard is read off its program point
(`HasLock`, `HasGuard`). `LockOwned` and `LockInside` say that the file on disk and the
process that has it name each other, unless that process is dead; `GuardKept` and
`GuardExcludes` say it of the guard. The takeover checks a file and unlinks the path
later; `TakeoverOfDead` says that what it unlinks is a dead process's lock even then,
because it happens under a guard that excludes others, or not at all. That is where
the two kinds of death in `SafeDeaths` are needed.

*Hook, plugin and test process.* The hook checks what it hashed under the names it
listed, and asks for nothing else between the two; so an index that moves meanwhile
changes what is hashed and not what passes (`HashedIsListed`). Of the plugin's cache,
`BoardTypeOK` is not inductive: that who is answered does not wait needs that what is
served was collected (`Collected`), which the end of a collection guarantees. The tail
of an output is a statement about three numbers (`JobInv`). An aborted test process may
go on running after its run was answered; `RunInv` says that only an aborted one does.

*Task service.* Between two calls of the store a request knows something (`ReqOK`):
the events it read are a prefix of the stream, the lease it checked was granted to its
agent, the proposal it read was on the branch. All of this survives whatever others
do, because branch, streams and leases granted only grow (`Grows`). `DraftOK` says
that the commit that is not on the branch yet adds one legal event to the stream
that is there, and `Turns` that only the request that holds the mutex has such a
commit under way. A push that took effect without an answer leaves no draft, so the
next push of the same request adds nothing. `ClaimsWait` adds to `IInv` what a request
knows of its dependencies, whose completion is final.

*Tasks refined.* The status of a task moves only when the branch does. `DraftInv` says
that a commit that is not on the branch is at most one event ahead of it, and
`OneMoreMoves` that one more event, when the stream stays legal, is exactly one transition of
`TaskAbs`. So a push, which may publish after others have pushed, makes one step of it, a
rebase that fails and every call before the push make none. The condition on
requirements needs `ClaimsWait`: a claim that is about to be published has its
dependencies completed, and completion is final.

*Client.* `Pending` says of every request that has not been executed, whether its
sender waits or has given up, that it is harmless: a late completion covers what was
completed locally, and a late release gives back no lease that its agent was told of
since. `FirstAcquire` and `FirstClaim` say what a command knows that began when nothing
of its agent was under way. With these the answers are true (`Told`). `ClaimsIdempotent`
follows because a claim that was executed is found again by its agent and dependencies
stay completed; what can still refuse its retry is the comparison of the documents.

*Queries.* `SessionInv` is what the session keeps whatever its client does: a closed
tracker has nothing pending, a tree past its grace period is gone. `FlowInv` says
which requests have been sent and settled at each point of the client, and that a
waiter stands for every diagnostic that has not arrived. A job that ends without a reason
against completeness has no candidate left to start, so each that has a position has been
answered.

*Ledger.* `Points`, `Markers` and `Counts`: at each point of a compaction, the
checkpoint that a reader is to take and the raw files that it is to see share
nothing and make up all that was sealed, and a marker names only files that its
checkpoint has folded in. Only `Effective` looks at the marker, so the argument does not
depend on which file operation a process died after.

*Sessions.* As for leases, with epoch and fence in place of ids (`Unique`): an
operation under one credential leaves the entries of others, in whatever order the map
yields them and however many repositories have a session under the id. What the lookup can
return beside an owner's session is therefore an open one of another repository.

*Baseline.* `Generations` says that the generation a reader finds is of a scan that has
begun, and that after a scan which reported success it is complete and has the shards the
scan saw; `ScanPoints`, what is on disk at each point of a scan; `Alone`, that a generation an incremental scan left
torn has no backup beside it, so that recovery never takes an older one.

*Evidence.* A request knows between two calls that its record is on the branch, or that
the commit that waits replaces the evidence by what its record makes of it
(`CallOK`, `DraftOK`). Nobody else writes the file, so that commit stays right
however often it is retried; and the branch never loses a slot (`Grows`). The one lemma
about data, `Upserted`, says that `UpsertEvidence` keeps one record for each slot and
loses none. `EvidenceSafe` is about any records and documents, in remote and local mode;
`LedgersExact` carries it over to the instance in `MCStores` (`SameEvidence`).

*Scan and gate.* `QuietScan` says that a scan during which nothing was edited works on
the project as it is, and what it has parsed and is to reuse; `RebuiltExact`, that an
index that only such scans made agrees with the snapshot and the configuration it
records (`EntriesExact`) and has each calibration that the gate will ask for under
it (`MetaExact`). The step from one to the other is `IncrementalNow`: an incremental
scan of an exact index parses every file that differs, what it reuses is as it was, and
together they are the files in scope. Edits only make the index differ from the tree,
which `Freshness` sees, or from the configuration, which the scope sees. `GateKept` is
why a scan that does not seal leaves the denominators alone. Two lemmas about data have
their own induction, by a smallest counterexample: `ReachNumber` (the search for
consumers is defined at each depth) and `P95Number` (a population has its order
statistics, so the P95 of any calibration is a number and not missing).

*Algorithms.* None of these has an induction in it. Where the model folds over a
sequence, the law is about what the fold is given and asked for and not about how it gets
there. The classifier pairs the declarations of two sides by key and occurrence, and
the pairs are the same from either side (`DiffReverses`); a declaration that is gone is
either below one that is reported or reported itself (`RemovalsAreReported`). In a test
report a file that was read without a failure was read well (`ReadWell`), and a run with
failures neither is available nor passes (`AvailableCoversAll`, `PassIsForAll`). More
calibration samples can only add a reason to withhold (`SamplesOnlyWithhold`). A file
that nobody is asked about has in-degree zero, and a baseline whose in-degrees count its own
imports then has no consumer of it (`NobodyOverlooked`).

*Init.* The seven steps are brought into one form, the documents step followed by all
the others (`InitRests`), with the fields of the disk that each writes. Everything others
wrote survives each step (`Spared`), so it survives any number of them and a stop
between any two (`InitSpares`). For the repetition, configuration, ignore file and hook
are finished on what the first init left (`ConfiguredAgain`), and the documents step finds
there what it wrote, but for a link that the last step repairs and an unlink removes again
(`DocumentsAgain`). A failed init is repeated from one of four places, and from each of
them the repetition arrives where a single init would have (`InitsRespect`).

### What stays with TLC

* Liveness (`RequestsEnd`, `CommandsEnd`, `WorkflowEnds`, `EditorRuns`, `Recovers`):
  it rests on fairness and ENABLED, which the prover does not handle.
* Of the laws of `algorithms`, those about what recursive functions and folds compute for
  every input, compared with definitions by paths, subsets and permutations: they need
  induction over data. In `ChangeLaws` these are `GroupsAreComponents`, `SupportClosed`,
  `HistoryLaws` and `CallLaws`; in `TestLaws` `MissingHonest`, `WrappersLead`,
  `ReportedOnce`, `HelpersApart`, `CacheTransparent` and `ScoreBetween`; in `ProjectLaws`
  `PersistenceSafe`, `ExcludeSettles`, `OnlyComments`, `CommentsGone`, `FencesClosed`,
  `FilledMeansText`, `DecisionsLast`, `DiscoverSettles`, `PatchRead` and `LogConnected`.
  Their other conjuncts are proved, one theorem each, so the three invariants as wholes
  are checked and not theorems.
* What is computed rather than kept: that the P95 is the 95th percentile and Reach the
  size of the closure is the definition in the model, and no theorem.

## 5. Plan

Modelled and checked: leases, sessions, docs-repo with tasks and evidence, client, lock,
ledger, baseline, scan and gate, language-server queries, diff and its evidence, hook,
tests, scripts, documents, setup, plugin. Proved: every safety property of a passing run
that a machine has, both refinements (leases and tasks), and of the laws of the algorithms
those that need no induction over data.

Left: the laws that do (section 4), liveness, and what section 7 lists. A change of the code
begins with the definition that `map` gives for its lines; the run of that module says
whether a property breaks, and the proof which step of the argument does.

## 6. Further places that are hard to test

`PROJECT.json` lists forty hazards. These are lesser ones that the models meet as
well (first list), or that none of them reaches (second list).

In the models, behind a property of `PROJECT.json`:

* `lease.go:96` a release or renewal under the credential of an earlier grant;
  `session.go:86` a heartbeat at the instant of expiry; `git.go:299` the third push;
  `git.go:317` a rebase that fails half way; `service.go:34` a refresh that fails after
  the evidence was pushed (`HolderExclusive`, `NoResurrection`, `AckedIsDurable`,
  `LogAppendOnly`, `LedgerExact`).
* `LockFileStore.ts:92` a reader between truncation and rewriting, `:73` the third
  attempt under a chain of zombies, `AdvisoryLock.ts:46` a lock whose handle was lost
  to an error of the guard (`FilesOwned`); `BaselineGeneration.ts:124` a backup that is
  removed half way (`GenerationsExact`).
* `CoordinationClient.ts:489` a deadline in the middle of a poll (`CommandsEnd`).
* `scan.ts:145` an unchanged tree drops `--seal-calibration`; `scanMeta.ts:107` a policy
  that is empty once loses its seal; `scanIncremental.ts:73` consumers that were deleted
  themselves (`FreshMeansExact`, `VerdictStable`; that a seal is never lost is not
  claimed, and fails).
* `changeSurface.ts:171`, `symbolScopeAdmission.ts:30` symbols found by name;
  `semanticDiff.ts:187` an emptied text read as a missing one; `cohesion.ts:77`
  overloads; `definitionSurfaceCandidates.ts:26`, `testBloatMetrics.ts:507` the 95th
  percentile of at most twenty values (`ChangeLaws`, `TestLaws`, `ProjectLaws`).
* `cli/src/commands/diff.ts:281` a version pair of HEAD and its parent whatever is
  diffed, `:285` every `.json` file taken for a sample; `JsonSymbolCalibrationStore.ts:45`,
  `DocumentDispositions.ts:46` one invalid record hides all; `symbolScopeShadowEvidence.ts:70`
  a second eligible profile disqualifies both; `DocumentIndexUpdate.ts:29` a corrupt
  index; `implicit-deps/merge.ts:56` a confirmation does not survive the next run of its
  rule; `discover.ts:246` one rule of several fails; `SymlinkManager.ts:19` a dangling
  link; `HookLauncher.ts:43` two parsers of one setting (`ProjectLaws`).
* `gitChangePaths.ts:63` deleted files among the staged ones, `configAudit.ts:57` an
  event recorded twice after a crash, `exit-code.ts:39` exit code 0 without the lock
  (`CommitGuarded`); `testGovernanceCollection.ts:79` one provider ends the collection
  (`TestLaws`); `openarch-state.mjs:252` facts served from a cache (`EditorRuns`).

Reached by no property:

* `LockFileStore.ts:54` a process that dies between open and write leaves an empty file
  that nobody may take over. The lock fails closed by design.
* `BaselineGeneration.ts:87` a scan that dies while staging leaves its directory, which
  nothing reads.
* `GoSemanticRelationProvider.ts:70` a syntax query that fails counts as no matches:
  the front end's answer is an input of the model.
* `semanticRelationPipeline.ts:130` the language server reads files again that the
  pipeline has read: the models take one snapshot.
* `jdtlsDaemon.ts:119` two commands on one daemon, with ids that restart: `LspSession`
  is one session over one child.
* `cli/src/commands/docs.ts:39` a staged path resolved against the wrong root:
  `Documents` takes the document as given.

## 7. Not modelled

* Scope registry and debt register: views of documents that agents own, parsed and
  validated at HEAD. They keep no state and write nothing.
* Event publisher: subscribers' buffers that drop what does not fit. It is a lossy
  channel by contract, nothing in the repository reads it, and a property could only
  repeat the buffer's length.
* Event signatures: cryptography. The models take a verified event as given.
* Syntax: the front ends, the six providers' queries, the hash of a text. Their
  answers, and their failures, are inputs.
* Rendering and wording: reports, translations (`i18n.ts`), the dashboard's markup,
  argument parsing. They are a large part of the lines no definition stands for.
* Scores in floating point: products of logarithms and weights. What enters them and
  the thresholds they meet are modelled.
* The decay of folded evidence in a checkpoint: real arithmetic over time.
* Downloads of toolchains and probing of executables: I/O with no state of its own;
  which provider counts as ready is in `ProjectSetup`.

## 8. Running it

```
tlc -workers 2 -config MCLeaseStore.cfg MCLeaseStore
tlapm LeaseStoreProofs.tla
```

`PROJECT.json` lists under `runs` the module and configuration of every run,
under `map` the source lines each definition stands for, and under `mutants` one
plausible bug for each property, with which TLC finds the property violated.
