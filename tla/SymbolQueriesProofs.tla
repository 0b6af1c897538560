-------------------------- MODULE SymbolQueriesProofs --------------------------
(***************************************************************************)
(* Theorems about SymbolQueries and LspSession for any set of workflows,   *)
(* files and candidates.  The invariant is in two halves: what the session *)
(* keeps whatever its client does (SessionInv), and what the client knows  *)
(* of the requests where it stands (FlowInv).                              *)
(*                                                                         *)
(* The last parts are about the algorithms that use what is found, for     *)
(* every input the code can give them: change sets and version pairs       *)
(* (ChangeSets), symbol evidence (SymbolEvidence), project scripts         *)
(* (Scripts) and the document library (Documents).                         *)
(***************************************************************************)
EXTENDS SymbolQueries, FiniteSetTheorems, TLAPS

CONSTANTS
    None,              \* no provider, no authority, no pair
    Paths,             \* of the files of the two trees of a change set
    Population, Other, \* the files asked for, and those of them that are not production code
    Texts, Absent, Empty, Large, Broken, Unclear,  \* texts, and what is none that can be analyzed
    SymbolsIn(_)       \* the declarations of a text

\* The session: a closed tracker has nothing pending, a closed session has been
\* terminated, and past its grace period a process tree is gone.
SessionInv ==
    /\ SessionTypeOK
    /\ tracker = "closed" => \A k \in Keys : req[k] # "pending"
    /\ closed => ~registered /\ tracker = "closed" /\ kill["close"] # "none"
    /\ ~transport.tcp /\ transport.tree =>
         \A by \in Killers : kill[by] \in {"kill", "ended"} => alive = {}

FlowTypeOK ==
    /\ job \in Jobs
    /\ pc \in {"start", "initialize", "warm", "diagnostics", "sleep", "poll", "query",
               "close", "closing", "done"}
    /\ cur \in 0..(Cardinality(Files) + MaxPolls)
    /\ opened \subseteq Files
    /\ probe \in {"none", "ready", "late", "failed", "timeout"}
    /\ answer \in [Candidates -> {"none", "targets", "empty"}]
    /\ report \in {"none", "unavailable", "partial", "complete", "defect"}

\* What is still to be sent has not been sent.
Fresh ==
    /\ pc = "start" => req[InitKey] = "unsent"
    /\ pc \in {"start", "initialize"} => cur = 0
    /\ pc \in {"start", "initialize", "warm"} =>
         /\ \A f \in Files : f > cur => req[DocKey(f)] = "unsent"
         /\ \A n \in 1..MaxPolls : req[PollKey(n)] = "unsent"
    /\ pc \in {"diagnostics", "poll", "sleep"} =>
         \A n \in 1..MaxPolls : n > cur => req[PollKey(n)] = "unsent"

\* The documents: which are open, and those that were warmed up.
Asking == {"warm", "diagnostics", "sleep", "poll", "query"}
Opened ==
    pc \in Asking =>
        opened = Files \ job.unreadable /\ (job.kind = "relations" => job.unreadable = {})
Warmed ==
    job.warm =>
        /\ pc = "warm" => \A f \in opened : /\ f < cur => Settled(DocKey(f))
                                            /\ f = cur => req[DocKey(f)] # "unsent"
        /\ pc \in Asking \ {"warm"} => \A f \in opened : Settled(DocKey(f))

\* The diagnostics: only the client that waits for them has a waiter, which
\* stands for all that have not arrived.
Awaited == IF job.kind = "symbols" THEN opened ELSE Files
Diagnosed ==
    /\ waiter # {} => pc = "diagnostics" /\ ready # "yes"
    /\ WaitsForDiagnostics /\ pc \in Asking \ {"warm"} =>
         /\ waiter # {} => Awaited \ received \subseteq waiter
         /\ ready = "yes" => Awaited \subseteq received

\* The end: the report is made before the session is closed.
Reported ==
    /\ report = "complete" => pc \in {"close", "closing", "done"}
    /\ pc \in {"closing", "done"} => closed
    /\ CompleteMeansAnswered

FlowInv == FlowTypeOK /\ Fresh /\ Opened /\ Warmed /\ Diagnosed /\ Reported
IInv == SessionInv /\ FlowInv

-----------------------------------------------------------------------------
(* Numbers and keys.                                                        *)

\* A set of numbers has a smallest one: of the sets of what lies below each of
\* its numbers, which are finite, none is below the smallest.
LEMMA SmallestOf ==
    ASSUME NEW X, X \subseteq Nat, X # {}
    PROVE  \E x \in X : \A y \in X : x <= y
  <1> DEFINE Below(n) == {m \in X : m <= n}
             T == {Below(n) : n \in X}
  <1>1. T \subseteq FiniteSubsetsOf(Nat)
    <2> SUFFICES ASSUME NEW n \in X PROVE Below(n) \in FiniteSubsetsOf(Nat)
      OBVIOUS
    <2>1. Below(n) \in SUBSET Nat /\ n \in Nat /\ \A m \in Below(n) : m <= n
      OBVIOUS
    <2>2. IsFiniteSet(Below(n))
      BY <2>1, FS_BoundedSetOfNaturals
    <2> QED
      BY <2>1, <2>2 DEF FiniteSubsetsOf
  <1>2. T # {}
    OBVIOUS
  <1>3. \E U \in T : \A V \in T : ~(<<V, U>> \in StrictSubsetOrdering(Nat))
    BY <1>1, <1>2, FS_StrictSubsetOrderingWellFounded, WFMin
  <1>4. PICK x \in X : \A V \in T : ~(<<V, Below(x)>> \in StrictSubsetOrdering(Nat))
    BY <1>3
  <1>5. ASSUME NEW y \in X, ~(x <= y) PROVE FALSE
    <2>1. y < x /\ x \in Nat /\ y \in Nat
      BY <1>5
    <2>2. Below(y) \subseteq Below(x)
      <3> SUFFICES ASSUME NEW m \in X, m <= y PROVE m <= x
        OBVIOUS
      <3>1. m \in Nat
        OBVIOUS
      <3> QED
        BY <2>1, <3>1
    <2>3. x \in Below(x) /\ x \notin Below(y)
      BY <2>1
    <2>4. Below(x) \in SUBSET Nat /\ Below(y) \in SUBSET Nat
      OBVIOUS
    <2>5. Below(y) \in T
      OBVIOUS
    <2> HIDE DEF Below, T
    <2>6. <<Below(y), Below(x)>> \in StrictSubsetOrdering(Nat)
      BY <2>2, <2>3, <2>4 DEF StrictSubsetOrdering
    <2> QED
      BY <1>4, <2>5, <2>6
  <1> QED
    BY <1>5

\* So the number that is taken next is one of those that are left.
LEMMA ChoosesSmallest ==
    ASSUME NEW X, X \subseteq Nat, X # {}, NEW x,
           x = CHOOSE y \in X : \A z \in X : y <= z
    PROVE  x \in X /\ \A z \in X : x <= z
  BY SmallestOf

\* The numbers of the instance.
LEMMA Numbers ==
    /\ Files \subseteq Nat /\ Cardinality(Files) \in Nat /\ MaxPolls \in Nat
    /\ \A f \in Files : f > 0 /\ f <= Cardinality(Files)
    /\ \A c \in Candidates : FileOf[c] \in Files
  <1>1. Cardinality(Files) \in Nat /\ MaxPolls \in Nat
    BY NumbersAssumption, FS_CardinalityType
  <1>2. Files = 1..Cardinality(Files)
    BY NumbersAssumption
  <1> QED
    BY <1>1, <1>2, NumbersAssumption

\* Requests of different kinds, and of different numbers, are different.
LEMMA KeysDiffer ==
    /\ InitKey \in Keys
    /\ \A f \in Files : DocKey(f) \in Keys
    /\ \A n \in 1..MaxPolls : PollKey(n) \in Keys
    /\ \A c \in Candidates : QueryKey(c) \in Keys
    /\ \A m, n : /\ DocKey(m) = DocKey(n) => m = n
                 /\ PollKey(m) = PollKey(n) => m = n
                 /\ QueryKey(m) = QueryKey(n) => m = n
                 /\ InitKey # DocKey(n) /\ InitKey # PollKey(n) /\ InitKey # QueryKey(n)
                 /\ DocKey(m) # PollKey(n) /\ DocKey(m) # QueryKey(n)
                 /\ PollKey(m) # QueryKey(n)
  BY KeysAssumption DEF InitKey, DocKey, PollKey, QueryKey

-----------------------------------------------------------------------------
(* The session.                                                             *)

\* No request that is settled changes, and none that is not sent.
Keeps == \A k \in Keys : req'[k] = req[k] \/ (req[k] = "pending" /\ Settled(k)')

\* A request that had not been sent is sent, or rejected at once.
LEMMA RequestKeeps ==
    ASSUME SessionInv, NEW k \in Keys, req[k] = "unsent", Request(k),
           UNCHANGED <<transport, diagVars, closed, registered, procVars, kill>>
    PROVE  /\ SessionInv'
           /\ \A x \in Keys : x # k => req'[x] = req[x]
           /\ req'[k] \in {"pending", "failed"}
  <1> USE DEF SessionInv, SessionTypeOK, Request, ReqStates, procVars
  <1>1. req' \in [Keys -> ReqStates] /\ atServer' \subseteq Keys
    OBVIOUS
  <1>2. /\ \A x \in Keys : x # k => req'[x] = req[x]
        /\ req'[k] = IF tracker = "open" THEN "pending" ELSE "failed"
    OBVIOUS
  <1>3. tracker' = "closed" => \A x \in Keys : req'[x] # "pending"
    BY <1>2
  <1>4. SessionTypeOK'
    BY <1>1 DEF diagVars
  <1>5. UNCHANGED <<transport, closed, registered, tracker, alive, kill>>
    OBVIOUS
  <1> HIDE DEF SessionTypeOK
  <1>6. SessionInv'
    BY <1>3, <1>4, <1>5
  <1> QED
    BY <1>2, <1>6

\* The tracker is closed: what is pending is rejected, what is settled stays.
LEMMA FailAllKeeps ==
    ASSUME SessionInv, FailAll
    PROVE  /\ req' \in [Keys -> ReqStates] /\ atServer' = {} /\ tracker' = "closed"
           /\ \A k \in Keys : req'[k] # "pending"
           /\ Keeps
  BY DEF SessionInv, SessionTypeOK, FailAll, Keeps, Settled, ReqStates

\* A process tree is killed: it is not gone before the wait for it.
LEMMA StartKillKeeps ==
    ASSUME SessionInv, NEW by \in Killers, StartKill(by)
    PROVE  /\ kill' \in [Killers -> Phases] /\ kill'[by] # "none"
           /\ \A x \in Killers : x # by => kill'[x] = kill[x]
           /\ alive' = alive /\ exitSeen' = exitSeen /\ termed' \in BOOLEAN
           /\ ~transport.tcp /\ transport.tree =>
                \A x \in Killers : kill'[x] \in {"kill", "ended"} => alive' = {}
  <1> DEFINE to == IF transport.tcp \/ ~transport.tree THEN "ended" ELSE "term"
  <1>1. kill' = [kill EXCEPT ![by] = to]
    BY DEF StartKill
  <1>2. alive' = alive /\ exitSeen' = exitSeen /\ termed' \in BOOLEAN
    BY DEF SessionInv, SessionTypeOK, StartKill, procVars
  <1>3. kill \in [Killers -> Phases] /\ to \in Phases /\ to # "none"
    BY DEF SessionInv, SessionTypeOK, Phases
  <1>4. ~transport.tcp /\ transport.tree => to = "term"
    OBVIOUS
  <1>5. ~transport.tcp /\ transport.tree =>
          \A x \in Killers : kill[x] \in {"kill", "ended"} => alive = {}
    BY DEF SessionInv
  <1> HIDE DEF to
  <1> QED
    BY <1>1, <1>2, <1>3, <1>4, <1>5


\* What an event does to a wait for diagnostics: it ends, or goes on for those
\* that have not arrived; it succeeds when the last of them arrives.
DiagStep ==
    /\ received \subseteq received' /\ received' \subseteq Files
    /\ waiter' \subseteq waiter /\ ready' \in {"unknown", "yes", "no"}
    /\ waiter' # {} => ready' = ready /\ waiter \ waiter' \subseteq received'
    /\ ready' = "yes" => ready = "yes" \/ (waiter # {} /\ waiter \subseteq received')

\* What every event does to a session.
SessionStep == SessionInv' /\ Keeps /\ DiagStep /\ (closed => closed')

LEMMA DiagCloseKeeps ==
    ASSUME SessionTypeOK, DiagClose
    PROVE  DiagStep
  BY DEF SessionTypeOK, DiagClose, DiagStep

\* A server or a launch that ends, and a stream that breaks.
LEMMA ExitKeeps ==
    ASSUME SessionInv, OnExit \/ OnError
    PROVE  SessionStep
  <1> USE DEF OnExit, OnError
  <1>1. FailAll /\ DiagClose
    OBVIOUS
  <1>2. UNCHANGED <<transport, closed, alive, termed, kill>>
    OBVIOUS
  <1>3. registered' \in BOOLEAN /\ (~registered => ~registered') /\ exitSeen' \in BOOLEAN
    <2>1. registered' = FALSE \/ registered' = registered
      OBVIOUS
    <2>3. registered \in BOOLEAN
      BY DEF SessionInv, SessionTypeOK
    <2>2. (exitSeen \/ ~transport.spawned) \in BOOLEAN
      OBVIOUS
    <2>4. registered' \in BOOLEAN /\ (~registered => ~registered')
      <3>1. CASE registered' = FALSE
        BY <3>1
      <3>2. CASE registered' = registered
        BY <2>3, <3>2
      <3> QED
        BY <2>1, <3>1, <3>2
    <2>5. exitSeen' = (exitSeen \/ ~transport.spawned) \/ exitSeen' = TRUE
      OBVIOUS
    <2>6. exitSeen' \in BOOLEAN
      BY <2>2, <2>5
    <2> QED
      BY <2>4, <2>6
  <1>4. DiagStep
    BY <1>1, DiagCloseKeeps DEF SessionInv
  <1>5. /\ req' \in [Keys -> ReqStates] /\ atServer' = {} /\ tracker' = "closed"
        /\ \A k \in Keys : req'[k] # "pending"
        /\ Keeps
    BY <1>1, FailAllKeeps
  <1>6. SessionTypeOK'
    BY <1>2, <1>3, <1>4, <1>5 DEF SessionInv, SessionTypeOK, DiagStep
  <1>7. SessionInv'
    BY <1>2, <1>3, <1>5, <1>6 DEF SessionInv
  <1> QED
    BY <1>2, <1>4, <1>5, <1>7 DEF SessionStep

\* The session is terminated, by its client or by a signal.
LEMMA TerminateKeeps ==
    ASSUME SessionInv, Terminate
    PROVE  SessionStep /\ closed'
  <1> USE DEF Terminate
  <1>1. DiagStep
    BY DiagCloseKeeps DEF SessionInv
  <1>2. /\ req' \in [Keys -> ReqStates] /\ atServer' = {} /\ tracker' = "closed"
        /\ \A k \in Keys : req'[k] # "pending"
        /\ Keeps
    BY FailAllKeeps
  <1>3. "close" \in Killers
    BY DEF Killers
  <1>4. /\ kill' \in [Killers -> Phases] /\ kill'["close"] # "none"
        /\ alive' = alive /\ exitSeen' = exitSeen /\ termed' \in BOOLEAN
        /\ ~transport.tcp /\ transport.tree =>
             \A x \in Killers : kill'[x] \in {"kill", "ended"} => alive' = {}
    BY <1>3, StartKillKeeps
  <1>5. SessionTypeOK'
    BY <1>1, <1>2, <1>4 DEF SessionInv, SessionTypeOK, DiagStep
  <1>6. SessionInv'
    BY <1>2, <1>4, <1>5 DEF SessionInv
  <1> QED
    BY <1>1, <1>2, <1>6 DEF SessionStep

\* A chunk that does not decode.
LEMMA BadDataKeeps ==
    ASSUME SessionInv, OnBadData
    PROVE  SessionStep
  <1> USE DEF OnBadData
  <1>1. DiagStep
    BY DEF SessionInv, SessionTypeOK, DiagStep, diagVars
  <1>2. /\ req' \in [Keys -> ReqStates] /\ atServer' = {} /\ tracker' = "closed"
        /\ \A k \in Keys : req'[k] # "pending"
        /\ Keeps
    BY FailAllKeeps
  <1>3. "close" \in Killers /\ "decode" \in Killers /\ "close" # "decode"
    BY DEF Killers
  <1>4. /\ kill' \in [Killers -> Phases] /\ kill'["close"] = kill["close"]
        /\ alive' = alive /\ exitSeen' = exitSeen /\ termed' \in BOOLEAN
        /\ ~transport.tcp /\ transport.tree =>
             \A x \in Killers : kill'[x] \in {"kill", "ended"} => alive' = {}
    BY <1>3, StartKillKeeps
  <1>5. SessionTypeOK'
    BY <1>1, <1>2, <1>4 DEF SessionInv, SessionTypeOK, DiagStep
  <1>6. SessionInv'
    BY <1>2, <1>4, <1>5 DEF SessionInv
  <1> QED
    BY <1>1, <1>2, <1>6 DEF SessionStep

\* The steps of killing the server, and its end.
LEMMA ProcessKeeps ==
    ASSUME SessionInv,
           \/ \E by \in Killers : KillWaitDone(by) \/ GraceOver(by) \/ ForceWaitOver(by)
           \/ \E p \in Processes : ProcessDies(p)
    PROVE  SessionStep
  <1>1. /\ UNCHANGED <<transport, trackerVars, diagVars, closed, registered>>
        /\ UNCHANGED <<termed, exitSeen>>
    BY DEF KillWaitDone, GraceOver, ForceWaitOver, ProcessDies, procVars
  <1>2. alive' \subseteq alive
    BY DEF KillWaitDone, GraceOver, ForceWaitOver, ProcessDies, procVars
  <1>3. /\ kill' \in [Killers -> Phases]
        /\ \A x \in Killers : /\ kill[x] # "none" => kill'[x] # "none"
                              /\ kill'[x] \in {"kill", "ended"} =>
                                   alive' = {} \/ kill[x] \in {"kill", "ended"}
    BY DEF KillWaitDone, GraceOver, ForceWaitOver, ProcessDies, SessionInv, SessionTypeOK,
           Phases, TreeGone, procVars
  <1>4. SessionTypeOK'
    BY <1>1, <1>2, <1>3 DEF SessionInv, SessionTypeOK, trackerVars, diagVars
  <1>5. "close" \in Killers
    BY DEF Killers
  <1>6. SessionInv'
    BY <1>1, <1>2, <1>3, <1>4, <1>5 DEF SessionInv, trackerVars, diagVars
  <1> QED
    BY <1>1, <1>6 DEF SessionStep, Keeps, DiagStep, SessionInv, SessionTypeOK, trackerVars, diagVars

\* Timers of a request and of a wait, and diagnostics that arrive.
LEMMA WaitKeeps ==
    ASSUME SessionInv,
           \/ \E k \in Keys : RequestTimeout(k)
           \/ WaitTimeout
           \/ \E f \in Files : Observe(f)
    PROVE  SessionStep
  <1>1. UNCHANGED <<transport, atServer, tracker, closed, registered, procVars, kill>>
    BY DEF RequestTimeout, WaitTimeout, Observe, trackerVars
  <1>2. /\ req' \in [Keys -> ReqStates] /\ Keeps
        /\ \A k \in Keys : req'[k] = "pending" => req[k] = "pending"
    BY DEF RequestTimeout, WaitTimeout, Observe, trackerVars, Keeps, Settled, SessionInv,
           SessionTypeOK, ReqStates
  <1>3. DiagStep
    <2>1. CASE \E k \in Keys : RequestTimeout(k)
      BY <2>1 DEF RequestTimeout, diagVars, DiagStep, SessionInv, SessionTypeOK
    <2>2. CASE WaitTimeout
      BY <2>2 DEF WaitTimeout, DiagStep, SessionInv, SessionTypeOK
    <2>3. CASE \E f \in Files : Observe(f)
      BY <2>3 DEF Observe, DiagStep, SessionInv, SessionTypeOK
    <2> QED
      BY <2>1, <2>2, <2>3
  <1>4. SessionTypeOK'
    BY <1>1, <1>2, <1>3 DEF SessionInv, SessionTypeOK, DiagStep, procVars
  <1>5. SessionInv'
    BY <1>1, <1>2, <1>4 DEF SessionInv, procVars
  <1> QED
    BY <1>1, <1>2, <1>3, <1>5 DEF SessionStep

\* An answer settles its request only while it is pending.
LEMMA AnswerKeeps ==
    ASSUME SessionInv, NEW k \in Keys, Answer(k)
    PROVE  SessionStep
  <1>1. UNCHANGED <<transport, diagVars, closed, registered, procVars, kill>>
    BY DEF Answer
  <1>2. PICK outcome \in {"ok", "failed"} : ConsumeResponse(k, outcome)
    BY DEF Answer
  <1>3. /\ req' \in [Keys -> ReqStates] /\ Keeps /\ atServer' \subseteq Keys /\ tracker' = tracker
        /\ \A x \in Keys : req'[x] = "pending" => req[x] = "pending"
    BY <1>2 DEF ConsumeResponse, Keeps, Settled, SessionInv, SessionTypeOK, ReqStates
  <1>4. SessionTypeOK'
    BY <1>1, <1>3 DEF SessionInv, SessionTypeOK, procVars, diagVars
  <1>5. SessionInv'
    BY <1>1, <1>3, <1>4 DEF SessionInv, procVars
  <1> QED
    BY <1>1, <1>3, <1>5 DEF SessionStep, DiagStep, diagVars, SessionInv, SessionTypeOK

\* Every event keeps the session's half of the invariant.
LEMMA EventKeeps ==
    ASSUME SessionInv, SessionEvent \/ Fault \/ \E k \in Keys : Answer(k)
    PROVE  SessionStep
  <1>1. CASE SessionEvent
    <2>1. CASE \E by \in Killers : KillWaitDone(by) \/ GraceOver(by) \/ ForceWaitOver(by)
      BY <2>1, ProcessKeeps
    <2>2. CASE (\E k \in Keys : RequestTimeout(k)) \/ WaitTimeout
      BY <2>2, WaitKeeps
    <2> QED
      BY <1>1, <2>1, <2>2, ExitKeeps DEF SessionEvent, Timer
  <1>2. CASE Fault
    <2>1. CASE \E p \in Processes : ProcessDies(p)
      BY <2>1, ProcessKeeps
    <2>2. CASE \E f \in Files : Publish(f)
      BY <2>2, WaitKeeps DEF Publish
    <2> QED
      BY <1>2, <2>1, <2>2, ExitKeeps, BadDataKeeps, TerminateKeeps DEF Fault, Signal
  <1> QED
    BY <1>1, <1>2, AnswerKeeps

-----------------------------------------------------------------------------
(* The client.                                                              *)

\* A job names files and candidates of the instance.
LEMMA JobTyped ==
    ASSUME FlowTypeOK
    PROVE  /\ job.kind \in {"symbols", "relations"} /\ job.lang \in {"go", "python", "java", "rust"}
           /\ job.unreadable \subseteq Files /\ job.cands \subseteq Candidates
           /\ job.kind = "relations" => job.lost = {} /\ job.emptied = {}
  BY JobsAssumption DEF FlowTypeOK, JobOK

\* A complete report stays true: what was answered stays answered, and what
\* arrived has arrived.
LEMMA CompleteKeeps ==
    ASSUME FlowTypeOK, CompleteMeansAnswered, Keeps, received \subseteq received',
           UNCHANGED <<job, report>>
    PROVE  CompleteMeansAnswered'
  <1> SUFFICES ASSUME report = "complete"
               PROVE  CompleteMeansAnswered'
    BY DEF CompleteMeansAnswered
  <1>1. \A k \in Keys : req[k] = "ok" => req'[k] = "ok"
    BY DEF Keeps
  <1>2. \A c \in job.cands \ job.lost : req'[QueryKey(c)] = "ok"
    BY <1>1, JobTyped, KeysDiffer DEF CompleteMeansAnswered
  <1>3. job.warm => \A f \in Files : req'[DocKey(f)] = "ok"
    BY <1>1, KeysDiffer DEF CompleteMeansAnswered
  <1> QED
    BY <1>2, <1>3 DEF CompleteMeansAnswered, WaitsForDiagnostics

\* Every event keeps the client's half of the invariant.
LEMMA EventFlow ==
    ASSUME IInv, SessionStep, UNCHANGED <<job, pc, cur, opened, report>>, FlowTypeOK'
    PROVE  FlowInv'
  <1> USE DEF IInv, FlowInv
  <1>1. \A k \in Keys : /\ req[k] = "unsent" => req'[k] = "unsent"
                        /\ req[k] # "unsent" => req'[k] # "unsent"
                        /\ Settled(k) => Settled(k)'
    BY DEF SessionStep, Keeps, Settled
  <1>2. Fresh'
    BY <1>1, KeysDiffer DEF Fresh
  <1>3. Opened'
    BY DEF Opened
  <1>4. Warmed'
    BY <1>1, KeysDiffer DEF Warmed, FlowTypeOK
  <1>5. Diagnosed'
    <2>1. WaitsForDiagnostics' = WaitsForDiagnostics /\ Awaited' = Awaited
      BY DEF WaitsForDiagnostics, Awaited
    <2> QED
      BY <2>1 DEF Diagnosed, SessionStep, DiagStep
  <1>6. Reported'
    <2>1. CompleteMeansAnswered'
      BY CompleteKeeps DEF Reported, SessionStep, DiagStep
    <2> QED
      BY <2>1 DEF Reported, SessionStep
  <1> QED
    BY <1>2, <1>3, <1>4, <1>5, <1>6

\* startSession, and the request to initialize.
LEMMA StartStep ==
    ASSUME IInv, Start
    PROVE  IInv'
  <1> USE DEF IInv, FlowInv, Start, Goto
  <1>1. req[InitKey] = "unsent" /\ InitKey \in Keys
    BY KeysDiffer DEF Fresh
  <1>2. /\ SessionInv'
        /\ \A x \in Keys : x # InitKey => req'[x] = req[x]
    BY <1>1, RequestKeeps
  <1>3. FlowTypeOK'
    BY DEF FlowTypeOK
  <1>4. Fresh'
    BY <1>2, KeysDiffer DEF Fresh
  <1>5. Opened' /\ Warmed'
    BY DEF Opened, Warmed, Asking
  <1>6. Diagnosed'
    BY DEF Diagnosed, Asking, diagVars
  <1>7. Reported'
    BY DEF Reported, CompleteMeansAnswered
  <1> QED
    BY <1>2, <1>3, <1>4, <1>5, <1>6, <1>7

\* Steps that leave the session alone keep its half of the invariant.
LEMMA SessionStays ==
    ASSUME SessionInv, UNCHANGED sessionVars
    PROVE  SessionInv' /\ Keeps /\ DiagStep
  <1>1. SessionInv'
    BY DEF SessionInv, SessionTypeOK, sessionVars, trackerVars, diagVars, procVars
  <1> QED
    BY <1>1 DEF SessionInv, SessionTypeOK, sessionVars, trackerVars, diagVars, procVars, Keeps,
                DiagStep

\* The initialization fails: the report is made, and is not complete.
LEMMA InitializeFailsStep ==
    ASSUME IInv, InitializeFails
    PROVE  IInv'
  <1> USE DEF IInv, FlowInv, InitializeFails, Goto
  <1>1. SessionInv' /\ UNCHANGED <<req, received, waiter, ready>>
    BY SessionStays DEF sessionVars, trackerVars, diagVars
  <1>2. FlowTypeOK'
    BY DEF FlowTypeOK
  <1>3. Fresh' /\ Opened' /\ Warmed'
    BY DEF Fresh, Opened, Warmed, Asking
  <1>4. Diagnosed' /\ Reported'
    BY <1>1 DEF Diagnosed, Asking, Reported, CompleteMeansAnswered
  <1> QED
    BY <1>1, <1>2, <1>3, <1>4

\* The documents that can be read are opened.
LEMMA OpenDocumentsStep ==
    ASSUME IInv, OpenDocuments
    PROVE  IInv'
  <1> USE DEF IInv, FlowInv, OpenDocuments, Goto
  <1>1. SessionInv' /\ UNCHANGED <<req, received, waiter, ready>>
    BY SessionStays DEF sessionVars, trackerVars, diagVars
  <1>2. FlowTypeOK'
    BY DEF FlowTypeOK
  <1>3. pc = "initialize" /\ pc' \in {"warm", "close"} /\ UNCHANGED <<job, cur>>
    OBVIOUS
  <1>4. Fresh'
    BY <1>1, <1>3 DEF Fresh
  <1>5. Opened'
    BY JobTyped DEF Opened, Asking
  <1>6. Warmed'
    <2>1. \A f \in opened' : ~(f < cur) /\ f # cur
      BY <1>3, Numbers DEF Fresh
    <2> QED
      BY <1>3, <2>1 DEF Warmed, Asking
  <1>7. Diagnosed' /\ Reported'
    BY <1>1, <1>3 DEF Diagnosed, Asking, Reported, CompleteMeansAnswered
  <1> QED
    BY <1>1, <1>2, <1>4, <1>5, <1>6, <1>7

\* The next document is warmed up: all before it have been, and settled.
LEMMA WarmNextStep ==
    ASSUME IInv, WarmNext
    PROVE  IInv'
  <1> USE DEF IInv, FlowInv
  <1>1. /\ pc = "warm" /\ Runnable /\ ToWarm # {}
        /\ UNCHANGED <<job, pc, opened, probe, answer, report>>
        /\ UNCHANGED <<transport, diagVars, closed, registered, procVars, kill>>
    BY DEF WarmNext
  <1>2. job.warm /\ ToWarm = {f \in opened : f > cur}
    BY <1>1 DEF ToWarm
  <1>3. PICK f : /\ f = CHOOSE g \in ToWarm : \A h \in ToWarm : g <= h
                 /\ cur' = f /\ Request(DocKey(f))
    BY DEF WarmNext
  <1>4. opened \subseteq Files /\ Files \subseteq Nat
    BY Numbers DEF FlowTypeOK
  <1>5. f \in ToWarm /\ \A h \in ToWarm : f <= h
    BY <1>1, <1>2, <1>3, <1>4, ChoosesSmallest
  <1>6. f \in opened /\ f \in Files /\ f > cur
    BY <1>2, <1>4, <1>5
  <1>7. req[DocKey(f)] = "unsent" /\ DocKey(f) \in Keys
    BY <1>1, <1>6, KeysDiffer DEF Fresh
  <1>8. /\ SessionInv'
        /\ \A x \in Keys : x # DocKey(f) => req'[x] = req[x]
        /\ req'[DocKey(f)] \in {"pending", "failed"}
    BY <1>1, <1>3, <1>7, RequestKeeps
  <1>9. FlowTypeOK'
    <2>1. f \in 0..(Cardinality(Files) + MaxPolls)
      BY <1>6, Numbers
    <2> QED
      BY <1>1, <1>3, <2>1 DEF FlowTypeOK
  <1>10. Fresh'
    <2>1. \A n \in 1..MaxPolls : req'[PollKey(n)] = "unsent"
      BY <1>1, <1>8, KeysDiffer DEF Fresh
    <2>2. ASSUME NEW h \in Files, h > f
          PROVE  req'[DocKey(h)] = "unsent"
      <3>1. h \in Nat /\ f \in Nat /\ cur \in Nat
        BY <1>4, <1>6 DEF FlowTypeOK
      <3>2. h > cur /\ h # f
        BY <1>6, <2>2, <3>1
      <3> QED
        BY <1>1, <1>8, <3>2, KeysDiffer DEF Fresh
    <2> QED
      BY <1>1, <1>3, <2>1, <2>2 DEF Fresh
  <1>11. Opened'
    BY <1>1 DEF Opened
  <1>12. Warmed'
    <2>1. ASSUME NEW g \in opened, g < f
          PROVE  Settled(DocKey(g))'
      <3>1. g \in Nat /\ f \in Nat /\ cur \in Nat /\ g > 0 /\ g \in Files
        BY <1>4, <1>6, Numbers DEF FlowTypeOK
      <3>2. ~(g > cur)
        <4> SUFFICES ASSUME g > cur
                     PROVE  FALSE
          OBVIOUS
        <4>1. g \in ToWarm
          BY <1>2
        <4>2. f <= g
          BY <1>5, <4>1
        <4> QED
          BY <2>1, <3>1, <4>2
      <3>3. g < cur \/ g = cur
        BY <3>1, <3>2
      <3>4. Settled(DocKey(g))
        <4>1. CASE g < cur
          BY <1>1, <1>2, <4>1 DEF Warmed
        <4>2. CASE g = cur
          BY <1>1, <3>1, <4>2 DEF Runnable
        <4> QED
          BY <3>3, <4>1, <4>2
      <3>5. DocKey(g) # DocKey(f) /\ DocKey(g) \in Keys
        BY <2>1, <3>1, KeysDiffer
      <3> QED
        BY <1>8, <3>4, <3>5 DEF Settled
    <2>2. req'[DocKey(f)] # "unsent"
      BY <1>8
    <2> QED
      BY <1>1, <1>3, <2>1, <2>2 DEF Warmed, Asking
  <1>13. Diagnosed'
    BY <1>1 DEF Diagnosed, Asking, diagVars
  <1>14. Reported'
    BY <1>1 DEF Reported, CompleteMeansAnswered
  <1> QED
    BY <1>8, <1>9, <1>10, <1>11, <1>12, <1>13, <1>14

\* All documents have been warmed up: the wait for their diagnostics begins.
LEMMA StartDiagnosticsStep ==
    ASSUME IInv, StartDiagnostics
    PROVE  IInv'
  <1> USE DEF IInv, FlowInv
  <1>1. /\ pc = "warm" /\ Runnable /\ ToWarm = {} /\ pc' = "diagnostics" /\ cur' = 0
        /\ UNCHANGED <<transport, trackerVars, closed, registered, procVars, kill>>
        /\ UNCHANGED <<job, opened, probe, answer, report>>
    BY DEF StartDiagnostics, Goto
  <1>2. waiter = {} /\ received \subseteq Files
    BY <1>1 DEF Diagnosed, SessionInv, SessionTypeOK
  <1>3. /\ received' = received
        /\ IF WaitsForDiagnostics
             THEN /\ waiter' = Awaited \ received
                  /\ ready' = IF Awaited \subseteq received THEN "yes" ELSE "unknown"
             ELSE waiter' = {} /\ ready' = "yes"
    BY <1>2 DEF StartDiagnostics, Wait, Awaited
  <1>4. Awaited \subseteq Files /\ WaitsForDiagnostics' = WaitsForDiagnostics /\ Awaited' = Awaited
    BY <1>1 DEF Awaited, WaitsForDiagnostics, FlowTypeOK
  <1>5. SessionInv'
    <2>1. SessionTypeOK'
      BY <1>1, <1>3, <1>4 DEF SessionInv, SessionTypeOK, trackerVars, procVars
    <2> QED
      BY <1>1, <2>1 DEF SessionInv, trackerVars, procVars
  <1>6. FlowTypeOK'
    BY <1>1, Numbers DEF FlowTypeOK
  <1>7. req' = req
    BY <1>1 DEF trackerVars
  <1>8. Fresh'
    BY <1>1, <1>7 DEF Fresh
  <1>9. Opened'
    BY <1>1 DEF Opened, Asking
  <1>10. Warmed'
    <2>1. ASSUME job.warm, NEW f \in opened
          PROVE  Settled(DocKey(f))
      <3>1. f \in Nat /\ f > 0 /\ cur \in Nat
        BY Numbers DEF FlowTypeOK
      <3>2. ~(f > cur)
        BY <1>1, <2>1 DEF ToWarm
      <3>3. f < cur \/ f = cur
        BY <3>1, <3>2
      <3>4. CASE f < cur
        BY <1>1, <2>1, <3>4 DEF Warmed
      <3>5. CASE f = cur
        BY <1>1, <3>1, <3>5 DEF Runnable
      <3> QED
        BY <3>3, <3>4, <3>5
    <2> QED
      BY <1>1, <1>7, <2>1 DEF Warmed, Asking, Settled
  <1>11. Diagnosed'
    BY <1>1, <1>3, <1>4 DEF Diagnosed
  <1>12. Reported'
    BY <1>1 DEF Reported, CompleteMeansAnswered
  <1> QED
    BY <1>5, <1>6, <1>8, <1>9, <1>10, <1>11, <1>12

\* The index is asked once more.
LEMMA PollIndexStep ==
    ASSUME IInv, PollIndex
    PROVE  IInv'
  <1> USE DEF IInv, FlowInv
  <1>1. /\ pc \in {"diagnostics", "sleep"} /\ (pc = "diagnostics" => waiter = {})
        /\ cur < MaxPolls /\ cur' = cur + 1 /\ pc' = "poll" /\ Request(PollKey(cur + 1))
        /\ UNCHANGED <<transport, diagVars, closed, registered, procVars, kill>>
        /\ UNCHANGED <<job, capable, opened, probe, answer, report>>
    BY DEF PollIndex, Goto
  <1>2. cur \in Nat /\ MaxPolls \in Nat /\ Cardinality(Files) \in Nat
    BY Numbers DEF FlowTypeOK
  <1>3. cur + 1 \in 1..MaxPolls /\ cur + 1 > cur /\ cur + 1 \in 0..(Cardinality(Files) + MaxPolls)
    BY <1>1, <1>2
  <1> DEFINE k == PollKey(cur + 1)
  <1>4. k \in Keys /\ req[k] = "unsent"
    BY <1>1, <1>3, KeysDiffer DEF Fresh
  <1>5. /\ SessionInv'
        /\ \A x \in Keys : x # k => req'[x] = req[x]
    BY <1>1, <1>4, RequestKeeps
  <1>6. FlowTypeOK'
    BY <1>1, <1>3 DEF FlowTypeOK
  <1>7. Fresh'
    <2>1. ASSUME NEW n \in 1..MaxPolls, n > cur + 1
          PROVE  req'[PollKey(n)] = "unsent"
      <3>1. n > cur /\ n # cur + 1
        BY <1>2, <2>1
      <3> QED
        BY <1>1, <1>5, <3>1, KeysDiffer DEF Fresh
    <2> QED
      BY <1>1, <2>1 DEF Fresh
  <1>8. Opened'
    BY <1>1 DEF Opened, Asking
  <1>9. Warmed'
    <2>1. ASSUME job.warm, NEW f \in opened
          PROVE  Settled(DocKey(f))'
      <3>1. Settled(DocKey(f))
        BY <1>1, <2>1 DEF Warmed, Asking
      <3>2. DocKey(f) \in Keys /\ DocKey(f) # k
        BY KeysDiffer DEF FlowTypeOK
      <3> QED
        BY <1>5, <3>1, <3>2 DEF Settled
    <2> QED
      BY <1>1, <2>1 DEF Warmed, Asking
  <1>10. Diagnosed'
    BY <1>1 DEF Diagnosed, Asking, diagVars, WaitsForDiagnostics, Awaited
  <1>11. Reported'
    BY <1>1 DEF Reported, CompleteMeansAnswered
  <1> QED
    BY <1>5, <1>6, <1>7, <1>8, <1>9, <1>10, <1>11

\* The poll ends, or there is nothing to poll for: the queries begin.
LEMMA PollEndsStep ==
    ASSUME IInv, EndPoll \/ SkipProbe
    PROVE  IInv'
  <1> USE DEF IInv, FlowInv
  <1>1. /\ pc \in {"diagnostics", "poll"} /\ (pc = "diagnostics" => waiter = {})
        /\ pc' \in {"sleep", "query"} /\ (pc' = "sleep" => pc = "poll")
        /\ UNCHANGED <<sessionVars, job, cur, capable, opened, answer, report>>
    BY DEF EndPoll, SkipProbe, Goto
  <1>2. probe' \in {"none", "ready", "late", "failed", "timeout"}
    BY DEF EndPoll, SkipProbe, FlowTypeOK, Settled
  <1>3. SessionInv' /\ UNCHANGED <<req, received, waiter, ready>>
    BY <1>1, SessionStays DEF sessionVars, trackerVars, diagVars
  <1>4. FlowTypeOK'
    BY <1>1, <1>2 DEF FlowTypeOK
  <1>5. Fresh'
    BY <1>1, <1>3 DEF Fresh
  <1>6. Opened' /\ Warmed'
    BY <1>1, <1>3 DEF Opened, Warmed, Asking, Settled
  <1>7. Diagnosed'
    BY <1>1, <1>3 DEF Diagnosed, Asking, WaitsForDiagnostics, Awaited
  <1>8. Reported'
    BY <1>1 DEF Reported, CompleteMeansAnswered
  <1> QED
    BY <1>3, <1>4, <1>5, <1>6, <1>7, <1>8

\* The next candidate is queried.
LEMMA StartQueryStep ==
    ASSUME IInv, StartQuery
    PROVE  IInv'
  <1> USE DEF IInv, FlowInv
  <1>1. /\ pc = "query" /\ Unstarted # {} /\ UNCHANGED flowVars
        /\ UNCHANGED <<transport, diagVars, closed, registered, procVars, kill>>
    BY DEF StartQuery
  <1>2. PICK c : /\ c = CHOOSE x \in Unstarted : \A d \in Unstarted : x <= d
                 /\ Request(QueryKey(c))
    BY DEF StartQuery
  <1>3. Unstarted \subseteq Candidates /\ Candidates \subseteq Nat
    BY JobTyped, NumbersAssumption DEF Unstarted
  <1>4. c \in Unstarted
    BY <1>1, <1>2, <1>3, ChoosesSmallest
  <1>5. c \in Candidates /\ req[QueryKey(c)] = "unsent" /\ QueryKey(c) \in Keys
    BY <1>3, <1>4, KeysDiffer DEF Unstarted
  <1>6. /\ SessionInv'
        /\ \A x \in Keys : x # QueryKey(c) => req'[x] = req[x]
    BY <1>1, <1>2, <1>5, RequestKeeps
  <1>7. UNCHANGED <<job, pc, cur, opened, probe, answer, report, received, waiter, ready>>
    BY <1>1 DEF flowVars, diagVars
  <1>8. FlowTypeOK'
    BY <1>7 DEF FlowTypeOK
  <1>9. Fresh'
    BY <1>1, <1>7 DEF Fresh
  <1>10. Opened'
    BY <1>7 DEF Opened
  <1>11. Warmed'
    <2>1. ASSUME job.warm, NEW f \in opened
          PROVE  Settled(DocKey(f))'
      <3>1. Settled(DocKey(f))
        BY <1>1, <2>1 DEF Warmed, Asking
      <3>2. DocKey(f) \in Keys /\ DocKey(f) # QueryKey(c)
        BY KeysDiffer DEF FlowTypeOK
      <3> QED
        BY <1>6, <3>1, <3>2 DEF Settled
    <2> QED
      BY <1>1, <1>7, <2>1 DEF Warmed, Asking
  <1>12. Diagnosed'
    BY <1>7 DEF Diagnosed, WaitsForDiagnostics, Awaited
  <1>13. Reported'
    BY <1>1, <1>7 DEF Reported, CompleteMeansAnswered
  <1> QED
    BY <1>6, <1>8, <1>9, <1>10, <1>11, <1>12, <1>13

\* What a workflow that is done with its queries may call complete.
LEMMA CompleteIsAnswered ==
    ASSUME IInv, pc = "query", Unstarted = {}, InFlight = {},
           IF job.kind = "symbols" THEN SymbolsComplete ELSE RelationsComplete
    PROVE  /\ \A c \in job.cands \ job.lost : req[QueryKey(c)] = "ok"
           /\ job.unreadable = {}
           /\ job.warm => \A f \in Files : req[DocKey(f)] = "ok"
           /\ WaitsForDiagnostics /\ (job.kind = "symbols" \/ job.lang = "go" \/ job.cands = {})
                => Files \subseteq received
  <1> USE DEF IInv, FlowInv
  <1>1. job.unreadable = {} /\ ~WarmIncomplete
    <2>1. CASE job.kind = "symbols"
      BY <2>1 DEF SymbolsComplete
    <2>2. CASE job.kind = "relations"
      <3>1. job.unreadable = {}
        BY <2>2 DEF Opened, Asking
      <3>2. ~WarmIncomplete
        BY <2>2, JobTyped DEF RelationsComplete, GoComplete, RustComplete, JavaComplete,
                              PythonComplete
      <3> QED
        BY <3>1, <3>2
    <2> QED
      BY <2>1, <2>2, JobTyped
  <1>2. opened = Files
    BY <1>1 DEF Opened, Asking
  <1>3. job.warm => \A f \in Files : req[DocKey(f)] = "ok"
    BY <1>1, <1>2 DEF Warmed, Asking, WarmIncomplete, Settled
  <1>4. \A c \in job.cands \ job.lost :
          /\ req[QueryKey(c)] \in ReqStates
          /\ req[QueryKey(c)] \notin {"unsent", "pending"}
    <2>1. \A c \in job.cands : QueryKey(c) \in Keys /\ FileOf[c] \in WithSource
      <3>1. \A c \in job.cands : QueryKey(c) \in Keys /\ FileOf[c] \in opened
        BY <1>2, JobTyped, KeysDiffer, Numbers
      <3>2. CASE job.kind = "symbols"
        BY <3>1, <3>2 DEF SymbolsComplete
      <3>3. CASE job.kind = "relations"
        BY <3>1, <3>3, JobTyped DEF WithSource
      <3> QED
        BY <3>2, <3>3, JobTyped
    <2>2. req \in [Keys -> ReqStates]
      BY DEF SessionInv, SessionTypeOK
    <2> QED
      BY <2>1, <2>2 DEF Unstarted, InFlight
  <1>5. Unresolved = {} => \A c \in job.cands \ job.lost : req[QueryKey(c)] = "ok"
    BY <1>4 DEF Unresolved, ReqStates
  <1>7. /\ \A c \in job.cands \ job.lost : req[QueryKey(c)] = "ok"
        /\ (job.kind = "symbols" \/ job.lang = "go" \/ job.cands = {}) => DiagnosticsReady
    <2>1. CASE job.kind = "symbols"
      BY <1>5, <2>1 DEF SymbolsComplete
    <2>2. CASE job.kind = "relations" /\ job.lang = "go"
      BY <1>5, <2>2 DEF RelationsComplete, GoComplete
    <2>3. CASE job.kind = "relations" /\ job.lang \in {"java", "python"}
      <3>1. PythonComplete
        BY <2>3 DEF RelationsComplete, JavaComplete
      <3> QED
        BY <1>5, <2>3, <3>1 DEF PythonComplete
    <2>4. CASE job.kind = "relations" /\ job.lang = "rust"
      BY <1>5, <2>4 DEF RelationsComplete, RustComplete
    <2> QED
      BY <2>1, <2>2, <2>3, <2>4, JobTyped
  <1>8. WaitsForDiagnostics /\ DiagnosticsReady => Files \subseteq received
    <2>1. Awaited = Files
      BY <1>2 DEF Awaited
    <2> QED
      BY <2>1 DEF Diagnosed, Asking, DiagnosticsReady
  <1> QED
    BY <1>1, <1>3, <1>7, <1>8

\* The report is made.
LEMMA FinishStep ==
    ASSUME IInv, Finish
    PROVE  IInv'
  <1> USE DEF IInv, FlowInv
  <1>1. /\ pc = "query" /\ Unstarted = {} /\ InFlight = {} /\ pc' = "close"
        /\ UNCHANGED <<sessionVars, job, cur, capable, opened, probe, answer>>
    BY DEF Finish, Goto
  <1>2. SessionInv' /\ UNCHANGED <<req, received, waiter, ready>>
    BY <1>1, SessionStays DEF sessionVars, trackerVars, diagVars
  <1>3. /\ report' \in {"complete", "partial"}
        /\ report' = "complete" =>
             IF job.kind = "symbols" THEN SymbolsComplete ELSE RelationsComplete
    BY DEF Finish
  <1>4. FlowTypeOK'
    BY <1>1, <1>3 DEF FlowTypeOK
  <1>5. Fresh' /\ Opened' /\ Warmed'
    BY <1>1 DEF Fresh, Opened, Warmed, Asking
  <1>6. Diagnosed'
    BY <1>1, <1>2 DEF Diagnosed, Asking
  <1>7. Reported'
    <2>1. CompleteMeansAnswered'
      BY <1>1, <1>2, <1>3, CompleteIsAnswered DEF CompleteMeansAnswered, WaitsForDiagnostics
    <2> QED
      BY <1>1, <2>1 DEF Reported
  <1> QED
    BY <1>2, <1>4, <1>5, <1>6, <1>7

\* The session is closed, or was closed before, and the workflow returns.
LEMMA CloseStep ==
    ASSUME IInv, Close \/ Closed
    PROVE  IInv'
  <1> USE DEF IInv, FlowInv
  <1>1. /\ pc \in {"close", "closing"} /\ pc' \in {"closing", "done"}
        /\ UNCHANGED <<job, cur, capable, opened, probe, answer, report>>
    BY DEF Close, Closed, Goto
  <1>2. SessionInv' /\ Keeps /\ DiagStep /\ closed'
    <2>1. CASE Terminate
      BY <2>1, TerminateKeeps DEF SessionStep
    <2>2. CASE closed /\ UNCHANGED sessionVars
      BY <2>2, SessionStays DEF sessionVars
    <2> QED
      BY <2>1, <2>2 DEF Close, Closed, Reported
  <1>3. FlowTypeOK'
    BY <1>1 DEF FlowTypeOK
  <1>4. Fresh' /\ Opened' /\ Warmed'
    BY <1>1 DEF Fresh, Opened, Warmed, Asking
  <1>5. Diagnosed'
    BY <1>1, <1>2 DEF Diagnosed, Asking, DiagStep
  <1>6. Reported'
    <2>1. CompleteMeansAnswered'
      BY <1>1, <1>2, CompleteKeeps DEF Reported, DiagStep
    <2> QED
      BY <1>1, <1>2, <2>1 DEF Reported
  <1> QED
    BY <1>2, <1>3, <1>4, <1>5, <1>6

\* Events, among them answers, of whose content the client keeps a part.
LEMMA EventStep ==
    ASSUME IInv, SessionEvent \/ Fault \/ \E k \in Keys : Answer(k)
    PROVE  IInv'
  <1> USE DEF IInv, FlowInv
  <1>1. SessionStep
    BY EventKeeps
  <1>2. UNCHANGED <<job, pc, cur, opened, report>>
    BY DEF SessionEvent, Fault, Answer, flowVars
  <1>3. FlowTypeOK'
    <2>1. CASE SessionEvent \/ Fault
      BY <2>1 DEF SessionEvent, Fault, flowVars, FlowTypeOK
    <2>2. ASSUME NEW k \in Keys, Answer(k)
          PROVE  FlowTypeOK'
      <3>1. CASE AnswerContent(k)
        <4>1. CASE k = InitKey
          BY <1>2, <3>1, <4>1 DEF AnswerContent, FlowTypeOK
        <4>2. CASE k # InitKey /\ k[1] = "poll"
          BY <1>2, <3>1, <4>2 DEF AnswerContent, FlowTypeOK
        <4>3. CASE k # InitKey /\ k[1] # "poll" /\ k[1] = "query"
          BY <1>2, <3>1, <4>3 DEF AnswerContent, FlowTypeOK
        <4>4. CASE k # InitKey /\ k[1] # "poll" /\ k[1] # "query"
          BY <1>2, <3>1, <4>4 DEF AnswerContent, FlowTypeOK
        <4> QED
          BY <4>1, <4>2, <4>3, <4>4
      <3>2. CASE UNCHANGED <<capable, probe, answer>>
        BY <1>2, <3>2 DEF FlowTypeOK
      <3> QED
        BY <2>2, <3>1, <3>2 DEF Answer
    <2> QED
      BY <2>1, <2>2
  <1>4. FlowInv'
    BY <1>1, <1>2, <1>3, EventFlow
  <1> QED
    BY <1>1, <1>4 DEF SessionStep

-----------------------------------------------------------------------------
(* The theorems.                                                            *)

LEMMA InvInit ==
    ASSUME Init
    PROVE  IInv
  <1> USE DEF Init, SessionInit
  <1>1. SessionInv
    <2>1. PICK t \in Launches : SessionInit(t)
      OBVIOUS
    <2>2. t \in [tcp : BOOLEAN, tree : BOOLEAN, spawned : BOOLEAN]
      <3>1. \A a, b, c \in BOOLEAN :
              [tcp |-> a, tree |-> b, spawned |-> c]
                \in [tcp : BOOLEAN, tree : BOOLEAN, spawned : BOOLEAN]
        OBVIOUS
      <3>2. TRUE \in BOOLEAN /\ FALSE \in BOOLEAN
        OBVIOUS
      <3>3. Launches \subseteq [tcp : BOOLEAN, tree : BOOLEAN, spawned : BOOLEAN]
        BY <3>1, <3>2, Zenon DEF Launches
      <3> QED
        BY <2>1, <3>3
    <2>3. SessionTypeOK
      BY <2>1, <2>2 DEF SessionTypeOK, ReqStates, Phases
    <2>4. \A by \in Killers : kill[by] = "none"
      BY <2>1
    <2> QED
      BY <2>1, <2>3, <2>4 DEF SessionInv
  <1>2. FlowTypeOK
    BY Numbers DEF FlowTypeOK
  <1>3. Fresh
    BY KeysDiffer DEF Fresh
  <1>4. Opened /\ Warmed /\ Diagnosed /\ Reported
    BY DEF Opened, Warmed, Diagnosed, Reported, Asking, CompleteMeansAnswered
  <1> QED
    BY <1>1, <1>2, <1>3, <1>4 DEF IInv, FlowInv

LEMMA InvStep ==
    ASSUME IInv, [Next]_vars
    PROVE  IInv'
  <1>1. CASE Client
    BY <1>1, StartStep, InitializeFailsStep, OpenDocumentsStep, WarmNextStep, StartDiagnosticsStep,
       PollEndsStep, StartQueryStep, FinishStep, CloseStep, PollIndexStep DEF Client
  <1>2. CASE SessionEvent \/ Fault \/ \E k \in Keys : Answer(k)
    BY <1>2, EventStep
  <1>3. CASE Wake
    BY <1>3, PollIndexStep DEF Wake
  <1>4. CASE UNCHANGED vars
    <2>1. SessionInv' /\ Keeps /\ DiagStep
      BY <1>4, SessionStays DEF IInv, vars
    <2>2. UNCHANGED <<job, pc, cur, opened, probe, answer, report, closed>>
      BY <1>4 DEF vars, flowVars, sessionVars
    <2>3. FlowTypeOK'
      BY <2>2 DEF IInv, FlowInv, FlowTypeOK
    <2>4. FlowInv'
      BY <2>1, <2>2, <2>3, EventFlow DEF SessionStep
    <2> QED
      BY <2>1, <2>4 DEF IInv
  <1> QED
    BY <1>1, <1>2, <1>3, <1>4 DEF Next

LEMMA InvAlways == Spec => []IInv
  BY InvInit, InvStep, PTL DEF Spec

\* The state is well typed, and when the workflow has returned its session is
\* closed and leaves no request, no waiter and no signal handler, and no
\* server that nobody is ending (CleanEnd).
THEOREM EndsClean == Spec => []CleanEnd
  <1>1. IInv => CleanEnd
    <2> SUFFICES ASSUME IInv
                 PROVE  CleanEnd
      OBVIOUS
    <2> USE DEF IInv, FlowInv
    <2>1. TypeOK
      BY DEF SessionInv, FlowTypeOK, TypeOK
    <2>2. ASSUME pc = "done"
          PROVE  /\ closed /\ ~registered /\ waiter = {}
                 /\ \A k \in Keys : req[k] # "pending"
                 /\ ~transport.tcp /\ transport.tree => alive = {} \/ kill["close"] = "term"
      <3>1. closed /\ waiter = {}
        BY <2>2 DEF Reported, Diagnosed
      <3>2. ~registered /\ tracker = "closed" /\ kill["close"] # "none"
        BY <3>1 DEF SessionInv
      <3>3. kill["close"] \in Phases /\ "close" \in Killers
        BY DEF SessionInv, SessionTypeOK, Killers
      <3>4. ~transport.tcp /\ transport.tree => alive = {} \/ kill["close"] = "term"
        BY <3>2, <3>3 DEF SessionInv, Phases
      <3>5. \A k \in Keys : req[k] # "pending"
        BY <3>2 DEF SessionInv
      <3> QED
        BY <3>1, <3>2, <3>4, <3>5
    <2> QED
      BY <2>1, <2>2 DEF CleanEnd, NothingLeftBehind
  <1> QED
    BY <1>1, InvAlways, PTL

\* A report is complete only when every candidate with a position in the text
\* opened was queried and answered, every document was read and warmed up,
\* and the diagnostics the report relies on arrived.
THEOREM CompleteIsTrue == Spec => []CompleteMeansAnswered
  <1>1. IInv => CompleteMeansAnswered
    BY DEF IInv, FlowInv, Reported
  <1> QED
    BY <1>1, InvAlways, PTL

\* A request settles once: what is sent next has not been sent before, and no
\* event touches a request that is not pending.
LEMMA SettledStep ==
    ASSUME IInv, [Next]_vars, NEW k \in Keys, Settled(k)
    PROVE  req'[k] = req[k]
  <1> USE DEF IInv, FlowInv
  <1>1. ASSUME NEW x \in Keys, req[x] = "unsent", Request(x)
        PROVE  req'[k] = req[k]
    BY <1>1 DEF Request, Settled, SessionInv, SessionTypeOK
  <1>2. CASE Start
    BY <1>1, <1>2, KeysDiffer DEF Start, Fresh
  <1>3. CASE WarmNext
    <2>1. PICK f : /\ f = CHOOSE g \in ToWarm : \A h \in ToWarm : g <= h
                   /\ Request(DocKey(f))
      BY <1>3 DEF WarmNext
    <2>2. /\ ToWarm \subseteq {g \in opened : g > cur}
          /\ opened \subseteq Files /\ Files \subseteq Nat
      BY Numbers DEF ToWarm, FlowTypeOK
    <2>3. f \in ToWarm
      BY <1>3, <2>1, <2>2, ChoosesSmallest DEF WarmNext
    <2> QED
      BY <1>1, <1>3, <2>1, <2>2, <2>3, KeysDiffer DEF WarmNext, Fresh
  <1>4. CASE PollIndex
    <2>1. cur + 1 \in 1..MaxPolls /\ cur + 1 > cur
      BY <1>4, Numbers DEF PollIndex, FlowTypeOK
    <2> QED
      BY <1>1, <1>4, <2>1, KeysDiffer DEF PollIndex, Fresh
  <1>5. CASE StartQuery
    <2>1. PICK c : /\ c = CHOOSE x \in Unstarted : \A d \in Unstarted : x <= d
                   /\ Request(QueryKey(c))
      BY <1>5 DEF StartQuery
    <2>2. Unstarted \subseteq Candidates /\ Candidates \subseteq Nat
      BY JobTyped, NumbersAssumption DEF Unstarted
    <2>3. c \in Unstarted
      BY <1>5, <2>1, <2>2, ChoosesSmallest DEF StartQuery
    <2> QED
      BY <1>1, <2>1, <2>2, <2>3, KeysDiffer DEF Unstarted
  <1>6. CASE Keeps
    BY <1>6 DEF Keeps, Settled
  <1>7. CASE SessionEvent \/ Fault \/ \E x \in Keys : Answer(x)
    BY <1>6, <1>7, EventKeeps DEF SessionStep
  <1>8. CASE Terminate
    BY <1>6, <1>8, TerminateKeeps DEF SessionStep
  <1>9. CASE UNCHANGED req
    BY <1>9
  <1>10. CASE Client
    <2>1. InitializeFails \/ OpenDocuments \/ StartDiagnostics \/ EndPoll \/ SkipProbe \/ Finish
          \/ Closed => UNCHANGED req
      BY DEF InitializeFails, OpenDocuments, StartDiagnostics, EndPoll, SkipProbe, Finish, Closed,
             sessionVars, trackerVars
    <2>2. Close => Terminate \/ UNCHANGED req
      BY DEF Close, sessionVars, trackerVars
    <2> QED
      BY <1>2, <1>3, <1>4, <1>5, <1>8, <1>9, <1>10, <2>1, <2>2 DEF Client
  <1>11. CASE UNCHANGED vars
    BY <1>9, <1>11 DEF vars, sessionVars, trackerVars
  <1> QED
    BY <1>4, <1>7, <1>10, <1>11 DEF Next, Wake

\* A promise settles once: no late answer, failAll or timer changes the
\* outcome of a request that was answered, failed or had timed out.
THEOREM SettlesOnce == Spec => SettledOnce
  <1>1. IInv /\ [Next]_vars => [\A k \in Keys : Settled(k) => req'[k] = req[k]]_vars
    BY SettledStep
  <1> QED
    BY <1>1, InvAlways, PTL DEF Spec, SettledOnce

---------------------------------------------------------------------------
(* Change sets and version pairs (ChangeSets), for every input *)

CS == INSTANCE ChangeSets WITH Production <- Population, Symbols <- SymbolsIn, Ambiguous <- Unclear

\* Each path is one end of one rename at most.
Paired(r) == \A x, y \in r : (x[1] = y[1] \/ x[2] = y[2]) => x = y

\* A set of renames that cannot be extended exists: one that leaves a smallest
\* set of the possible ones out.
LEMMA RenamesPaired ==
    ASSUME IsFiniteSet(Paths), NEW b, NEW a
    PROVE  Paired(CS!RenameOf(b, a)) /\ CS!RenameOf(b, a) \subseteq CS!Renames(b, a)
  <1> DEFINE R == CS!Renames(b, a)
             Pairings == {r \in SUBSET R : Paired(r)}
             Left == {R \ r : r \in Pairings}
  <1>1. IsFiniteSet(R)
    BY FS_Product, FS_Subset DEF CS!Renames
  <1>2. Left \subseteq FiniteSubsetsOf(R) /\ Left # {}
    <2>1. {} \in Pairings
      BY DEF Paired
    <2>2. ASSUME NEW r \in Pairings PROVE R \ r \in FiniteSubsetsOf(R)
      <3>1. R \ r \in SUBSET R
        OBVIOUS
      <3>2. IsFiniteSet(R \ r)
        BY <1>1, <3>1, FS_Subset
      <3> QED BY <3>1, <3>2 DEF FiniteSubsetsOf
    <2> QED BY <2>1, <2>2
  <1>3. PICK r \in Pairings : \A l \in Left : ~(<<l, R \ r>> \in StrictSubsetOrdering(R))
    <2> HIDE DEF Left
    <2>1. IsWellFoundedOn(StrictSubsetOrdering(R), FiniteSubsetsOf(R))
      BY FS_StrictSubsetOrderingWellFounded
    <2>2. PICK x \in Left : \A l \in Left : ~(<<l, x>> \in StrictSubsetOrdering(R))
      BY Zenon, <1>2, <2>1, WFMin
    <2>3. PICK r \in Pairings : x = R \ r
      BY DEF Left
    <2> QED BY <2>2, <2>3
  <1>4. \A x \in R : \E y \in r : x[1] = y[1] \/ x[2] = y[2]
    <2> SUFFICES ASSUME NEW x \in R, \A y \in r : x[1] # y[1] /\ x[2] # y[2] PROVE FALSE
      OBVIOUS
    <2> DEFINE more == r \cup {x}
    <2>1. more \in Pairings
      BY <1>3 DEF Paired
    <2>2. R \ more \in Left
      BY <2>1
    <2>3. x \in R \ r
      OBVIOUS
    <2>4. <<R \ more, R \ r>> \in StrictSubsetOrdering(R)
      BY <2>3 DEF StrictSubsetOrdering
    <2> QED BY <1>3, <2>2, <2>4
  <1>5. \E s \in SUBSET R : /\ \A x, y \in s : (x[1] = y[1] \/ x[2] = y[2]) => x = y
                            /\ \A x \in R : \E y \in s : x[1] = y[1] \/ x[2] = y[2]
    BY <1>3, <1>4 DEF Paired
  <1> HIDE DEF R
  <1>6. CS!RenameOf(b, a) =
          CHOOSE s \in SUBSET R : /\ \A x, y \in s : (x[1] = y[1] \/ x[2] = y[2]) => x = y
                                  /\ \A x \in R : \E y \in s : x[1] = y[1] \/ x[2] = y[2]
    BY DEF CS!RenameOf, R
  <1> QED BY <1>5, <1>6 DEF Paired, R

\* What git says of a changed file of the population.
LEMMA ChangeIsCandidate ==
    ASSUME Population \subseteq Paths, NEW b, NEW a, NEW p \in Population, b[p] # a[p],
           p \notin CS!RenamedOut(b, a)
    PROVE  \E s \in CS!Candidates(b, a) : p \in {s.path, s.beforePath}
  <1> DEFINE renamed == CS!RenameOf(b, a)
             move(r) == [path |-> r[2], beforePath |-> r[1], kind |-> "modified"]
             edit == [path |-> p, beforePath |-> p,
                      kind |-> IF b[p] = Absent THEN "added" ELSE IF a[p] = Absent THEN "deleted" ELSE "modified"]
  <1>1. \A r \in renamed : move(r) \in CS!ParseStatus(b, a)
    BY DEF CS!ParseStatus
  <1>2. CASE p \in {r[1] : r \in renamed}
    <2>1. PICK r \in renamed : r[1] = p
      BY <1>2
    <2>2. r[2] \in Population
      BY <2>1 DEF CS!RenamedOut
    <2>3. move(r).path = r[2] /\ move(r).beforePath = p
      BY <2>1
    <2> HIDE DEF move
    <2> QED BY <1>1, <2>2, <2>3 DEF CS!Candidates
  <1>3. CASE p \in {r[2] : r \in renamed}
    <2>1. PICK r \in renamed : r[2] = p
      BY <1>3
    <2>2. move(r).path = p
      BY <2>1
    <2> HIDE DEF move
    <2> QED BY <1>1, <2>2 DEF CS!Candidates
  <1>4. CASE p \notin {r[1] : r \in renamed} \cup {r[2] : r \in renamed}
    <2>1. edit \in CS!ParseStatus(b, a)
      BY <1>4 DEF CS!ParseStatus
    <2> QED BY <2>1 DEF CS!Candidates
  <1> QED BY <1>2, <1>3, <1>4

FileOfStatus(s, br, ar) ==
    [path |-> s.path, beforePath |-> s.beforePath, kind |-> s.kind,
     before |-> (IF s.kind = "added" THEN CS!NoText ELSE CS!SourceText(br, s.beforePath)).text,
     after |-> (IF s.kind = "deleted" THEN CS!NoText ELSE CS!SourceText(ar, s.path)).text]

\* The files of a change set are those of the statuses that survive the filter.
LEMMA FilesOfSet ==
    ASSUME NEW b, NEW a, NEW br, NEW ar
    PROVE  CS!ChangeSetOf(b, a, br, ar).files = {FileOfStatus(s, br, ar) : s \in CS!Candidates(b, a)}
  BY DEF CS!ChangeSetOf, FileOfStatus

\* A report that is available is of an available change set without a file that cannot be analyzed.
LEMMA AvailableReport ==
    ASSUME NEW cs, CS!SemanticDiff(cs).availability = "available"
    PROVE  /\ cs.availability = "available"
           /\ \A f \in cs.files : ~CS!Failed(f)
  <1> DEFINE failed == {f \in cs.files : CS!Failed(f)}
  <1>1. CS!SemanticDiff(cs).availability = IF cs.availability # "available" THEN cs.availability
                                           ELSE IF failed = {} THEN "available" ELSE "partial"
    BY DEF CS!SemanticDiff
  <1> QED BY <1>1

\* The profiles of a report are those of the files of an available change set.
LEMMA ProfilesOfReport ==
    ASSUME NEW cs
    PROVE  /\ cs.availability # "available" => CS!SemanticDiff(cs).profiles = {}
           /\ cs.availability = "available" =>
                CS!SemanticDiff(cs).profiles = UNION {CS!ProfileOf(f) : f \in cs.files}
  BY DEF CS!SemanticDiff

\* Whatever the trees do between the questions to git, a report that calls itself complete
\* profiles every changed production file, except one that was renamed out of the population
\* (computeGitChangeSet, analyzeChangeSetSemantics).
THEOREM ReportsLoseNothing ==
    ASSUME Population \subseteq Paths, NEW b, NEW a, NEW br, NEW ar
    PROVE  CS!NoChangeLost(b, a, br, ar)
  <1> DEFINE cs == CS!ChangeSetOf(b, a, br, ar)
             diff == CS!SemanticDiff(cs)
  <1> SUFFICES ASSUME diff.availability = "available",
                      NEW p \in Population, b[p] # a[p], p \notin CS!RenamedOut(b, a)
               PROVE  \E f \in cs.files : /\ p \in {f.path, f.beforePath}
                                          /\ \E pr \in diff.profiles : pr.file = f.path /\ ~pr.unavailable
    BY DEF CS!NoChangeLost
  <1>1. PICK s \in CS!Candidates(b, a) : p \in {s.path, s.beforePath}
    BY ChangeIsCandidate
  <1> DEFINE f == FileOfStatus(s, br, ar)
  <1>2. f \in cs.files
    BY FilesOfSet
  <1>3. cs.availability = "available" /\ ~CS!Failed(f)
    BY <1>2, AvailableReport
  <1>4. \E pr \in CS!ProfileOf(f) : pr.file = f.path /\ ~pr.unavailable
    <2>1. CASE CS!Unanalyzable(f)
      BY <1>3, <2>1 DEF CS!ProfileOf, CS!Failed, CS!Fallback
    <2>2. CASE ~CS!Unanalyzable(f)
      BY <2>2 DEF CS!ProfileOf, CS!Analyzed
    <2> QED BY <2>1, <2>2
  <1>5. \E pr \in diff.profiles : pr.file = f.path /\ ~pr.unavailable
    BY <1>2, <1>3, <1>4, ProfilesOfReport
  <1>6. p \in {f.path, f.beforePath}
    BY <1>1 DEF FileOfStatus
  <1> QED BY <1>2, <1>5, <1>6

\* Two statuses of one path are one.
LEMMA StatusesApart ==
    ASSUME IsFiniteSet(Paths), NEW b, NEW a,
           NEW s \in CS!ParseStatus(b, a), NEW t \in CS!ParseStatus(b, a), s.path = t.path
    PROVE  s = t
  <1> DEFINE renamed == CS!RenameOf(b, a)
             move(r) == [path |-> r[2], beforePath |-> r[1], kind |-> "modified"]
             edit(p) == [path |-> p, beforePath |-> p,
                         kind |-> IF b[p] = Absent THEN "added" ELSE IF a[p] = Absent THEN "deleted" ELSE "modified"]
  <1>1. \A u \in CS!ParseStatus(b, a) :
           \/ \E r \in renamed : u = move(r)
           \/ u.path \notin {r[2] : r \in renamed} /\ u = edit(u.path)
    BY DEF CS!ParseStatus
  <1>2. ASSUME NEW r \in renamed, NEW q \in renamed, s = move(r), t = move(q) PROVE s = t
    <2>1. r[2] = q[2]
      BY <1>2
    <2>2. r = q
      BY <2>1, RenamesPaired DEF Paired
    <2> QED BY <1>2, <2>2
  <1>3. ASSUME NEW u, NEW r \in renamed, u = move(r) PROVE u.path \in {q[2] : q \in renamed}
    BY <1>3
  <1> QED BY <1>1, <1>2, <1>3

\* A file that is added has no text in the tree compared.
LEMMA AddedIsAbsent ==
    ASSUME NEW b, NEW a, NEW s \in CS!ParseStatus(b, a), s.kind = "added"
    PROVE  b[s.beforePath] = Absent
  BY DEF CS!ParseStatus

\* A change set that calls itself complete has omitted no text.
LEMMA CompleteSet ==
    ASSUME NEW b, NEW a, NEW br, NEW ar, CS!ChangeSetOf(b, a, br, ar).availability = "available",
           NEW s \in CS!Candidates(b, a), s.kind # "added"
    PROVE  FileOfStatus(s, br, ar).before = br[s.beforePath]
  <1>1. ~CS!SourceText(br, s.beforePath).omitted
    BY DEF CS!ChangeSetOf
  <1> QED BY <1>1 DEF CS!SourceText, FileOfStatus

\* A file is called introduced only when its old path had no text that could be read in the
\* tree compared or in the tree read (analyzeChangeSetSemantics).
THEOREM IntroducedFilesAreNew ==
    ASSUME IsFiniteSet(Paths), NEW b, NEW a, NEW br, NEW ar
    PROVE  CS!IntroducedIsNew(b, a, br, ar)
  <1> DEFINE cs == CS!ChangeSetOf(b, a, br, ar)
             diff == CS!SemanticDiff(cs)
  <1> SUFFICES ASSUME NEW f \in cs.files, NEW pr \in diff.profiles, pr.file = f.path, pr.state = "introduced"
               PROVE  ~CS!Readable(b[f.beforePath]) \/ ~CS!Readable(br[f.beforePath])
    BY DEF CS!IntroducedIsNew
  <1>1. cs.availability = "available"
    BY ProfilesOfReport
  <1>2. PICK g \in cs.files : pr \in CS!ProfileOf(g)
    BY <1>1, ProfilesOfReport
  <1>3. PICK s \in CS!Candidates(b, a) : f = FileOfStatus(s, br, ar)
    BY FilesOfSet
  <1>4. PICK t \in CS!Candidates(b, a) : g = FileOfStatus(t, br, ar)
    BY FilesOfSet
  <1>5. pr.file = g.path
    BY <1>2 DEF CS!ProfileOf, CS!Analyzed, CS!UnavailableProfile, CS!Fallback
  <1>6. g = f
    <2>1. s.path = t.path
      BY <1>3, <1>4, <1>5 DEF FileOfStatus
    <2> QED BY <1>3, <1>4, <2>1, StatusesApart DEF CS!Candidates
  <1>7. ~CS!Readable(f.before) \/ f.kind = "added"
    <2>1. CASE CS!Unanalyzable(f)
      BY <1>2, <1>6, <2>1 DEF CS!ProfileOf, CS!UnavailableProfile, CS!Fallback
    <2>2. CASE ~CS!Unanalyzable(f)
      <3>1. ~CS!Parsed(f.before)
        BY <1>2, <1>6, <2>2 DEF CS!ProfileOf, CS!Analyzed
      <3> QED BY <2>2, <3>1 DEF CS!Unanalyzable, CS!Parsed
    <2> QED BY <2>1, <2>2
  <1>8. f.beforePath = s.beforePath /\ f.kind = s.kind
    BY <1>3 DEF FileOfStatus
  <1>9. CASE s.kind = "added"
    <2>1. b[f.beforePath] = Absent
      BY <1>8, <1>9, AddedIsAbsent DEF CS!Candidates
    <2> QED BY <2>1 DEF CS!Readable
  <1>10. CASE s.kind # "added"
    BY <1>1, <1>3, <1>7, <1>8, <1>10, CompleteSet
  <1> QED BY <1>9, <1>10

\* A fact is a symbol of a text that is there.
LEMMA FactsShape ==
    ASSUME NEW t, NEW S, NEW f
    PROVE  f \in CS!Facts(t, S) <=>
             \E p \in S : t[p] # Absent /\ \E s \in SymbolsIn(t[p]) : f = <<p, s>>
  BY DEF CS!Facts

\* The declarations of one name in one text are finitely many.
LEMMA NamedFinite ==
    ASSUME \A x : IsFiniteSet(SymbolsIn(x)), NEW t, NEW S, NEW i
    PROVE  IsFiniteSet(CS!Named(CS!Facts(t, S), i))
  <1>1. CS!Named(CS!Facts(t, S), i) \in SUBSET ({i[1]} \X SymbolsIn(t[i[1]]))
    BY DEF CS!Named, CS!Facts
  <1>2. IsFiniteSet({i[1]} \X SymbolsIn(t[i[1]]))
    BY FS_Singleton, FS_Product
  <1> QED BY <1>1, <1>2, FS_Subset

\* What an available version pair is made of.
LEMMA AvailablePair ==
    ASSUME NEW b, NEW a, CS!VersionPair(b, a).availability = "available"
    PROVE  LET cs == CS!ChangeSetOf(b, a, b, a)
           IN  CS!VersionPair(b, a).pairs =
                 CS!Pairs(CS!Facts(b, CS!Snapshot(b).files \cap CS!ChangedPaths(cs).before),
                          CS!Facts(a, CS!Snapshot(a).files \cap CS!ChangedPaths(cs).after))
  BY DEF CS!VersionPair

\* The ends of a status: the old path had a text unless the file was added, the
\* new one has one unless it was deleted.
LEMMA EndsOfStatus ==
    ASSUME IsFiniteSet(Paths), NEW b, NEW a, NEW s \in CS!ParseStatus(b, a), s.path # s.beforePath
    PROVE  b[s.path] = Absent /\ a[s.beforePath] = Absent
  <1>1. PICK r \in CS!RenameOf(b, a) : s.path = r[2] /\ s.beforePath = r[1]
    BY DEF CS!ParseStatus
  <1>2. r \in CS!Renames(b, a)
    BY RenamesPaired
  <1> QED BY <1>1, <1>2 DEF CS!Renames

\* The paths that symbol evidence compares include a changed file of the
\* population, on the side that has it.
LEMMA ChangedPathsTaken ==
    ASSUME IsFiniteSet(Paths), Population \subseteq Paths,
           NEW b, NEW a, NEW p \in Population, b[p] # a[p], p \notin CS!RenamedOut(b, a)
    PROVE  LET changed == CS!ChangedPaths(CS!ChangeSetOf(b, a, b, a))
           IN  /\ b[p] # Absent => p \in changed.before
               /\ a[p] # Absent => p \in changed.after
  <1> DEFINE cs == CS!ChangeSetOf(b, a, b, a)
             changed == CS!ChangedPaths(cs)
  <1>1. PICK s \in CS!Candidates(b, a) : p \in {s.path, s.beforePath}
    BY ChangeIsCandidate
  <1>2. s \in CS!ParseStatus(b, a)
    BY DEF CS!Candidates
  <1>3. b[p] # Absent => p = s.beforePath
    BY <1>1, <1>2, EndsOfStatus
  <1>4. a[p] # Absent => p = s.path
    BY <1>1, <1>2, EndsOfStatus
  <1>5. FileOfStatus(s, b, a) \in cs.files
    BY FilesOfSet
  <1>6. s.beforePath \in {f.beforePath : f \in cs.files} /\ s.path \in {f.path : f \in cs.files}
    BY <1>5 DEF FileOfStatus
  <1> HIDE DEF cs
  <1>7. changed = [before |-> {f.beforePath : f \in cs.files}, after |-> {f.path : f \in cs.files}]
    BY DEF CS!ChangedPaths
  <1> QED BY <1>3, <1>4, <1>6, <1>7 DEF cs

Names(t) == {<<f[1], f[2].name>> : f \in CS!Facts(t, Population)}

\* A name is of a symbol of a text of the population.
LEMMA NameShape ==
    ASSUME NEW t, NEW i \in Names(t)
    PROVE  \E p \in Population : t[p] # Absent /\ \E s \in SymbolsIn(t[p]) : i = <<p, s.name>>
  <1>1. PICK f \in CS!Facts(t, Population) : i = <<f[1], f[2].name>>
    BY DEF Names
  <1> QED BY <1>1, FactsShape

\* A symbol of a text of the population has its name among the names.
LEMMA NameThere ==
    ASSUME NEW t, NEW p \in Population, t[p] # Absent, NEW s \in SymbolsIn(t[p])
    PROVE  <<p, s.name>> \in Names(t)
  <1>1. <<p, s>> \in CS!Facts(t, Population)
    BY FactsShape
  <1> QED BY <1>1 DEF Names

\* A module brings its own copy of the operator along.
LEMMA SameCardinality == \A S : CS!Cardinality(S) = Cardinality(S)
  BY DEF CS!Cardinality, Cardinality

\* A name that only one of two sets of facts has is counted there, and not in the other.
LEMMA OneSided ==
    ASSUME \A x : IsFiniteSet(SymbolsIn(x)), NEW t, NEW u, NEW S, NEW U, U \subseteq Population,
           NEW p \in S, t[p] # Absent, NEW s \in SymbolsIn(t[p]), <<p, s.name>> \notin Names(u)
    PROVE  LET i == <<p, s.name>>
           IN  /\ Cardinality(CS!Named(CS!Facts(t, S), i)) \in Nat \ {0}
               /\ Cardinality(CS!Named(CS!Facts(u, U), i)) = 0
               /\ <<p, s>> \in CS!Facts(t, S)
  <1> DEFINE i == <<p, s.name>>
  <1>1. <<p, s>> \in CS!Facts(t, S)
    BY FactsShape
  <1>2. <<p, s>> \in CS!Named(CS!Facts(t, S), i)
    BY <1>1 DEF CS!Named
  <1>3. Cardinality(CS!Named(CS!Facts(t, S), i)) \in Nat \ {0}
    BY <1>2, NamedFinite, FS_CardinalityType, FS_EmptySet
  <1>4. CS!Named(CS!Facts(u, U), i) = {}
    <2> SUFFICES ASSUME NEW f \in CS!Facts(u, U), <<f[1], f[2].name>> = i PROVE FALSE
      BY DEF CS!Named
    <2>1. PICK q \in U : u[q] # Absent /\ \E z \in SymbolsIn(u[q]) : f = <<q, z>>
      BY FactsShape
    <2>2. PICK z \in SymbolsIn(u[q]) : f = <<q, z>>
      BY <2>1
    <2>3. <<q, z.name>> \in Names(u)
      BY <2>1, NameThere
    <2> QED BY <2>2, <2>3
  <1> QED BY <1>1, <1>3, <1>4, FS_EmptySet

\* The status of a pair that one side is missing of.
LEMMA StatusOfOne ==
    ASSUME NEW before, NEW after, NEW i,
           NEW nb \in Nat, nb = Cardinality(CS!Named(before, i)),
           NEW na \in Nat, na = Cardinality(CS!Named(after, i))
    PROVE  /\ CS!Pair(before, after, i).identity = i
           /\ nb # 0 /\ na = 0 => CS!Pair(before, after, i).status \in {"removed", "ambiguous"}
           /\ nb = 0 /\ na # 0 => CS!Pair(before, after, i).status \in {"added", "ambiguous"}
  <1>1. CS!Pair(before, after, i) =
          [identity |-> i, status |-> CASE nb > 1 \/ na > 1 -> "ambiguous" [] nb = 0 -> "added"
                                        [] na = 0 -> "removed" [] OTHER -> "matched"]
    <2>1. nb = CS!Cardinality(CS!Named(before, i)) /\ na = CS!Cardinality(CS!Named(after, i))
      BY SameCardinality
    <2> QED BY <2>1, Zenon DEF CS!Pair
  <1> QED BY <1>1

\* A fact makes the pair of its identity.
LEMMA FactIsPaired ==
    ASSUME NEW before, NEW after, NEW p, NEW s, <<p, s>> \in before \cup after
    PROVE  CS!Pair(before, after, <<p, s.name>>) \in CS!Pairs(before, after)
  <1> DEFINE f == <<p, s>>
  <1>1. f \in before \cup after /\ <<f[1], f[2].name>> = <<p, s.name>>
    OBVIOUS
  <1>2. CS!Pair(before, after, <<f[1], f[2].name>>) \in CS!Pairs(before, after)
    BY <1>1, Zenon DEF CS!Pairs
  <1> QED BY <1>1, <1>2

\* Complete version-pair evidence pairs every declaration that only one of the revisions has
\* as added, removed or ambiguous, never as matched (collectTypeScriptSymbolVersionPair,
\* pairVersionedSymbolDeclarations), if a provider finds finitely many in a text.
THEOREM PairsMissNothing ==
    ASSUME IsFiniteSet(Paths), Population \subseteq Paths, \A x : IsFiniteSet(SymbolsIn(x)),
           NEW b, NEW a
    PROVE  CS!PairsComplete(b, a)
  <1> DEFINE cs == CS!ChangeSetOf(b, a, b, a)
             B == CS!Snapshot(b).files \cap CS!ChangedPaths(cs).before
             A == CS!Snapshot(a).files \cap CS!ChangedPaths(cs).after
             before == CS!Facts(b, B)
             after == CS!Facts(a, A)
  <1> SUFFICES ASSUME CS!VersionPair(b, a).availability = "available"
               PROVE  /\ \A i \in Names(b) \ Names(a) : i[1] \notin CS!RenamedOut(b, a) =>
                            \E q \in CS!VersionPair(b, a).pairs : q.identity = i /\ q.status \in {"removed", "ambiguous"}
                      /\ \A i \in Names(a) \ Names(b) :
                            \E q \in CS!VersionPair(b, a).pairs : q.identity = i /\ q.status \in {"added", "ambiguous"}
    BY DEF CS!PairsComplete, Names
  <1>1. CS!VersionPair(b, a).pairs = CS!Pairs(before, after)
    BY AvailablePair
  <1>2. /\ B \subseteq Population /\ A \subseteq Population
        /\ \A p \in Population : b[p] # Absent /\ p \in CS!ChangedPaths(cs).before => p \in B
        /\ \A p \in Population : a[p] # Absent /\ p \in CS!ChangedPaths(cs).after => p \in A
    BY DEF CS!Snapshot
  <1> HIDE DEF A, B
  <1>3. ASSUME NEW i \in Names(b) \ Names(a), i[1] \notin CS!RenamedOut(b, a)
        PROVE  \E q \in CS!Pairs(before, after) : q.identity = i /\ q.status \in {"removed", "ambiguous"}
    <2>1. PICK p \in Population : b[p] # Absent /\ \E s \in SymbolsIn(b[p]) : i = <<p, s.name>>
      BY NameShape
    <2>2. PICK s \in SymbolsIn(b[p]) : i = <<p, s.name>>
      BY <2>1
    <2>3. b[p] # a[p]
      BY <1>3, <2>1, <2>2, NameThere
    <2>4. p \in B
      BY <1>2, <1>3, <2>1, <2>2, <2>3, ChangedPathsTaken
    <2>5. /\ Cardinality(CS!Named(before, i)) \in Nat \ {0} /\ Cardinality(CS!Named(after, i)) = 0
          /\ <<p, s>> \in before
      <3>1. <<p, s.name>> \notin Names(a)
        BY <1>3, <2>2
      <3> QED BY <1>2, <2>1, <2>2, <2>4, <3>1, OneSided
    <2>6. CS!Pair(before, after, i).identity = i /\ CS!Pair(before, after, i).status \in {"removed", "ambiguous"}
      BY <2>5, StatusOfOne
    <2>7. CS!Pair(before, after, i) \in CS!Pairs(before, after)
      BY <2>2, <2>5, FactIsPaired
    <2> QED BY <2>6, <2>7
  <1>4. ASSUME NEW i \in Names(a) \ Names(b)
        PROVE  \E q \in CS!Pairs(before, after) : q.identity = i /\ q.status \in {"added", "ambiguous"}
    <2>1. PICK p \in Population : a[p] # Absent /\ \E s \in SymbolsIn(a[p]) : i = <<p, s.name>>
      BY NameShape
    <2>2. PICK s \in SymbolsIn(a[p]) : i = <<p, s.name>>
      BY <2>1
    <2>3. b[p] # a[p]
      BY <1>4, <2>1, <2>2, NameThere
    <2>4. p \notin CS!RenamedOut(b, a)
      <3> SUFFICES ASSUME NEW r \in CS!RenameOf(b, a), r[1] = p PROVE FALSE
        BY DEF CS!RenamedOut
      <3>1. a[r[1]] = Absent
        BY RenamesPaired DEF CS!Renames
      <3> QED BY <2>1, <3>1
    <2>5. p \in A
      BY <1>2, <2>1, <2>3, <2>4, ChangedPathsTaken
    <2>6. /\ Cardinality(CS!Named(after, i)) \in Nat \ {0} /\ Cardinality(CS!Named(before, i)) = 0
          /\ <<p, s>> \in after
      BY <1>2, <1>4, <2>1, <2>2, <2>5, OneSided
    <2>7. CS!Pair(before, after, i).identity = i /\ CS!Pair(before, after, i).status \in {"added", "ambiguous"}
      BY <2>6, StatusOfOne
    <2>8. CS!Pair(before, after, i) \in CS!Pairs(before, after)
      BY <2>2, <2>6, FactIsPaired
    <2> QED BY <2>7, <2>8
  <1> QED BY <1>1, <1>3, <1>4

---------------------------------------------------------------------------
(* Symbol evidence (SymbolEvidence), for every input *)

SE == INSTANCE SymbolEvidence

\* What a version pair is (ChangeSets.VersionPair): a pair that was matched has its
\* facts in both revisions, an added or removed one in one of them only.
PairsMade(uses) ==
    \A p \in uses.pairs :
        LET in(r, f) == f \in SE!FactsOf(r) /\ SE!IdentityOf(f) = p.identity
            nowhere(r) == p.identity \notin SE!Identities(r)
        IN  /\ p.status \in {"matched", "added", "removed", "ambiguous"}
            /\ p.status = "matched" => in(uses.before, p.before) /\ in(uses.after, p.after)
            /\ p.status = "added" => nowhere(uses.before) /\ in(uses.after, p.after)
            /\ p.status = "removed" => in(uses.before, p.before) /\ nowhere(uses.after)

\* A module brings its own copy of the operator along.
LEMMA SameCount == \A S : SE!Cardinality(S) = Cardinality(S)
  BY DEF SE!Cardinality, Cardinality

\* Two different things are two.
LEMMA CardinalityOfTwo ==
    ASSUME NEW x, NEW y, x # y
    PROVE  SE!Cardinality({x, y}) = 2 /\ SE!Cardinality({x, y}) > 1
  <1>1. Cardinality({x}) = 1 /\ IsFiniteSet({x})
    BY FS_Singleton
  <1>2. Cardinality({x} \cup {y}) = 2
    BY <1>1, FS_AddElement
  <1>3. {x} \cup {y} = {x, y}
    OBVIOUS
  <1> QED BY <1>2, <1>3, SameCount

\* Where at most one is, the two are the same.
LEMMA CountOfTwo ==
    ASSUME NEW x, NEW y, SE!Cardinality({x, y}) <= 1
    PROVE  x = y
  <1> SUFFICES ASSUME x # y PROVE FALSE
    OBVIOUS
  <1>1. SE!Cardinality({x, y}) = 2
    BY CardinalityOfTwo
  <1> QED BY <1>1

\* A set of one has one member.
LEMMA CountOfOne ==
    ASSUME NEW S, IsFiniteSet(S), SE!Cardinality(S) = 1
    PROVE  \E x \in S : S = {x}
  BY FS_Singleton, SameCount

\* The pair of an identity that was observed.
LEMMA PairFound ==
    ASSUME NEW uses, NEW id, SE!PairOf(uses, id) # None
    PROVE  SE!PairOf(uses, id) \in uses.pairs /\ SE!PairOf(uses, id).identity = id
  BY DEF SE!PairOf

\* An identity that was observed was matched exactly when both revisions have it.
LEMMA ObservedWell ==
    ASSUME NEW uses, PairsMade(uses), NEW id,
           SE!ObservationFor(uses, id) \in {"matched", "rejected"}
    PROVE  SE!ObservationFor(uses, id) = "matched" <=>
              id \in SE!Identities(uses.before) /\ id \in SE!Identities(uses.after)
  <1> DEFINE p == SE!PairOf(uses, id)
  <1>1. p # None
    BY DEF SE!ObservationFor
  <1>2. p \in uses.pairs /\ p.identity = id
    BY <1>1, PairFound
  <1>3. p.status \in {"matched", "added", "removed", "ambiguous"}
    BY <1>2 DEF PairsMade
  <1>4. SE!ObservationFor(uses, id) = IF p.status \in {"added", "removed"} THEN "rejected" ELSE p.status
    BY <1>1 DEF SE!ObservationFor
  <1> HIDE DEF p
  <1>5. CASE p.status = "matched"
    <2>1. p.before \in SE!FactsOf(uses.before) /\ SE!IdentityOf(p.before) = id
          /\ p.after \in SE!FactsOf(uses.after) /\ SE!IdentityOf(p.after) = id
      BY <1>2, <1>5 DEF PairsMade
    <2> QED BY <1>4, <1>5, <2>1 DEF SE!Identities
  <1>6. CASE p.status \in {"added", "removed"}
    BY <1>2, <1>4, <1>6 DEF PairsMade
  <1> QED BY <1>3, <1>4, <1>5, <1>6

\* A sample that is available was seen completely, by one provider.
LEMMA AvailableSample ==
    ASSUME NEW o, SE!Sample(o).availability = "available"
    PROVE  /\ o.report.files # {}
           /\ SE!Complete(o.report.before) /\ SE!Complete(o.report.after)
           /\ o.report.before.provider = o.report.after.provider
           /\ SE!Sample(o).observed \in {"matched", "rejected"}
  <1>1. /\ o.report.files # {} /\ SE!Cardinality(SE!ProvidersOf(o.report)) <= 1
        /\ SE!CoverageAvailable(o.report) /\ SE!Sample(o).observed \in {"matched", "rejected"}
    BY DEF SE!Sample
  <1>2. SE!Complete(o.report.before) /\ SE!Complete(o.report.after)
    BY <1>1 DEF SE!CoverageAvailable
  <1>3. SE!ProvidersOf(o.report) = {o.report.before.provider, o.report.after.provider}
    BY <1>2 DEF SE!ProvidersOf, SE!Complete
  <1> QED BY <1>1, <1>2, <1>3, CountOfTwo

\* What a sample keeps of its observation.
LEMMA SampleFields ==
    ASSUME NEW o
    PROVE  /\ SE!Sample(o).observed = SE!ObservationFor(o.report, o.identity)
           /\ SE!Sample(o).expected = o.expected /\ SE!Sample(o).files = o.report.files
  BY DEF SE!Sample

\* What makes samples a profile that counts.
Earned(samples) ==
    /\ samples # <<>>
    /\ \A i, j \in DOMAIN samples : i # j => samples[i].id # samples[j].id
    /\ \A i \in DOMAIN samples :
          LET s == samples[i]
          IN  /\ SE!Scope(s) = SE!Scope(samples[1]) /\ s.family # "unknown"
              /\ s.availability = "available" /\ s.observed = s.expected
    /\ SE!Confirmed(samples, "matched") # {} /\ SE!Confirmed(samples, "rejected") # {}

\* A profile counts exactly when its samples are such.
LEMMA EligibleIsEarned ==
    ASSUME NEW samples
    PROVE  /\ SE!Profile(samples).eligible <=> Earned(samples)
           /\ samples # <<>> => SE!Profile(samples).scope = SE!Scope(samples[1])
  <1>1. samples # <<>> => SE!Profile(samples).scope = SE!Scope(samples[1])
    BY DEF SE!Profile
  <1>2. SE!Profile(samples).eligible <=> SE!Profile(samples).availability = "available"
    BY DEF SE!Profile
  <1>3. SE!Profile(samples).availability = "available" <=> Earned(samples)
    BY DEF SE!Profile, Earned
  <1> QED BY <1>1, <1>2, <1>3

\* A calibration profile that counts rests on complete observations of one population by one
\* provider, on a declaration that survived and one that did not, and on no expectation that
\* was disappointed (buildSymbolCalibrationProfile).
THEOREM ProfilesEarned ==
    ASSUME NEW observations, \A i \in DOMAIN observations : PairsMade(observations[i].report)
    PROVE  SE!EligibleEarned(observations)
  <1> DEFINE samples == [i \in DOMAIN observations |-> SE!Sample(observations[i])]
             profile == SE!Profile(samples)
             seen(o) == <<o.identity \in SE!Identities(o.report.before), o.identity \in SE!Identities(o.report.after)>>
  <1> SUFFICES ASSUME profile.eligible
               PROVE  /\ \A i \in DOMAIN observations :
                            LET o == observations[i]
                            IN  /\ SE!Complete(o.report.before) /\ SE!Complete(o.report.after)
                                /\ o.report.before.provider = o.report.after.provider
                                /\ o.report.files = profile.scope.files /\ profile.scope.files # {}
                                /\ (o.expected = "matched") = (seen(o) = <<TRUE, TRUE>>)
                      /\ \E i, j \in DOMAIN observations :
                            seen(observations[i]) = <<TRUE, TRUE>> /\ seen(observations[j]) # <<TRUE, TRUE>>
    BY DEF SE!EligibleEarned
  <1>1. Earned(samples) /\ profile.scope = SE!Scope(samples[1])
    BY EligibleIsEarned DEF Earned
  <1>2. ASSUME NEW i \in DOMAIN observations
        PROVE  LET o == observations[i]
               IN  /\ SE!Complete(o.report.before) /\ SE!Complete(o.report.after)
                   /\ o.report.before.provider = o.report.after.provider
                   /\ o.report.files = profile.scope.files /\ profile.scope.files # {}
                   /\ o.expected = "matched" <=> seen(o) = <<TRUE, TRUE>>
                   /\ o.expected = SE!Sample(o).observed
    <2> DEFINE o == observations[i]
    <2>1. samples[i] = SE!Sample(o) /\ i \in DOMAIN samples
      OBVIOUS
    <2>2. /\ SE!Scope(SE!Sample(o)) = profile.scope
          /\ SE!Sample(o).availability = "available" /\ SE!Sample(o).observed = SE!Sample(o).expected
      BY <1>1, <2>1 DEF Earned
    <2>3. o.report.files = profile.scope.files
      BY <2>2, SampleFields DEF SE!Scope
    <2>4. o.expected = SE!ObservationFor(o.report, o.identity)
          /\ SE!ObservationFor(o.report, o.identity) \in {"matched", "rejected"}
      BY <2>2, SampleFields, AvailableSample
    <2>5. o.expected = "matched" <=>
             o.identity \in SE!Identities(o.report.before) /\ o.identity \in SE!Identities(o.report.after)
      BY <2>4, ObservedWell
    <2>6. seen(o) = <<TRUE, TRUE>> <=>
             o.identity \in SE!Identities(o.report.before) /\ o.identity \in SE!Identities(o.report.after)
      <3> DEFINE A == o.identity \in SE!Identities(o.report.before)
                 B == o.identity \in SE!Identities(o.report.after)
      <3>1. A \in BOOLEAN /\ B \in BOOLEAN
        OBVIOUS
      <3> HIDE DEF A, B
      <3>2. <<A, B>> = <<TRUE, TRUE>> <=> A /\ B
        BY <3>1
      <3> QED BY <3>2 DEF A, B
    <2> QED BY <2>2, <2>3, <2>4, <2>5, <2>6, AvailableSample, SampleFields
  <1>3. PICK i \in DOMAIN samples : samples[i].expected = "matched"
    BY <1>1 DEF Earned, SE!Confirmed
  <1>4. PICK j \in DOMAIN samples : samples[j].expected = "rejected"
    BY <1>1 DEF Earned, SE!Confirmed
  <1>5. seen(observations[i]) = <<TRUE, TRUE>>
    <2>1. observations[i].expected = "matched"
      BY <1>3, SampleFields
    <2> QED BY <1>2, <2>1
  <1>6. seen(observations[j]) # <<TRUE, TRUE>>
    <2>1. observations[j].expected = "rejected"
      BY <1>4, SampleFields
    <2> QED BY <1>2, <2>1
  <1> HIDE DEF seen
  <1>7. \A k \in DOMAIN observations :
           (observations[k].expected = "matched") = (seen(observations[k]) = <<TRUE, TRUE>>)
    BY <1>2
  <1> QED BY <1>2, <1>5, <1>6, <1>7

\* An identity that is asked about once is judged by its pair.
LEMMA ItemOf ==
    ASSUME NEW uses, NEW inputs, NEW store, NEW i \in DOMAIN inputs,
           SE!Evaluate(uses, inputs, store).items[i].availability = "available"
    PROVE  SE!Evaluate(uses, inputs, store).items[i] = SE!EvaluateItem(uses, inputs[i], store)
  <1> DEFINE twice(k) == \E j \in DOMAIN inputs : j # k /\ inputs[j].identity = inputs[k].identity
             items == [k \in DOMAIN inputs |->
                         IF twice(k) THEN SE!Withheld("partial") ELSE SE!EvaluateItem(uses, inputs[k], store)]
  <1>1. SE!Evaluate(uses, inputs, store).items = items
    BY DEF SE!Evaluate
  <1>2. items[i] = IF twice(i) THEN SE!Withheld("partial") ELSE SE!EvaluateItem(uses, inputs[i], store)
    OBVIOUS
  <1>3. SE!Withheld("partial").availability # "available"
    BY DEF SE!Withheld
  <1> HIDE DEF items, twice
  <1> QED BY <1>1, <1>2, <1>3

\* A profile that is found is the only one of its scope that counts.
LEMMA ProfileFound ==
    ASSUME NEW store, IsFiniteSet(store), NEW scope, SE!ProfileFor(store, scope) # None
    PROVE  /\ SE!ProfileFor(store, scope) \in store
           /\ SE!ProfileFor(store, scope).eligible /\ SE!ProfileFor(store, scope).scope = scope
           /\ \A q \in store : q.eligible /\ q.scope = scope => q = SE!ProfileFor(store, scope)
  <1> DEFINE matches == {p \in store : p.eligible /\ p.scope = scope}
  <1>1. SE!Cardinality(matches) = 1 /\ SE!ProfileFor(store, scope) = CHOOSE p \in matches : TRUE
    BY DEF SE!ProfileFor
  <1>2. IsFiniteSet(matches)
    BY FS_Subset
  <1> HIDE DEF matches
  <1>3. PICK x \in matches : matches = {x}
    BY <1>1, <1>2, CountOfOne
  <1>4. SE!ProfileFor(store, scope) = x
    BY <1>1, <1>3
  <1> QED BY <1>3, <1>4 DEF matches

\* The scope a declaration is asked about in, what its metric counts, and the
\* item that gives it.
ScopeAsked(uses, provider, kind) ==
    [language |-> uses.language, provider |-> provider, family |-> SE!Family(kind), files |-> uses.files]
Counted(fact, input) ==
    [availability |-> "available", consumers |-> SE!Cardinality(fact.refs \ {fact.file}),
     imported |-> SE!Cardinality(input.consumers \ {fact.file})]
Given(metric) == [availability |-> "available", metric |-> metric]

\* What an item that is available rests on.
LEMMA AvailableItem ==
    ASSUME NEW uses, NEW input, NEW store, SE!EvaluateItem(uses, input, store).availability = "available"
    PROVE  LET p == SE!PairOf(uses, input.identity)
               fact == SE!SelectedFact(p)
               source == SE!SelectedReport(uses, p)
               other == SE!OtherReport(uses, p)
               scope == ScopeAsked(uses, source.provider, fact.kind)
               profile == SE!ProfileFor(store, scope)
           IN  /\ p # None /\ fact # None /\ source # None /\ profile # None
               /\ SE!ProviderReasons(uses, source, other) = {}
               /\ SE!Metric(fact, source, input, profile, scope).availability = "available"
               /\ SE!EvaluateItem(uses, input, store) =
                    Given(SE!Metric(fact, source, input, profile, scope))
  <1> DEFINE p == SE!PairOf(uses, input.identity)
             fact == IF p = None THEN None ELSE SE!SelectedFact(p)
             source == SE!SelectedReport(uses, p)
             other == SE!OtherReport(uses, p)
             scope == ScopeAsked(uses, source.provider, fact.kind)
             profile == IF source = None THEN None ELSE SE!ProfileFor(store, scope)
             reasons == SE!ProviderReasons(uses, source, other)
                          \cup SE!Why(input.numbers # "good" \/ fact.public = "unknown", "partial")
                          \cup SE!Why(profile = None, IF source = None THEN "unavailable" ELSE "partial")
             metric == SE!Metric(fact, source, input, profile, scope)
             item == SE!EvaluateItem(uses, input, store)
  <1>1. item = CASE p = None -> SE!Withheld("unavailable")
                 [] p # None /\ fact = None -> SE!Withheld("partial")
                 [] p # None /\ fact # None ->
                      IF reasons # {} THEN SE!Withheld(SE!AvailabilityOf(reasons))
                      ELSE [availability |-> metric.availability, metric |-> metric]
    BY Zenon DEF SE!EvaluateItem, ScopeAsked
  <1>2. \A a : SE!Withheld(a).availability = a
    BY DEF SE!Withheld
  <1>3. reasons # {} => SE!AvailabilityOf(reasons) # "available"
    BY DEF SE!AvailabilityOf
  <1> HIDE DEF reasons, metric, item, fact, p
  <1>4. p # None /\ fact # None /\ reasons = {} /\ item = [availability |-> metric.availability, metric |-> metric]
    BY <1>1, <1>2, <1>3 DEF item
  <1>5. metric.availability = "available"
    BY <1>4 DEF item
  <1>6. SE!ProviderReasons(uses, source, other) = {} /\ profile # None
    BY <1>4 DEF reasons, SE!Why
  <1>7. source # None /\ profile = SE!ProfileFor(store, scope)
    BY <1>6
  <1>8. fact = SE!SelectedFact(p)
    BY <1>4 DEF fact
  <1>9. item = Given(metric)
    BY <1>4, <1>5 DEF Given
  <1>10. /\ p # None /\ fact # None /\ source # None /\ profile # None
         /\ SE!ProviderReasons(uses, source, other) = {}
    BY <1>4, <1>6, <1>7
  <1> QED BY <1>5, <1>7, <1>8, <1>9, <1>10 DEF p, item, metric

\* Without a reason against the providers both revisions were seen completely, by the same one.
LEMMA NoProviderReasons ==
    ASSUME NEW uses, NEW x, NEW y, SE!ProviderReasons(uses, x, y) = {}
    PROVE  SE!Complete(x) /\ SE!Complete(y) /\ x.provider = y.provider
  <1> DEFINE both == {x, y} \ {None}
  <1>1. None \notin {x, y}
    BY DEF SE!ProviderReasons, SE!Why
  <1>2. {r.availability : r \in both} \subseteq {"available"}
    BY DEF SE!ProviderReasons
  <1>3. /\ x.declarations = "complete" /\ x.references = "complete"
        /\ y.declarations = "complete" /\ y.references = "complete"
    BY DEF SE!ProviderReasons, SE!Why
  <1>4. x.provider = y.provider
    <2> SUFFICES ASSUME x.provider # y.provider PROVE FALSE
      OBVIOUS
    <2>1. {r.provider : r \in both} = {x.provider} \cup {y.provider}
      BY <1>1
    <2>2. {x.provider} \cup {y.provider} = {x.provider, y.provider}
      OBVIOUS
    <2> HIDE DEF both
    <2>3. SE!Cardinality({r.provider : r \in both}) > 1
      BY <2>1, <2>2, CardinalityOfTwo
    <2>4. SE!Why(SE!Cardinality({r.provider : r \in both}) > 1, "partial") = {"partial"}
      BY <2>3 DEF SE!Why
    <2>5. SE!Why(SE!Cardinality({r.provider : r \in both}) > 1, "partial") \subseteq SE!ProviderReasons(uses, x, y)
      BY DEF SE!ProviderReasons, both
    <2> QED BY <2>4, <2>5
  <1> QED BY <1>1, <1>2, <1>3, <1>4 DEF SE!Complete

\* A metric that is available counts the files that refer to the declaration.
LEMMA MetricCounts ==
    ASSUME NEW fact, NEW source, NEW input, NEW profile, NEW scope,
           SE!Metric(fact, source, input, profile, scope).availability = "available"
    PROVE  SE!Metric(fact, source, input, profile, scope) =
             Counted(fact, input)
  BY DEF SE!Metric, Counted

\* The fact that is judged is of the identity, in the report that is asked.
LEMMA SelectedThere ==
    ASSUME NEW uses, PairsMade(uses), NEW id, SE!PairOf(uses, id) # None,
           SE!SelectedFact(SE!PairOf(uses, id)) # None
    PROVE  /\ SE!SelectedFact(SE!PairOf(uses, id)) \in SE!FactsOf(uses.before) \cup SE!FactsOf(uses.after)
           /\ SE!IdentityOf(SE!SelectedFact(SE!PairOf(uses, id))) = id
  <1> DEFINE p == SE!PairOf(uses, id)
  <1>1. p \in uses.pairs /\ p.identity = id
    BY PairFound
  <1> HIDE DEF p
  <1>2. p.status \in {"matched", "added", "removed", "ambiguous"}
    BY <1>1 DEF PairsMade
  <1>3. CASE p.status = "matched"
    BY <1>1, <1>3 DEF PairsMade, SE!SelectedFact, p
  <1>4. CASE p.status = "added"
    BY <1>1, <1>4 DEF PairsMade, SE!SelectedFact, p
  <1>5. CASE p.status = "removed"
    BY <1>1, <1>5 DEF PairsMade, SE!SelectedFact, p
  <1>6. CASE p.status = "ambiguous"
    BY <1>6 DEF SE!SelectedFact, p
  <1> QED BY <1>2, <1>3, <1>4, <1>5, <1>6

\* The profiles of a store: one that counts has the scope of its samples.
StoreKept(store) == IsFiniteSet(store) /\ \A q \in store : q.eligible => \E s : q.scope = SE!Scope(s)

\* An item that is available rests on complete reports, on a fact of the identity, and on
\* the one profile of its scope that counts.
LEMMA BackedItem ==
    ASSUME NEW uses, PairsMade(uses), NEW input, NEW store, StoreKept(store),
           SE!EvaluateItem(uses, input, store).availability = "available"
    PROVE  LET p == SE!PairOf(uses, input.identity)
               fact == SE!SelectedFact(p)
               scope == ScopeAsked(uses, uses.before.provider, input.identity[2])
               profile == SE!ProfileFor(store, scope)
           IN  /\ SE!Complete(uses.before) /\ SE!Complete(uses.after)
               /\ fact \in uses.before.facts \cup uses.after.facts
               /\ SE!IdentityOf(fact) = input.identity
               /\ profile \in store /\ profile.eligible /\ profile.scope = scope
               /\ \A q \in store : q.eligible /\ q.scope = scope => q = profile
               /\ SE!EvaluateItem(uses, input, store) =
                    Given(Counted(fact, input))
  <1> DEFINE p == SE!PairOf(uses, input.identity)
             fact == SE!SelectedFact(p)
             source == SE!SelectedReport(uses, p)
             other == SE!OtherReport(uses, p)
             scope == ScopeAsked(uses, source.provider, fact.kind)
             profile == SE!ProfileFor(store, scope)
             metric == SE!Metric(fact, source, input, profile, scope)
  <1>2. /\ p # None /\ fact # None /\ source # None /\ profile # None
        /\ SE!ProviderReasons(uses, source, other) = {}
        /\ metric.availability = "available"
        /\ SE!EvaluateItem(uses, input, store) = Given(metric)
    BY AvailableItem
  <1>6. fact \in SE!FactsOf(uses.before) \cup SE!FactsOf(uses.after) /\ SE!IdentityOf(fact) = input.identity
    BY <1>2, SelectedThere
  <1>4. \/ source = uses.before /\ other = uses.after
        \/ source = uses.after /\ other = uses.before
    BY DEF SE!SelectedReport, SE!OtherReport
  <1> HIDE DEF metric, profile, scope, fact, p, source, other
  <1>3. SE!Complete(source) /\ SE!Complete(other) /\ source.provider = other.provider
    BY <1>2, NoProviderReasons
  <1>5. SE!Complete(uses.before) /\ SE!Complete(uses.after) /\ source.provider = uses.before.provider
    BY <1>3, <1>4
  <1>7. fact \in uses.before.facts \cup uses.after.facts
    BY <1>5, <1>6 DEF SE!FactsOf, SE!Complete
  <1>8. metric = Counted(fact, input)
    BY <1>2, MetricCounts DEF metric
  <1>9. /\ profile \in store /\ profile.eligible /\ profile.scope = scope
        /\ \A q \in store : q.eligible /\ q.scope = scope => q = profile
    BY <1>2, ProfileFound DEF profile, StoreKept
  <1>10. fact.kind = input.identity[2]
    BY <1>6 DEF SE!IdentityOf
  <1>11. scope = ScopeAsked(uses, uses.before.provider, input.identity[2])
    BY <1>5, <1>10 DEF scope
  <1>12. profile = SE!ProfileFor(store, scope)
    BY DEF profile
  <1>13. SE!EvaluateItem(uses, input, store) =
           Given(Counted(fact, input))
    BY <1>2, <1>8
  <1>14. fact = SE!SelectedFact(SE!PairOf(uses, input.identity))
    BY DEF fact, p
  <1> QED BY <1>5, <1>6, <1>7, <1>9, <1>11, <1>12, <1>13, <1>14

\* A number is given only for a declaration of reports that are complete, under the one
\* calibration of its scope, and it counts the other files that refer to the declaration
\* (evaluateSymbolScopeShadowEvidence).  The pairs are those of a version pair; the profiles
\* that count have the scope of a sample, as writeProfile keeps them (RecordKeeps).
THEOREM NumbersBacked ==
    ASSUME NEW uses, PairsMade(uses), NEW inputs, NEW store, StoreKept(store)
    PROVE  SE!EvidenceBacked(uses, inputs, store)
  <1> SUFFICES ASSUME NEW said \in {SE!Evaluate(uses, inputs, store)},
                      NEW calibrations \in {{p \in store : p.eligible /\ p.scope.files = uses.files
                                                             /\ p.scope.language = uses.language}},
                      NEW i \in DOMAIN inputs, NEW item \in {said.items[i]},
                      item.availability = "available"
               PROVE  /\ SE!Complete(uses.before) /\ SE!Complete(uses.after)
                      /\ calibrations # {}
                      /\ \A p, q \in calibrations :
                            /\ p.scope = q.scope /\ p.scope.provider = uses.before.provider
                            /\ p.scope.family = SE!Family(inputs[i].identity[2])
                            => p = q
                      /\ \E f \in uses.before.facts \cup uses.after.facts :
                            SE!IdentityOf(f) = inputs[i].identity
                              /\ item.metric.consumers = SE!Cardinality(f.refs \ {f.file})
    BY Zenon DEF SE!EvidenceBacked
  <1> DEFINE input == inputs[i]
             fact == SE!SelectedFact(SE!PairOf(uses, input.identity))
             scope == ScopeAsked(uses, uses.before.provider, input.identity[2])
             profile == SE!ProfileFor(store, scope)
  <1>1. item = SE!EvaluateItem(uses, inputs[i], store)
    BY ItemOf
  <1>2. calibrations = {p \in store : p.eligible /\ p.scope.files = uses.files /\ p.scope.language = uses.language}
    OBVIOUS
  <1> HIDE DEF input
  <1>3. /\ SE!Complete(uses.before) /\ SE!Complete(uses.after)
        /\ fact \in uses.before.facts \cup uses.after.facts
        /\ SE!IdentityOf(fact) = input.identity
        /\ profile \in store /\ profile.eligible /\ profile.scope = scope
        /\ \A q \in store : q.eligible /\ q.scope = scope => q = profile
        /\ item = Given(Counted(fact, input))
    BY <1>1, BackedItem DEF input
  <1> HIDE DEF fact, profile
  <1>4. profile \in calibrations
    BY <1>2, <1>3 DEF ScopeAsked
  <1>5. ASSUME NEW x \in calibrations, NEW y \in calibrations, x.scope = y.scope,
               x.scope.provider = uses.before.provider, x.scope.family = SE!Family(input.identity[2])
        PROVE  x = y
    <2>1. PICK s : x.scope = SE!Scope(s)
      BY <1>2 DEF StoreKept
    <2>2. x.scope = scope
      BY <1>2, <1>5, <2>1 DEF SE!Scope, ScopeAsked
    <2> QED BY <1>2, <1>3, <1>5, <2>2
  <1>6. item.metric.consumers = SE!Cardinality(fact.refs \ {fact.file})
    BY <1>3 DEF Given, Counted
  <1>7. \A p, q \in calibrations :
           /\ p.scope = q.scope /\ p.scope.provider = uses.before.provider
           /\ p.scope.family = SE!Family(inputs[i].identity[2])
           => p = q
    BY <1>5 DEF input
  <1>8. \E f \in uses.before.facts \cup uses.after.facts :
           SE!IdentityOf(f) = inputs[i].identity
             /\ item.metric.consumers = SE!Cardinality(f.refs \ {f.file})
    BY <1>3, <1>6 DEF input
  <1> QED BY <1>3, <1>4, <1>7, <1>8

\* What is recorded is kept: a store of such profiles stays one.
LEMMA RecordKeeps ==
    ASSUME NEW store, StoreKept(store), NEW observations
    PROVE  StoreKept(SE!Record(store, observations))
  <1> DEFINE samples == [i \in DOMAIN observations |-> SE!Sample(observations[i])]
             profile == SE!Profile(samples)
             kept == {q \in store : ~SE!SameId(profile, q)}
  <1>1. SE!Record(store, observations) = kept \cup {profile}
    BY DEF SE!Record
  <1>2. IsFiniteSet(kept)
    BY FS_Subset DEF StoreKept
  <1> HIDE DEF samples
  <1>3. profile.eligible => \E s : profile.scope = SE!Scope(s)
    BY EligibleIsEarned DEF Earned
  <1>4. \A q \in kept : q.eligible => \E s : q.scope = SE!Scope(s)
    BY DEF StoreKept
  <1> HIDE DEF kept, profile
  <1>5. IsFiniteSet(kept \cup {profile})
    BY <1>2, FS_AddElement
  <1> QED BY <1>1, <1>3, <1>4, <1>5 DEF StoreKept

\* More calibration samples may withhold a number, they never change one (writeProfile,
\* profileFor).
THEOREM SamplesOnlyWithhold ==
    ASSUME NEW store, StoreKept(store), NEW observations, NEW uses, PairsMade(uses), NEW input
    PROVE  SE!MoreSamplesSafe(store, observations, uses, input)
  <1> DEFINE more == SE!Record(store, observations)
             old == SE!EvaluateItem(uses, input, store)
             new == SE!EvaluateItem(uses, input, more)
  <1> SUFFICES ASSUME old.availability = "available", new.availability = "available"
               PROVE  old = new
    BY DEF SE!MoreSamplesSafe
  <1>1. StoreKept(more)
    BY RecordKeeps
  <1> DEFINE fact == SE!SelectedFact(SE!PairOf(uses, input.identity))
             value == Given(Counted(fact, input))
  <1>2. old = value
    BY BackedItem
  <1> HIDE DEF more
  <1>3. new = value
    BY <1>1, BackedItem
  <1> QED BY <1>2, <1>3

\* The order of two samples decides nothing about the profile (buildSymbolCalibrationProfile).
THEOREM SampleOrderIsFree ==
    ASSUME NEW a, NEW b
    PROVE  SE!OrderFree(a, b)
  <1> DEFINE earned(x, y) ==
          /\ x.id # y.id /\ SE!Scope(x) = SE!Scope(y)
          /\ \A s \in {x, y} : s.family # "unknown" /\ s.availability = "available" /\ s.observed = s.expected
          /\ \E s \in {x, y} : s.expected = "matched" /\ s.observed = "matched"
          /\ \E s \in {x, y} : s.expected = "rejected" /\ s.observed = "rejected"
  <1>1. ASSUME NEW x, NEW y PROVE Earned(<<x, y>>) <=> earned(x, y)
    <2> DEFINE samples == <<x, y>>
    <2>1. DOMAIN samples = {1, 2} /\ samples[1] = x /\ samples[2] = y /\ samples # <<>>
      OBVIOUS
    <2> HIDE DEF samples
    <2>2. (\A i, j \in DOMAIN samples : i # j => samples[i].id # samples[j].id) <=> x.id # y.id
      BY <2>1
    <2>3. ASSUME NEW outcome
          PROVE  SE!Confirmed(samples, outcome) # {}
                   <=> \E s \in {x, y} : s.expected = outcome /\ s.observed = outcome
      BY <2>1 DEF SE!Confirmed
    <2>4. (\A i \in DOMAIN samples :
              LET s == samples[i]
              IN  /\ SE!Scope(s) = SE!Scope(samples[1]) /\ s.family # "unknown"
                  /\ s.availability = "available" /\ s.observed = s.expected)
            <=> /\ SE!Scope(x) = SE!Scope(y)
                /\ \A s \in {x, y} : s.family # "unknown" /\ s.availability = "available" /\ s.observed = s.expected
      BY <2>1
    <2>5. (SE!Confirmed(samples, "matched") # {} <=> \E s \in {x, y} : s.expected = "matched" /\ s.observed = "matched")
          /\ (SE!Confirmed(samples, "rejected") # {} <=> \E s \in {x, y} : s.expected = "rejected" /\ s.observed = "rejected")
      BY <2>3
    <2>6. Earned(samples) <=> earned(x, y)
      BY <2>1, <2>2, <2>4, <2>5 DEF Earned
    <2> QED BY <2>6 DEF samples
  <1>2. \A x, y : earned(x, y) <=> earned(y, x)
    OBVIOUS
  <1> HIDE DEF earned
  <1>3. \A x, y : Earned(<<x, y>>) <=> Earned(<<y, x>>)
    BY <1>1, <1>2
  <1>4. \A samples : SE!Profile(samples).eligible \in BOOLEAN
    BY DEF SE!Profile
  <1>5. SE!Profile(<<SE!Sample(a), SE!Sample(b)>>).eligible <=> SE!Profile(<<SE!Sample(b), SE!Sample(a)>>).eligible
    BY <1>3, EligibleIsEarned
  <1> QED BY <1>4, <1>5 DEF SE!OrderFree

\* A symbol is admitted only when the version pair knows a declaration of its name in both
\* revisions, with complete references and a calibration (assessSymbolScopeAdmissions,
\* diffCommand); a coverage is complete, partial or unavailable, never "available".
THEOREM AdmissionIsKnown ==
    ASSUME NEW uses, uses.references # "available", NEW fact, NEW scripted,
           NEW head, PairsMade(head), NEW store
    PROVE  SE!AdmittedIsKnown(uses, fact, scripted, head, store)
  <1> DEFINE pairs == IF scripted /\ head.availability = "available" THEN head ELSE None
             e == SE!PairEvidence(pairs, uses.language, fact.file, fact.name)
             parts == {IF e.before THEN "available" ELSE "unavailable",
                       IF e.stable THEN "available" ELSE "partial",
                       SE!Governed(uses.references),
                       IF fact.public # "unknown" THEN "available" ELSE "unavailable",
                       IF e.common THEN "available" ELSE "unavailable",
                       IF store # {} THEN "available" ELSE "partial"}
             there(r) == \E f \in SE!FactsOf(r) : f.file = fact.file /\ f.name = fact.name
  <1> SUFFICES ASSUME SE!DiffAdmission(uses, fact, scripted, head, store) = "available"
               PROVE  /\ fact.file \in head.files
                      /\ there(head.before) /\ there(head.after)
                      /\ uses.references = "complete" /\ store # {}
    BY DEF SE!AdmittedIsKnown
  <1>1. SE!All(parts) = "available"
    BY Zenon DEF SE!DiffAdmission, SE!Admission
  <1> HIDE DEF e
  <1>2. parts = {"available"}
    <2> HIDE DEF parts
    <2> QED BY <1>1 DEF SE!All
  <1>3. e.before /\ e.stable /\ e.common /\ SE!Governed(uses.references) = "available" /\ store # {}
    BY <1>2
  <1>4. uses.references = "complete"
    BY <1>3 DEF SE!Governed
  <1> DEFINE usable == /\ pairs # None /\ pairs.language = uses.language
                       /\ pairs.availability = "available"
                       /\ pairs.before # None /\ pairs.after # None
             named(f) == f # None /\ f.file = fact.file /\ f.name = fact.name
  <1>5. /\ usable /\ fact.file \in pairs.files
        /\ \E f \in pairs.before.facts : named(f)
        /\ \E p \in pairs.pairs : p.status = "matched" /\ named(p.after)
    BY <1>3 DEF e, SE!PairEvidence
  <1>6. pairs = head
    BY <1>5
  <1> HIDE DEF pairs
  <1>7. there(head.before)
    BY <1>5, <1>6 DEF SE!FactsOf
  <1>8. there(head.after)
    <2>1. PICK p \in head.pairs : p.status = "matched" /\ named(p.after)
      BY <1>5, <1>6
    <2>2. p.after \in SE!FactsOf(head.after)
      BY <2>1 DEF PairsMade
    <2> QED BY <2>1, <2>2
  <1> QED BY <1>3, <1>4, <1>5, <1>6, <1>7, <1>8

\* Every language that was asked for is answered for, and no answer of a provider stands next
\* to one without (SymbolUseServiceLive).
THEOREM LanguagesAnswered ==
    ASSUME NEW languages, NEW tools, NEW providers, \A p \in providers : p.id # None
    PROVE  SE!EveryLanguageAnswered(languages, providers, tools)
  <1> DEFINE usable == {p \in providers : p.languages \cap languages # {} /\ SE!Usable(p, tools)}
             covered == UNION {p.languages : p \in usable}
             asked == {y \in languages \X usable : y[1] \in y[2].languages}
             answered == {[language |-> x[1], provider |-> x[2].id] : x \in asked}
             empty == {[language |-> l, provider |-> None] : l \in languages \ covered}
             reports == SE!Collect(languages, providers, tools)
  <1>1. reports = answered \cup empty
    BY DEF SE!Collect
  <1>2. ASSUME NEW r \in answered
        PROVE  r.language \in languages /\ r.language \in covered /\ r.provider # None
    <2>1. PICK x \in asked : r = [language |-> x[1], provider |-> x[2].id]
      OBVIOUS
    <2>2. x[1] \in languages /\ x[2] \in usable /\ x[1] \in x[2].languages
      OBVIOUS
    <2> QED BY <2>1, <2>2
  <1>3. ASSUME NEW r \in empty
        PROVE  r.language \in languages /\ r.language \notin covered /\ r.provider = None
    OBVIOUS
  <1>4. ASSUME NEW l \in languages
        PROVE  \E r \in answered \cup empty : r.language = l
    <2>1. CASE l \in covered
      <3>1. PICK p \in usable : l \in p.languages
        BY <2>1
      <3>2. PICK x : x = <<l, p>>
        OBVIOUS
      <3>3. x \in asked /\ x[1] = l
        BY <3>1, <3>2
      <3> HIDE DEF asked
      <3>4. [language |-> x[1], provider |-> x[2].id] \in answered
        BY <3>3
      <3> HIDE DEF answered
      <3> QED BY <3>3, <3>4
    <2>2. CASE l \notin covered
      <3>1. [language |-> l, provider |-> None] \in empty
        BY <2>2
      <3> HIDE DEF empty
      <3> QED BY <3>1
    <2> QED BY <2>1, <2>2
  <1> HIDE DEF answered, empty, covered, reports
  <1>5. {r.language : r \in reports} = languages
    BY <1>1, <1>2, <1>3, <1>4
  <1>6. \A r, q \in reports : r.language = q.language => (r.provider = None) = (q.provider = None)
    BY <1>1, <1>2, <1>3
  <1> QED BY <1>5, <1>6 DEF SE!EveryLanguageAnswered, reports

\* A file that is not asked about has no consumer the baseline knows of
\* (prefilterStaticBoundEmpty).
THEOREM NobodyOverlooked ==
    ASSUME NEW files, NEW metrics, IsFiniteSet(DOMAIN metrics), NEW implicit, NEW go
    PROVE  SE!NothingFilteredAway(files, metrics, implicit, go)
  <1> SUFFICES ASSUME \A f \in DOMAIN metrics : metrics[f].inDegree = SE!Cardinality(SE!StaticConsumers({f}, metrics)),
                      NEW f \in files \ SE!Prefilter(files, metrics, implicit, go)
               PROVE  /\ SE!StaticConsumers({f}, metrics) = {}
                      /\ \A e \in implicit : e[2] # f
                      /\ \A g \in DOMAIN metrics \ {f} :
                            {f, g} \subseteq go /\ metrics[g].production /\ metrics[f].production
                              => metrics[g].dir # metrics[f].dir
    BY DEF SE!NothingFilteredAway
  <1>1. ~SE!KeptProfile(files, metrics, implicit, go, f)
    BY DEF SE!Prefilter
  <1>2. f \in DOMAIN metrics /\ ~(metrics[f].inDegree > 0) /\ implicit = {}
    BY <1>1 DEF SE!KeptProfile
  <1>3. SE!StaticConsumers({f}, metrics) = {}
    <2> DEFINE S == SE!StaticConsumers({f}, metrics)
    <2>1. IsFiniteSet(S)
      BY FS_Subset DEF SE!StaticConsumers
    <2>2. Cardinality(S) \in Nat /\ ~(Cardinality(S) > 0)
      BY <1>2, <2>1, SameCount, FS_CardinalityType
    <2> HIDE DEF S
    <2>3. S = {}
      BY <2>1, <2>2, FS_EmptySet
    <2> QED BY <2>3 DEF S
  <1>4. ASSUME NEW g \in DOMAIN metrics \ {f}, {f, g} \subseteq go, metrics[g].production, metrics[f].production,
               metrics[g].dir = metrics[f].dir
        PROVE  FALSE
    <2> DEFINE near == {h \in DOMAIN metrics \cap go : metrics[h].production /\ metrics[h].dir = metrics[f].dir}
    <2>1. ~(SE!Cardinality(near) > 1)
      BY <1>1, <1>4 DEF SE!KeptProfile
    <2>2. {f, g} \subseteq near
      BY <1>2, <1>4
    <2>3. IsFiniteSet(near)
      BY FS_Subset
    <2> HIDE DEF near
    <2>4. IsFiniteSet({f, g}) /\ Cardinality({f, g}) <= Cardinality(near) /\ Cardinality(near) \in Nat
      BY <2>2, <2>3, FS_Subset, FS_CardinalityType
    <2>5. Cardinality({f, g}) = 2
      BY CardinalityOfTwo, SameCount
    <2> QED BY <2>1, <2>4, <2>5, SameCount
  <1> QED BY <1>2, <1>3, <1>4

---------------------------------------------------------------------------
(* Rule scripts (Scripts), for every input *)

SX == INSTANCE Scripts

\* Facts as createProjectFacts builds them.
FactsMade(facts) == facts = [of |-> facts.of, classified |-> facts.classified, protects |-> facts.protects]

\* An authority of the rule's own is added to those of the project and changes none of them.
LEMMA LocalKeeps ==
    ASSUME NEW facts, FactsMade(facts), NEW authority, SX!LocalAuthority(facts, authority).is = "ok"
    PROVE  LET local == SX!LocalAuthority(facts, authority).facts
               own == IF authority = None THEN {} ELSE {authority.id}
           IN  /\ local.of = facts.of /\ local.classified = facts.classified
               /\ DOMAIN local.protects = DOMAIN facts.protects \cup own
               /\ own \cap DOMAIN facts.protects = {}
               /\ \A a \in DOMAIN facts.protects : local.protects[a] = facts.protects[a]
               /\ \A a \in own : local.protects[a] = authority.paths \cap facts.classified
  <1>1. CASE authority = None
    BY <1>1 DEF SX!LocalAuthority
  <1>2. CASE authority # None
    <2> DEFINE protects == [a \in DOMAIN facts.protects \cup {authority.id} |->
                              IF a = authority.id THEN authority.paths \cap facts.classified ELSE facts.protects[a]]
               local == [facts EXCEPT !.protects = protects]
    <2>1. authority.id \notin DOMAIN facts.protects
          /\ SX!LocalAuthority(facts, authority) = [is |-> "ok", facts |-> local]
      BY <1>2 DEF SX!LocalAuthority
    <2>2. local.of = facts.of /\ local.classified = facts.classified /\ local.protects = protects
      <3> HIDE DEF protects
      <3> QED BY DEF FactsMade
    <2>3. SX!LocalAuthority(facts, authority).facts = local
      BY <2>1
    <2> HIDE DEF local
    <2>4. DOMAIN protects = DOMAIN facts.protects \cup {authority.id}
      OBVIOUS
    <2>5. /\ \A a \in DOMAIN facts.protects : protects[a] = facts.protects[a]
          /\ protects[authority.id] = authority.paths \cap facts.classified
      BY <2>1
    <2> QED BY <1>2, <2>1, <2>2, <2>3, <2>4, <2>5
  <1> QED BY <1>1, <1>2

\* The answers to an authority of the rule's own.
LEMMA LocalKinds ==
    ASSUME NEW facts, NEW authority
    PROVE  /\ SX!LocalAuthority(facts, authority).is \in {"ok", "error", "unavailable"}
           /\ SX!LocalAuthority(facts, authority).is = "error" => authority # None
  BY DEF SX!LocalAuthority

\* A staged script that answers passed every check of its preparation.
LEMMA StagedOutput ==
    ASSUME NEW rule, NEW files, NEW all, NEW facts, NEW parses,
           SX!RunStaged(rule, files, all, facts, parses).is = "output"
    PROVE  LET local == SX!LocalAuthority(facts, rule.authority)
               selection == SX!SelectTargets(files, rule.targets, local.facts)
           IN  /\ local.is = "ok"
               /\ \A d \in rule.requires : local.facts.of[d] = "available"
               /\ selection.is = "ok"
               /\ SX!RunStaged(rule, files, all, facts, parses) = SX!Analyze(rule, selection.files, all, parses)
  <1> DEFINE local == SX!LocalAuthority(facts, rule.authority)
             selection == SX!SelectTargets(files, rule.targets, local.facts)
             required == rule.requires \cup SX!TargetDomains(rule.targets)
                           \cup (IF rule.authority # None THEN {"authorities"} ELSE {})
             out == SX!RunStaged(rule, files, all, facts, parses)
  <1>1. out = IF local.is # "ok" THEN [is |-> local.is]
              ELSE IF \E d \in required : local.facts.of[d] # "available" THEN [is |-> "unavailable"]
              ELSE IF selection.is # "ok" THEN [is |-> "unavailable"]
              ELSE SX!Analyze(rule, selection.files, all, parses)
    BY Zenon DEF SX!RunStaged
  <1>2. local.is \in {"ok", "error", "unavailable"}
    BY LocalKinds
  <1> HIDE DEF local, selection, required, out
  <1>3. local.is = "ok"
    BY <1>1, <1>2 DEF out
  <1>4. ~ \E d \in required : local.facts.of[d] # "available"
    BY <1>1, <1>3 DEF out
  <1>5. selection.is = "ok" /\ out = SX!Analyze(rule, selection.files, all, parses)
    BY <1>1, <1>3, <1>4 DEF out
  <1>6. \A d \in rule.requires : local.facts.of[d] = "available"
    BY <1>4 DEF required
  <1> QED BY <1>3, <1>5, <1>6 DEF local, selection, out

\* A script that answers had all the facts it asks for and saw just the files it targets,
\* every one of them (executeStagedScript), among classified files and with facts as
\* createProjectFacts builds them.
THEOREM AnswersHonest ==
    ASSUME NEW rule, NEW files, NEW all, NEW facts, NEW parses,
           FactsMade(facts), files \subseteq facts.classified
    PROVE  SX!RunHonest(rule, files, all, facts, parses)
  <1> DEFINE out == SX!RunStaged(rule, files, all, facts, parses)
             t == rule.targets
             own == IF rule.authority = None THEN {} ELSE {rule.authority.id}
             protected(f, ids) == \/ \E a \in ids \cap DOMAIN facts.protects : f \in facts.protects[a]
                                  \/ own \cap ids # {} /\ f \in rule.authority.paths
             named == IF t = None THEN {} ELSE IF "any" \in t.authority THEN DOMAIN facts.protects \cup own ELSE t.authority
             local == SX!LocalAuthority(facts, rule.authority)
             selection == SX!SelectTargets(files, t, local.facts)
  <1> SUFFICES ASSUME out.is = "output"
               PROVE  /\ \A d \in rule.requires : facts.of[d] = "available"
                      /\ rule.ast => out.records \subseteq parses
                      /\ out.targets = {f \in files : t # None =>
                                           /\ f \in t.include \ t.exclude /\ (t.classes # None => f \in t.classes)
                                           /\ named # {} => protected(f, named)}
                      /\ named \subseteq DOMAIN facts.protects \cup own
                      /\ out.records = (IF rule.text = None THEN out.targets
                                         ELSE rule.text.match \cap (IF rule.text.all THEN all ELSE out.targets))
    BY Zenon DEF SX!RunHonest
  <1>1. /\ local.is = "ok" /\ selection.is = "ok"
        /\ \A d \in rule.requires : local.facts.of[d] = "available"
        /\ out = SX!Analyze(rule, selection.files, all, parses)
    BY StagedOutput
  <1>2. /\ local.facts.of = facts.of /\ local.facts.classified = facts.classified
        /\ DOMAIN local.facts.protects = DOMAIN facts.protects \cup own
        /\ own \cap DOMAIN facts.protects = {}
        /\ \A a \in DOMAIN facts.protects : local.facts.protects[a] = facts.protects[a]
        /\ \A a \in own : local.facts.protects[a] = rule.authority.paths \cap facts.classified
    BY <1>1, LocalKeeps
  <1>3. /\ rule.ast => out.records \subseteq parses
        /\ out.targets = selection.files
        /\ out.records = (IF rule.text = None THEN selection.files
                           ELSE rule.text.match \cap (IF rule.text.all THEN all ELSE selection.files))
    <2>1. SX!Analyze(rule, selection.files, all, parses).is = "output"
      BY <1>1
    <2> HIDE DEF out, selection
    <2> DEFINE found == SX!Analyze(rule, selection.files, all, parses)
    <2>2. /\ rule.ast => found.records \subseteq parses
          /\ found.targets = selection.files
          /\ found.records = (IF rule.text = None THEN selection.files
                               ELSE rule.text.match \cap (IF rule.text.all THEN all ELSE selection.files))
      <3> DEFINE chosen == selection.files
      <3> HIDE DEF chosen
      <3>1. SX!Analyze(rule, chosen, all, parses).is = "output"
        BY <2>1 DEF chosen
      <3>2. /\ rule.ast => SX!Analyze(rule, chosen, all, parses).records \subseteq parses
            /\ SX!Analyze(rule, chosen, all, parses).targets = chosen
            /\ SX!Analyze(rule, chosen, all, parses).records =
                 (IF rule.text = None THEN chosen
                   ELSE rule.text.match \cap (IF rule.text.all THEN all ELSE chosen))
        BY <3>1 DEF SX!Analyze
      <3> QED BY <3>2 DEF chosen
    <2>3. out = found
      BY <1>1
    <2> HIDE DEF found
    <2> QED BY <2>2, <2>3
  <1> HIDE DEF out
  <1>4. CASE t = None
    <2>1. selection.files = files
      BY <1>4 DEF SX!SelectTargets
    <2> HIDE DEF selection, local
    <2>2. out.targets = {f \in files : t # None =>
                           /\ f \in t.include \ t.exclude /\ (t.classes # None => f \in t.classes)
                           /\ named # {} => protected(f, named)}
      BY <1>3, <1>4, <2>1
    <2> QED BY <1>1, <1>2, <1>3, <1>4, <2>2
  <1>5. CASE t # None
    <2> DEFINE ids == IF "any" \in t.authority THEN DOMAIN local.facts.protects ELSE t.authority
    <2>1. ids = named
      BY <1>2, <1>5
    <2>2. /\ ids \subseteq DOMAIN local.facts.protects
          /\ selection.files = {f \in files : /\ t.classes # None => f \in local.facts.classified \cap t.classes
                                              /\ f \in t.include \ t.exclude
                                              /\ ids = {} \/ \E a \in ids : f \in local.facts.protects[a]}
      <3>1. selection = IF ~(ids \subseteq DOMAIN local.facts.protects) THEN [is |-> "unavailable"]
                        ELSE [is |-> "ok",
                              files |-> {f \in files : /\ t.classes # None => f \in local.facts.classified \cap t.classes
                                                       /\ f \in t.include \ t.exclude
                                                       /\ ids = {} \/ \E a \in ids : f \in local.facts.protects[a]}]
        BY <1>5, Zenon DEF SX!SelectTargets
      <3> HIDE DEF selection, ids, local
      <3> QED BY <1>1, <3>1
    <2> HIDE DEF selection, local, ids, named
    <2>3. ASSUME NEW f \in files
          PROVE  (\E a \in ids : f \in local.facts.protects[a]) <=> protected(f, ids)
      <3>1. \A a \in own : f \in local.facts.protects[a] <=> f \in rule.authority.paths
        BY <1>2
      <3> QED BY <1>2, <2>2, <3>1
    <2>4. out.targets = {f \in files : t # None =>
                           /\ f \in t.include \ t.exclude /\ (t.classes # None => f \in t.classes)
                           /\ named # {} => protected(f, named)}
      <3>1. ASSUME NEW f \in files
            PROVE  f \in selection.files <=>
                     (t # None => /\ f \in t.include \ t.exclude /\ (t.classes # None => f \in t.classes)
                                  /\ named # {} => protected(f, named))
        <4> HIDE DEF protected
        <4>1. f \in local.facts.classified
          BY <1>2
        <4> QED BY <1>5, <2>1, <2>2, <2>3, <4>1
      <3> HIDE DEF protected
      <3>2. selection.files \subseteq files
        BY <2>2
      <3> QED BY <1>3, <3>1, <3>2
    <2>5. named \subseteq DOMAIN facts.protects \cup own
      BY <1>2, <2>1, <2>2
    <2> HIDE DEF protected
    <2> QED BY <1>1, <1>2, <1>3, <2>4, <2>5
  <1> QED BY <1>4, <1>5

\* What is asked for decides only about relations and bindings.
LEMMA MadeAsAsked ==
    ASSUME NEW world, NEW p, NEW q
    PROVE  LET F == SX!CreateFacts(world, p)
               G == SX!CreateFacts(world, q)
           IN  /\ FactsMade(F) /\ F.classified = G.classified /\ F.protects = G.protects
               /\ F.classified = world.files
               /\ \A d \in {"classification", "authorities"} : F.of[d] = "available"
               /\ \A d \in SX!Domains : (d \in p <=> d \in q) => F.of[d] = G.of[d]
               /\ \A d \in SX!Domains \ {"bindings", "relations"} : F.of[d] = G.of[d]
  <1> DEFINE F == SX!CreateFacts(world, p)
             G == SX!CreateFacts(world, q)
             of(r) == [d \in SX!Domains |->
                CASE d = "structure" -> IF world.baseline = None \/ ~world.comparable THEN "unavailable"
                                        ELSE IF world.files \subseteq world.baseline THEN "available" ELSE "partial"
                  [] d = "bindings" -> SX!BindingsFor(r, world.files, world.parses)
                  [] d = "relations" -> SX!RelationsFor(r, world.reports)
                  [] d = "change" -> world.change
                  [] OTHER -> "available"]
             protects == [a \in DOMAIN world.protects |-> world.protects[a] \cap world.files]
  <1>1. \A r : SX!CreateFacts(world, r) = [of |-> of(r), classified |-> world.files, protects |-> protects]
    BY Zenon DEF SX!CreateFacts
  <1>2. \A r : \A d \in {"classification", "authorities"} : of(r)[d] = "available"
    BY DEF SX!Domains
  <1>3. \A d \in SX!Domains \ {"bindings", "relations"} : of(p)[d] = of(q)[d]
    BY DEF SX!Domains
  <1>4. ("bindings" \in p <=> "bindings" \in q) => of(p)["bindings"] = of(q)["bindings"]
    BY DEF SX!Domains, SX!BindingsFor
  <1>5. ("relations" \in p <=> "relations" \in q) => of(p)["relations"] = of(q)["relations"]
    BY DEF SX!Domains, SX!RelationsFor
  <1> HIDE DEF of, protects
  <1>6. F.of = of(p) /\ G.of = of(q) /\ F.classified = world.files /\ G.classified = world.files
        /\ F.protects = protects /\ G.protects = protects
    BY <1>1
  <1>7. FactsMade(F)
    BY <1>1, <1>6 DEF FactsMade
  <1> HIDE DEF F, G
  <1>8. \A d \in SX!Domains : (d \in p <=> d \in q) => F.of[d] = G.of[d]
    BY <1>3, <1>4, <1>5, <1>6
  <1>9. \A d \in {"classification", "authorities"} : F.of[d] = "available"
    BY <1>2, <1>6
  <1>10. \A d \in SX!Domains \ {"bindings", "relations"} : F.of[d] = G.of[d]
    BY <1>3, <1>6
  <1>11. F.classified = G.classified /\ F.protects = G.protects /\ F.classified = world.files
    BY <1>6
  <1> QED BY <1>7, <1>8, <1>9, <1>10, <1>11 DEF F, G

\* What a script gives does not depend on which scripts run with it, though these decide
\* which facts are collected (requestedScriptCapabilities, createProjectFacts).
THEOREM OthersDoNotMatter ==
    ASSUME NEW world, NEW rules, \A r \in rules : r.requires \subseteq SX!Domains
    PROVE  SX!ScriptsIndependent(world, rules)
  <1> SUFFICES ASSUME NEW r \in rules, r.loads, SX!WellFormed(r)
               PROVE  SX!RunStaged(r, world.files, world.all, SX!CreateFacts(world, SX!Requested(rules)), world.parses)
                        = SX!RunStaged(r, world.files, world.all, SX!CreateFacts(world, SX!Requested({r})), world.parses)
    BY DEF SX!ScriptsIndependent
  <1> DEFINE F == SX!CreateFacts(world, SX!Requested(rules))
             G == SX!CreateFacts(world, SX!Requested({r}))
             x == SX!LocalAuthority(F, r.authority)
             y == SX!LocalAuthority(G, r.authority)
             required == r.requires \cup SX!TargetDomains(r.targets) \cup (IF r.authority # None THEN {"authorities"} ELSE {})
  <1>1. r.shape # "requires"
    BY DEF SX!WellFormed
  <1>2. r.requires \subseteq SX!Requested(rules) /\ r.requires \subseteq SX!Requested({r})
    BY <1>1 DEF SX!Requested
  <1>3. /\ FactsMade(F) /\ FactsMade(G) /\ F.classified = G.classified /\ F.protects = G.protects
        /\ \A d \in {"classification", "authorities"} : F.of[d] = "available" /\ G.of[d] = "available"
        /\ \A d \in SX!Domains : (d \in SX!Requested(rules) <=> d \in SX!Requested({r})) => F.of[d] = G.of[d]
    BY MadeAsAsked
  <1>4. SX!TargetDomains(r.targets) \subseteq {"classification", "authorities"}
    BY DEF SX!TargetDomains
  <1> HIDE DEF F, G
  <1>5. \A d \in required : F.of[d] = G.of[d]
    <2> SUFFICES ASSUME NEW d \in required PROVE F.of[d] = G.of[d]
      OBVIOUS
    <2>1. CASE d \in r.requires
      BY <1>2, <1>3, <2>1
    <2>2. CASE d \in {"classification", "authorities"}
      BY <1>3, <2>2
    <2> QED BY <1>4, <2>1, <2>2
  <1>6. x.is = y.is /\ (x.is # "ok" => x.is \in {"error", "unavailable"})
    BY <1>3, LocalKinds DEF SX!LocalAuthority
  <1>7. ASSUME x.is = "ok"
        PROVE  /\ x.facts.of = F.of /\ y.facts.of = G.of
               /\ x.facts.classified = y.facts.classified /\ x.facts.protects = y.facts.protects
    <2>1. CASE r.authority = None
      BY <1>3, <2>1 DEF SX!LocalAuthority
    <2>2. CASE r.authority # None
      <3> DEFINE with(f) == [f EXCEPT !.protects = [a \in DOMAIN @ \cup {r.authority.id} |->
                                 IF a = r.authority.id THEN r.authority.paths \cap f.classified ELSE @[a]]]
      <3>1. x.facts = with(F) /\ y.facts = with(G)
        <4>1. x = [is |-> "ok", facts |-> with(F)]
          BY <1>7, <2>2, LocalKinds DEF SX!LocalAuthority
        <4>2. y = [is |-> "ok", facts |-> with(G)]
          BY <1>6, <1>7, <2>2, LocalKinds DEF SX!LocalAuthority
        <4> HIDE DEF x, y, with
        <4> QED BY <4>1, <4>2
      <3> DEFINE protects(f) == [a \in DOMAIN f.protects \cup {r.authority.id} |->
                                   IF a = r.authority.id THEN r.authority.paths \cap f.classified ELSE f.protects[a]]
      <3>2. ASSUME NEW f, FactsMade(f)
            PROVE  with(f).of = f.of /\ with(f).classified = f.classified /\ with(f).protects = protects(f)
        <4>1. with(f) = [f EXCEPT !.protects = protects(f)]
          OBVIOUS
        <4> HIDE DEF with, protects
        <4> QED BY <3>2, <4>1 DEF FactsMade
      <3>3. protects(F) = protects(G)
        BY <1>3
      <3> HIDE DEF with, protects, x, y
      <3> QED BY <1>3, <3>1, <3>2, <3>3
    <2> QED BY <2>1, <2>2
  <1> DEFINE out(local) ==
          IF local.is # "ok" THEN [is |-> local.is]
          ELSE IF \E d \in required : local.facts.of[d] # "available" THEN [is |-> "unavailable"]
          ELSE IF SX!SelectTargets(world.files, r.targets, local.facts).is # "ok" THEN [is |-> "unavailable"]
          ELSE SX!Analyze(r, SX!SelectTargets(world.files, r.targets, local.facts).files, world.all, world.parses)
  <1>8. SX!RunStaged(r, world.files, world.all, F, world.parses) = out(x)
        /\ SX!RunStaged(r, world.files, world.all, G, world.parses) = out(y)
    BY Zenon DEF SX!RunStaged
  <1> HIDE DEF x, y
  <1>9. CASE x.is # "ok"
    <2>1. out(x) = [is |-> x.is] /\ out(y) = [is |-> y.is]
      BY <1>6, <1>9
    <2> QED BY <1>6, <1>8, <2>1 DEF F, G
  <1>10. CASE x.is = "ok"
    <2>1. SX!SelectTargets(world.files, r.targets, x.facts) = SX!SelectTargets(world.files, r.targets, y.facts)
      BY <1>7, <1>10 DEF SX!SelectTargets
    <2>2. (\E d \in required : x.facts.of[d] # "available") <=> (\E d \in required : y.facts.of[d] # "available")
      BY <1>5, <1>7, <1>10
    <2> HIDE DEF required
    <2>3. out(x) = out(y)
      BY <1>6, <1>10, <2>1, <2>2
    <2> QED BY <1>8, <2>3 DEF F, G
  <1> QED BY <1>9, <1>10

Scopes == {"file", "repository", "change_set"}

\* What the answers of a run say of the rule.
LEMMA RunKinds ==
    ASSUME NEW rule, NEW scopes, NEW files, NEW change, NEW facts, NEW parses
    PROVE  LET out == SX!RunRule(rule, scopes, files, change, facts, parses)
           IN  /\ out.is \in {"output", "error", "unavailable", "skipped"}
               /\ out.is = "skipped" =>
                    rule.loads /\ SX!WellFormed(rule) /\ scopes # None /\ rule.scope \notin scopes
               /\ out.is = "error" => ~rule.loads \/ ~SX!WellFormed(rule) \/ rule.authority # None
               /\ ~rule.loads \/ ~SX!WellFormed(rule) => out.is = "error"
               /\ out.is = "output" /\ rule.scope = "change_set" => change.is # "unavailable"
  <1> DEFINE local == SX!LocalAuthority(facts, rule.authority)
             staged == SX!RunStaged(rule, files, {}, facts, parses)
             changed == SX!RunChangeSet(rule, change, facts, parses)
             out == SX!RunRule(rule, scopes, files, change, facts, parses)
  <1>1. local.is \in {"ok", "error", "unavailable"} /\ (local.is = "error" => rule.authority # None)
    BY LocalKinds
  <1>2. \A chosen : SX!Analyze(rule, chosen, {}, parses).is \in {"output", "unavailable"}
    BY DEF SX!Analyze
  <1>3. staged.is \in {"output", "error", "unavailable"} /\ (staged.is = "error" => rule.authority # None)
    <2> DEFINE required == rule.requires \cup SX!TargetDomains(rule.targets)
                             \cup (IF rule.authority # None THEN {"authorities"} ELSE {})
               selection == SX!SelectTargets(files, rule.targets, local.facts)
    <2>1. staged = IF local.is # "ok" THEN [is |-> local.is]
                   ELSE IF \E d \in required : local.facts.of[d] # "available" THEN [is |-> "unavailable"]
                   ELSE IF selection.is # "ok" THEN [is |-> "unavailable"]
                   ELSE SX!Analyze(rule, selection.files, {}, parses)
      BY Zenon DEF SX!RunStaged
    <2> HIDE DEF local, required, selection, staged
    <2> QED BY <1>1, <1>2, <2>1
  <1>4. /\ changed.is \in {"output", "error", "unavailable"} /\ (changed.is = "error" => rule.authority # None)
        /\ changed.is = "output" => change.is # "unavailable"
    <2> DEFINE required == rule.requires \cup (IF rule.authority # None THEN {"authorities"} ELSE {})
    <2>1. changed = IF local.is # "ok" THEN [is |-> local.is]
                    ELSE IF change.is = "unavailable" \/ \E d \in required : local.facts.of[d] # "available" THEN [is |-> "unavailable"]
                    ELSE IF rule.ast /\ ~(change.files \subseteq parses) THEN [is |-> "unavailable"]
                    ELSE [is |-> "output", targets |-> change.files, records |-> change.files]
      BY Zenon DEF SX!RunChangeSet
    <2> HIDE DEF local, required, changed
    <2> QED BY <1>1, <2>1
  <1>5. out = IF ~rule.loads \/ ~SX!WellFormed(rule) THEN [is |-> "error"]
              ELSE IF scopes # None /\ rule.scope \notin scopes THEN [is |-> "skipped"]
              ELSE IF rule.scope = "change_set" THEN changed
              ELSE staged
    BY Zenon DEF SX!RunRule
  <1> HIDE DEF out, changed, staged
  <1>6. CASE ~rule.loads \/ ~SX!WellFormed(rule)
    BY <1>5, <1>6 DEF out
  <1>7. CASE ~(~rule.loads \/ ~SX!WellFormed(rule)) /\ scopes # None /\ rule.scope \notin scopes
    BY <1>5, <1>7 DEF out
  <1>8. CASE ~(~rule.loads \/ ~SX!WellFormed(rule)) /\ ~(scopes # None /\ rule.scope \notin scopes)
    BY <1>3, <1>4, <1>5, <1>8 DEF out
  <1> QED BY <1>6, <1>7, <1>8

\* Every rule is accounted for: it was of a scope that was not asked for, it gave hits, or it
\* is among the failures; and a declaration is called isolated only by a provider that saw
\* the whole repository (antiPatterns).
THEOREM NoRuleLeftOut ==
    ASSUME NEW world, NEW rules, \A i \in DOMAIN rules : rules[i].scope \in Scopes,
           NEW scopes, NEW change, NEW reports
    PROVE  SX!ReportComplete(world, rules, scopes, change, reports)
  <1> DEFINE wanted == IF scopes # None THEN scopes ELSE IF change # None THEN None ELSE {"file", "repository"}
             given == IF change = None THEN [is |-> "unavailable", files |-> {}] ELSE change
             files == IF wanted # None /\ wanted \subseteq {"change_set"} THEN {} ELSE world.files
             facts == SX!CreateFacts([world EXCEPT !.files = files], SX!Requested(SX!Range(rules)))
             of(i) == SX!RunRule(rules[i], wanted, files, given, facts, world.parses)
             out == [i \in DOMAIN rules |-> of(i)]
             usable(r) == r.declarations /\ r.references /\ r.available
             asked == IF reports # None /\ scopes = None THEN reports ELSE {}
             isolated == UNION {{s \in r.symbols : s.internal /\ ~s.referenced} : r \in {q \in asked : usable(q)}}
             unread == {r \in asked : ~usable(r)}
             run == {i \in DOMAIN rules : out[i].is # "skipped"}
             hits == {i \in DOMAIN rules : out[i].is = "output"}
             failures == {i \in DOMAIN rules : out[i].is \in {"error", "unavailable"}}
             whole == SX!AntiPatterns(world, rules, scopes, change, reports)
  <1>1. whole = [out |-> out, run |-> run, hits |-> hits, failures |-> failures, isolated |-> isolated, unread |-> unread]
    BY Zenon DEF SX!AntiPatterns
  <1>2. ASSUME NEW i \in DOMAIN rules
        PROVE  /\ out[i].is \in {"output", "error", "unavailable", "skipped"}
               /\ out[i].is = "skipped" =>
                    rules[i].loads /\ SX!WellFormed(rules[i]) /\ wanted # None /\ rules[i].scope \notin wanted
               /\ out[i].is = "output" /\ rules[i].scope = "change_set" => given.is # "unavailable"
    <2>1. out[i] = of(i)
      OBVIOUS
    <2> HIDE DEF out, wanted, given, files, facts
    <2> QED BY <2>1, RunKinds
  <1> HIDE DEF of
  <1> HIDE DEF out
  <1>3. hits \cup failures = run /\ hits \cap failures = {}
    BY <1>2
  <1>4. ASSUME NEW i \in DOMAIN rules \ run
        PROVE  /\ rules[i].loads /\ SX!WellFormed(rules[i])
               /\ IF scopes # None THEN rules[i].scope \notin scopes ELSE rules[i].scope = "change_set"
    BY <1>2 DEF Scopes
  <1>5. change = None => \A i \in hits : rules[i].scope # "change_set"
    BY <1>2
  <1>6. \A s \in isolated : ~s.referenced /\ \E r \in reports : s \in r.symbols /\ r.references
    OBVIOUS
  <1>7. (reports # None /\ scopes = None) =>
           \A r \in reports : r \in unread \/ \A s \in r.symbols : (s.internal /\ ~s.referenced) => s \in isolated
    OBVIOUS
  <1> HIDE DEF isolated, unread, run, hits, failures
  <1>8. /\ whole.run = run /\ whole.hits = hits /\ whole.failures = failures
        /\ whole.isolated = isolated /\ whole.unread = unread
    BY <1>1
  <1> HIDE DEF whole
  <1>9. /\ whole.hits \cup whole.failures = whole.run /\ whole.hits \cap whole.failures = {}
        /\ \A i \in DOMAIN rules \ whole.run :
              /\ rules[i].loads /\ SX!WellFormed(rules[i])
              /\ IF scopes # None THEN rules[i].scope \notin scopes ELSE rules[i].scope = "change_set"
        /\ change = None => \A i \in whole.hits : rules[i].scope # "change_set"
        /\ \A s \in whole.isolated : ~s.referenced /\ \E r \in reports : s \in r.symbols /\ r.references
        /\ (reports # None /\ scopes = None) =>
              \A r \in reports : r \in whole.unread \/ \A s \in r.symbols : (s.internal /\ ~s.referenced) => s \in whole.isolated
    BY <1>3, <1>4, <1>5, <1>6, <1>7, <1>8
  <1> QED BY <1>9, Zenon DEF SX!ReportComplete, whole

\* Rules that pass the check of the extensions are refused for their form by no run, and the
\* others by every run that wants them (checkExtensionContracts, executeAntiPatternRule).
THEOREM CheckIsForesight ==
    ASSUME NEW world, NEW rules, NEW scopes
    PROVE  SX!CheckForesees(world, rules, scopes)
  <1> DEFINE wanted == IF scopes # None THEN scopes ELSE IF None # None THEN None ELSE {"file", "repository"}
             given == IF None = None THEN [is |-> "unavailable", files |-> {}] ELSE None
             files == IF wanted # None /\ wanted \subseteq {"change_set"} THEN {} ELSE world.files
             facts == SX!CreateFacts([world EXCEPT !.files = files], SX!Requested(SX!Range(rules)))
             of(i) == SX!RunRule(rules[i], wanted, files, given, facts, world.parses)
             out == [i \in DOMAIN rules |-> of(i)]
             whole == SX!AntiPatterns(world, rules, scopes, None, None)
             bad(r) == ~(r.loads /\ SX!WellFormed(r))
  <1>1. whole.out = out
    BY DEF SX!AntiPatterns
  <1>2. ASSUME NEW i \in DOMAIN rules
        PROVE  /\ bad(rules[i]) => out[i].is = "error"
               /\ out[i].is = "error" => bad(rules[i]) \/ rules[i].authority # None
    <2>1. out[i] = of(i)
      OBVIOUS
    <2> HIDE DEF out, wanted, given, files, facts
    <2> QED BY <2>1, RunKinds
  <1> HIDE DEF out, whole
  <1>3. SX!Range(rules) = {rules[i] : i \in DOMAIN rules}
    BY DEF SX!Range
  <1>4. \A r : (~r.loads \/ r.shape = "requires" \/ ~SX!WellFormed(r)) <=> bad(r)
    BY DEF SX!WellFormed
  <1> HIDE DEF bad
  <1>5. SX!ContractIssues(SX!Range(rules)) = {r \in SX!Range(rules) : bad(r)}
    BY <1>4 DEF SX!ContractIssues
  <1>6. SX!ContractIssues(SX!Range(rules)) = {rules[i] : i \in {j \in DOMAIN rules : whole.out[j].is = "error" /\ bad(rules[j])}}
    BY <1>1, <1>2, <1>3, <1>5
  <1>7. ASSUME SX!RulesExit(SX!Range(rules), FALSE, {}, {}) = 0
        PROVE  \A i \in DOMAIN rules : whole.out[i].is = "error" => rules[i].authority # None
    <2>1. SX!ContractIssues(SX!Range(rules)) = {}
      BY <1>7 DEF SX!RulesExit
    <2>2. \A i \in DOMAIN rules : ~bad(rules[i])
      BY <1>3, <1>5, <2>1
    <2> QED BY <1>1, <1>2, <2>2
  <1>8. SX!ContractIssues(SX!Range(rules))
           = {rules[i] : i \in {j \in DOMAIN rules : whole.out[j].is = "error" /\ ~(rules[j].loads /\ SX!WellFormed(rules[j]))}}
    BY <1>6 DEF bad
  <1> QED BY <1>7, <1>8, Zenon DEF SX!CheckForesees, whole

---------------------------------------------------------------------------
(* Documents (Documents), for every input *)

DC == INSTANCE Documents

\* A check of everything brings the index of the documents up to date, whatever it was; a
\* check of some does so for these and leaves the others alone (updateDocumentIndex).
THEOREM IndexKeepsUp ==
    ASSUME NEW Docs, NEW Contents, None \notin Contents, NEW disk, disk \in [Docs -> Contents],
           NEW file, NEW readable, NEW entries, NEW changed
    PROVE  DC!IndexFollows(file, readable, entries, disk, changed)
  <1> DEFINE old == IF file /\ readable THEN entries ELSE <<>>
             full == changed = None \/ ~file
             paths == IF full THEN DOMAIN disk ELSE changed
             content(p) == IF p \in DOMAIN <<>> THEN <<>>[p] ELSE IF p \in DOMAIN disk THEN disk[p] ELSE None
             there == {p \in paths : content(p) # None}
             kept == IF full THEN {} ELSE DOMAIN old \ paths
             new == DC!UpdateIndex(file, readable, entries, disk, <<>>, changed)
  <1>1. /\ new = [p \in kept \cup there |-> IF p \in there THEN content(p) ELSE old[p]]
        /\ DOMAIN new = kept \cup there
        /\ \A p \in kept \cup there : new[p] = IF p \in there THEN content(p) ELSE old[p]
    <2>1. new = [p \in kept \cup there |-> IF p \in there THEN content(p) ELSE old[p]]
      BY Zenon DEF DC!UpdateIndex
    <2> HIDE DEF new, kept, there, content, old
    <2> QED BY <2>1
  <1>2. \A p : p \notin DOMAIN <<>>
    OBVIOUS
  <1>3. \A p : content(p) = IF p \in DOMAIN disk THEN disk[p] ELSE None
    BY <1>2
  <1>4. DOMAIN disk = Docs /\ \A p \in Docs : disk[p] \in Contents
    OBVIOUS
  <1>5. there = paths \cap DOMAIN disk
    BY <1>3, <1>4
  <1> HIDE DEF new, content, there
  <1>6. ASSUME full PROVE new = disk
    <2>1. there = DOMAIN disk /\ kept = {}
      BY <1>5, <1>6
    <2>2. new = [p \in DOMAIN disk |-> disk[p]]
      BY <1>1, <1>3, <2>1
    <2> QED BY <2>2
  <1>7. ASSUME ~full, readable, NEW p
        PROVE  LET was == IF p \in changed THEN disk ELSE entries
               IN  (p \in DOMAIN new <=> p \in DOMAIN was) /\ (p \in DOMAIN new => new[p] = was[p])
    <2>1. old = entries /\ paths = changed /\ kept = DOMAIN entries \ changed
      BY <1>7
    <2> HIDE DEF old, paths, kept, full
    <2>2. CASE p \in changed
      BY <1>1, <1>3, <1>5, <2>1, <2>2
    <2>3. CASE p \notin changed
      BY <1>1, <1>5, <2>1, <2>3
    <2> QED BY <2>2, <2>3
  <1> QED BY <1>6, <1>7 DEF DC!IndexFollows, new

\* A staged check that passes has seen every staged record filled in; one that fails has seen
\* one that is not; and capabilities are maintained for the content indexed (checkDocuments,
\* docsCommand).
THEOREM ChecksHonest ==
    ASSUME None # "unfilled", NEW file, NEW readable, NEW entries, NEW disk,
           NEW staged, DOMAIN staged # None
    PROVE  DC!DocsHonest(file, readable, entries, disk, staged)
  <1> DEFINE changed == DOMAIN staged
             old == IF file /\ readable THEN entries ELSE <<>>
             full == changed = None \/ ~file
             paths == IF full THEN DOMAIN disk ELSE changed
             content(p) == IF p \in DOMAIN staged THEN staged[p] ELSE IF p \in DOMAIN disk THEN disk[p] ELSE None
             there == {p \in paths : content(p) # None}
             kept == IF full THEN {} ELSE DOMAIN old \ paths
             index == DC!UpdateIndex(file, readable, entries, disk, staged, changed)
             check == DC!DocsCheck(file, readable, entries, disk, staged, changed)
             unfilled == {p \in paths \cap DOMAIN index : index[p] = "unfilled"}
             observed == IF changed # None /\ "capability" \in paths \cap DOMAIN index
                         THEN {"similarity", "capability"} ELSE {"similarity"}
  <1>1. /\ DOMAIN index = kept \cup there
        /\ \A p \in kept \cup there : index[p] = IF p \in there THEN content(p) ELSE old[p]
    <2>1. index = [p \in kept \cup there |-> IF p \in there THEN content(p) ELSE old[p]]
      BY Zenon DEF DC!UpdateIndex
    <2> HIDE DEF index, kept, there, content, old
    <2> QED BY <2>1
  <1>2. check = [index |-> index, looked |-> paths, unfilled |-> unfilled, observed |-> observed]
    BY Zenon DEF DC!DocsCheck
  <1> HIDE DEF index
  <1>3. check.index = index /\ check.unfilled = unfilled /\ check.observed = observed
    <2> HIDE DEF unfilled, observed, check, paths
    <2> QED BY <1>2
  <1>4. \A p \in paths : (p \in DOMAIN index <=> content(p) # None) /\ (p \in DOMAIN index => index[p] = content(p))
    <2> HIDE DEF content
    <2> QED BY <1>1
  <1> DEFINE exit == DC!DocsExit(check, changed, FALSE, FALSE)
  <1>5. exit \in {0, 1} /\ (exit = 1 <=> unfilled # {})
    <2> HIDE DEF unfilled
    <2> QED BY <1>3 DEF DC!DocsExit
  <1> HIDE DEF check, exit
  <1>6. ASSUME exit = 0, changed \subseteq DOMAIN disk,
               NEW p \in changed, staged[p] = "unfilled"
        PROVE  FALSE
    <2>1. p \in paths /\ content(p) = "unfilled"
      BY <1>6
    <2>2. p \in unfilled
      BY <1>4, <2>1
    <2>3. unfilled # {}
      BY <2>2
    <2> HIDE DEF unfilled
    <2> QED BY <1>5, <1>6, <2>3
  <1>7. ASSUME exit = 1, file
        PROVE  \E p \in changed : staged[p] = "unfilled"
    <2>0. unfilled # {}
      <3> HIDE DEF unfilled
      <3> QED BY <1>5, <1>7
    <2>1. PICK p \in unfilled : TRUE
      BY <2>0
    <2>2. paths = changed
      BY <1>7
    <2> QED BY <1>4, <2>1, <2>2
  <1>8. ASSUME "capability" \in check.observed
        PROVE  check.index["capability"] = (IF "capability" \in changed THEN staged ELSE disk)["capability"]
    <2>1. "capability" \in paths \cap DOMAIN index
      BY <1>3, <1>8
    <2>2. index["capability"] = content("capability") /\ content("capability") # None
      BY <1>4, <2>1
    <2> QED BY <1>3, <2>2
  <1> QED BY <1>6, <1>7, <1>8, Zenon DEF DC!DocsHonest, check, exit

\* Two different things are two, also for the module's own copy of the operator.
LEMMA PairIsTwo ==
    ASSUME NEW x, NEW y, x # y
    PROVE  DC!Cardinality({x, y}) = 2
  <1>1. Cardinality({x}) = 1 /\ IsFiniteSet({x})
    BY FS_Singleton
  <1>2. Cardinality({x} \cup {y}) = 2
    BY <1>1, FS_AddElement
  <1>3. {x} \cup {y} = {x, y}
    OBVIOUS
  <1>4. DC!Cardinality({x, y}) = Cardinality({x, y})
    BY DEF DC!Cardinality, Cardinality
  <1> QED BY <1>2, <1>3, <1>4

\* Which of two documents changed does not matter, copies are always found, and a check of
\* all finds what the checks of each find (findDocumentSimilarityCandidates); with at least
\* one seed and no more agreement asked for than there are seeds.
THEOREM CandidatesEven ==
    ASSUME NEW features, NEW seeds, 1 \in DOMAIN seeds, NEW least \in Nat,
           IsFiniteSet(DOMAIN seeds), least <= Cardinality(DOMAIN seeds)
    PROVE  DC!CandidatesFair(features, seeds, least)
  <1> DEFINE index == [d \in DOMAIN features |-> DC!MinHash(features[d], seeds)]
             alike(pair) == \A a, b \in pair : a # b =>
                               DC!SameBucket(index[a], index[b]) /\ DC!Agreeing(index[a], index[b]) >= least
             found(changed) == DC!Candidates(index, changed, least)
  <1>1. ASSUME NEW changed, NEW pair
        PROVE  pair \in found(changed) <=>
                  /\ pair \subseteq DOMAIN index /\ DC!Cardinality(pair) = 2
                  /\ pair \cap changed # {} /\ alike(pair)
    BY DEF DC!Candidates
  <1>2. DOMAIN index = DOMAIN features
    OBVIOUS
  <1>3. ASSUME NEW d \in DOMAIN features, NEW e \in DOMAIN features, d # e, features[d] = features[e]
        PROVE  alike({d, e})
    <2> DEFINE hash == DC!MinHash(features[d], seeds)
    <2>1. index[d] = hash /\ index[e] = hash
      BY <1>3
    <2>2. DOMAIN hash = DOMAIN seeds
      BY DEF DC!MinHash
    <2> HIDE DEF index, hash
    <2>3. DC!SameBucket(hash, hash)
      BY <2>2 DEF DC!SameBucket
    <2>4. {s \in DOMAIN hash : hash[s] = hash[s]} = DOMAIN seeds
      BY <2>2
    <2>5. DC!Cardinality(DOMAIN seeds) = Cardinality(DOMAIN seeds) /\ Cardinality(DOMAIN seeds) \in Nat
      BY FS_CardinalityType DEF DC!Cardinality, Cardinality
    <2>6. DC!Agreeing(hash, hash) >= least
      BY <2>4, <2>5 DEF DC!Agreeing
    <2> QED BY <2>1, <2>3, <2>6
  <1> HIDE DEF found, alike, index
  <1>4. \A d, e \in DOMAIN features : d # e => ({d, e} \in found({d}) <=> {d, e} \in found({e}))
    BY <1>1
  <1>5. \A d, e \in DOMAIN features : (d # e /\ features[d] = features[e]) => {d, e} \in found({d})
    BY <1>1, <1>2, <1>3, PairIsTwo
  <1>6. found(DOMAIN index) = UNION {found({d}) : d \in DOMAIN index}
    <2>1. ASSUME NEW pair \in found(DOMAIN index)
          PROVE  \E d \in DOMAIN index : pair \in found({d})
      <3>1. PICK d \in pair : d \in DOMAIN index
        BY <1>1
      <3>2. pair \in found({d})
        BY <1>1, <3>1
      <3> QED BY <3>1, <3>2
    <2>2. ASSUME NEW d \in DOMAIN index, NEW pair \in found({d})
          PROVE  pair \in found(DOMAIN index)
      <3>1. pair \cap DOMAIN index # {}
        BY <1>1
      <3> QED BY <1>1, <3>1
    <2> QED BY <2>1, <2>2
  <1> QED BY <1>4, <1>5, <1>6, Zenon DEF DC!CandidatesFair, found, index
=============================================================================
