---------------------------- MODULE LocalMachines ----------------------------
(***************************************************************************)
(* Four small machines of a developer's workstation: the cache and the     *)
(* dashboard of the editor plugin, the output of its background scan, a    *)
(* process of the test runner, and the commit hook.  They share no state:  *)
(* a behaviour is one of one machine, the others rest.                     *)
(***************************************************************************)
EXTENDS Naturals, Sequences, FiniteSets

CONSTANTS None,             \* no value: a model value
          MaxVersion, Slots, \* the bounds of GovernanceCache
          MaxChars, Output,  \* the bounds of JobOutput
          Tracked, Staging, InHead, Gone, MaxEdits  \* the commits of CommitHook

VARIABLES input,  \* which machine runs
          disk, cache, tool, reqs, shown,                     \* GovernanceCache
          lo, hi, cursor, given, child, cancelled, settled,   \* JobOutput
          proc,                                               \* TestGovernance
          at, strict, index, listed, hashes, pending, history, config, unsealed, edits  \* CommitHook

board == <<disk, cache, tool, reqs, shown>>
job == <<lo, hi, cursor, given, child, cancelled, settled>>
hook == <<at, strict, index, listed, hashes, pending, history, config, unsealed, edits>>

B == INSTANCE GovernanceCache
O == INSTANCE JobOutput
TG == INSTANCE TestGovernance WITH Providers <- {"p", "q"}
CH == INSTANCE CommitHook WITH Files <- Tracked, Contents <- Staging

ASSUME MachinesAssumption ==
    /\ MaxVersion \in Nat \ {0} /\ {MaxChars, Output, MaxEdits} \subseteq Nat
    /\ None \notin Nat /\ None \notin B!Snapshot /\ None # B!Wait

Is(name) == input.of = name

MachinesInit == B!BoardInit /\ O!OutputInit /\ TG!ProcessInit /\ CH!HookInit

OnBoard(A) == Is("board") /\ A /\ UNCHANGED <<input, job, proc, hook>>
RunJob == Is("job") /\ O!OutputNext /\ UNCHANGED <<input, board, proc, hook>>
OnRunner(A) == Is("runner") /\ A /\ UNCHANGED <<input, board, job, hook>>
RunHook == Is("hook") /\ CH!HookNext /\ UNCHANGED <<input, board, job, proc>>

MachinesNext == OnRunner(TG!ProcessNext) \/ OnBoard(B!BoardNext) \/ RunJob \/ RunHook
MachinesSpec == MachinesInit /\ [][MachinesNext]_<<board, job, proc, hook>>

\* The timers of GovernanceCache fire, its reads end and its answers arrive, once
\* the board is chosen.  A collection fails now and then, never for ever.
BoardFair ==
    /\ \A c \in B!Caches : /\ WF_board(OnBoard(B!Age(c)))
                           /\ SF_board(OnBoard(B!CollectRead(c)))
                           /\ SF_board(OnBoard(B!CollectDone(c)))
    /\ WF_board(OnBoard(B!SignalsTimer))
    /\ \A s \in Slots : WF_board(OnBoard(B!Poll(s, FALSE))) /\ WF_board(OnBoard(B!Deliver(s)))

\* The timer of a test process goes off and its termination ends.
RunnerFair == WF_proc(OnRunner(TG!AbortProcess)) /\ WF_proc(OnRunner(TG!TerminatedProcess))

---------------------------------------------------------------------------
(* Properties *)

\* BoardTypeOK of GovernanceCache: a dashboard that waits has a collection to
\* wait for (openarch-state.mjs).
BoardTypeOK == B!BoardTypeOK

\* BoardConverges of GovernanceCache: once the facts stop changing the
\* dashboard and the prompt section come to show them.
BoardConverges == <>Is("board") => B!BoardConverges

\* OutputOnce of JobOutput: no character of a background scan's output is
\* given twice (createTail).
OutputOnce == O!OutputOnce

\* SettledFinal of JobOutput: a settled job keeps its outcome (makeScanJob).
SettledFinal == O!SettledFinal

\* The editor plugin's machines: what they hold, and how they go on.
EditorSound == BoardTypeOK /\ OutputOnce
EditorRuns == BoardConverges /\ SettledFinal /\ TG!ProcessEnds

\* ForceCollects of GovernanceCache: a forced request collects anew.
ForceCollects == B!ForceCollects

\* NeverBackwards of GovernanceCache: a dashboard never returns to older facts.
NeverBackwards == B!NeverBackwards

\* CommitHook: what is committed was checked and its evidence is sealed, unless
\* the lock was busy, and no configuration goes with it that did not change.
CommitGuarded == CH!PassedIsSealed /\ CH!OnlyChangedArtifacts

\* TestGovernance: a run of the tests is answered once, and one that was aborted
\* never passes (runProjectProcess).
AnsweredOnce == TG!AnsweredOnce
=============================================================================
