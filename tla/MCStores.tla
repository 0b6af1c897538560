------------------------------ MODULE MCStores ------------------------------
(* Four stores on small instances: the governance ledger, the live sessions *)
(* and the validation evidence of the coordination service, and the         *)
(* baseline generations.  They share no state: a behaviour is one of one    *)
(* store, the others rest.                                                  *)
EXTENDS HistoryLedger, TLC

CONSTANTS Repositories, SessionIds, Owners, MinTTL, MaxTTL, NoSession, MaxClock, MaxOpened,
          Paths, Versions, Absent, NoDir, MaxScans,
          Writers, PushAttempts, MaxHeads, Dirty

VARIABLES now, epoch, nextFence, sessions, opened, closed,            \* SessionStore
          source, active, backups, bpc, snap, todo, moved, scans,     \* BaselineStore
          last,
          heads, log, local, draft, mu, stage,                        \* DocsRepo
          calls, projection, accepted, published,                     \* EvidenceService
          store  \* which of the four this behaviour is about

sessionVars == <<now, epoch, nextFence, sessions, opened, closed>>
baselineVars == <<source, active, backups, bpc, snap, todo, moved, scans, last>>
evidenceVars == <<heads, log, local, draft, mu, stage, calls, projection, accepted, published>>

\* Two conclusions of one slot, and one of another slot that is too long.
TwoSlots == {[slot |-> 1, is |-> "pass"], [slot |-> 1, is |-> "block"], [slot |-> 2, is |-> "long"]}
TheLong == {[slot |-> 2, is |-> "long"]}

S == INSTANCE SessionStore
B == INSTANCE BaselineStore WITH pc <- bpc
E == INSTANCE EvidenceService WITH
       Files <- {"calibration-evidence"}, Docs <- {"proposal"}, Editable <- {"proposal"},
       Versions <- {1, 2}, Local <- FALSE, Records <- TwoSlots, TooLong <- TheLong

ASSUME StoresAssumption ==
    /\ S!SessionAssumption /\ S!NoSessionAssumption /\ B!BaselineAssumption
    /\ E!EvidenceAssumption /\ PushAttempts \in Nat \ {0} /\ MaxHeads \in Nat \ {0}

\* A resting baseline sees one text in every file.
StoresInit ==
    /\ store \in {"ledger", "sessions", "baseline", "evidence"}
    /\ Init /\ S!Init /\ B!Init /\ E!EvidenceInit
    /\ store # "baseline" => \A p \in Paths : source[p] = CHOOSE v \in Versions : TRUE

StoresNext ==
    \/ store = "ledger" /\ Next /\ UNCHANGED <<sessionVars, baselineVars, evidenceVars, store>>
    \/ store = "sessions" /\ S!Next /\ UNCHANGED <<vars, baselineVars, evidenceVars, store>>
    \/ store = "baseline" /\ B!Next /\ UNCHANGED <<vars, sessionVars, evidenceVars, store>>
    \/ store = "evidence" /\ E!EvidenceNext /\ UNCHANGED <<vars, sessionVars, baselineVars, store>>

StoresSpec == StoresInit /\ [][StoresNext]_<<vars, sessionVars, baselineVars, evidenceVars, store>>

Symmetry == UNION {Permutations(Ids), Permutations(Repositories), Permutations(SessionIds), Permutations(Owners)}

-----------------------------------------------------------------------------
(* The properties of the instances                                          *)

\* Of SessionStore, with sessions of several repositories under one id: no
\* registration, close or heartbeat of another credential takes a live session
\* away, a close that is acknowledged has left no entry that the credential
\* opens, and the client of a live session is refused only because another
\* repository has a session of its own under the id (session.go).
SessionsExact == S!SessionsExact

\* What fails of SessionStore with more than one repository: a heartbeat or
\* close of a live session finds it.
LookupExact == S!LookupExact

\* Of HistoryLedger: what readers total up counts every sealed entry once,
\* whenever a compaction or a seal dies.  Of EvidenceService: one conclusion for
\* each slot, what was acknowledged is on the branch and projected, and the
\* projection never shows what was not, whatever requests overlap or die.
LedgerExact == TypeOK /\ ReplayExact /\ E!EvidenceExact

\* What fails of EvidenceService: a calibration that nothing overlaps is of the
\* evidence on the branch, and accepted evidence can be read again.
ServedIsCurrent ==
    [][\A w \in Writers :
         E!At(w, "projected") /\ calls'[w].ok /\ (\A v \in Writers \ {w} : E!At(v, "idle"))
           => E!InFile(E!Evidence) \subseteq E!InFile(projection)]_evidenceVars
StaysReadable == E!StaysReadable

\* NoResurrection of SessionStore: Heartbeat does not revive a session whose
\* window has passed.
NoResurrection ==
    [][\A g \in DOMAIN opened :
         now >= opened[g].expiresAt => opened'[g].expiresAt = opened[g].expiresAt]_sessionVars

\* Of BaselineStore: wherever a complete scan dies or fails, a reader still
\* finds the complete generation it found before, and whatever scans died, even
\* between two shards written in place, a scan that reports success has left a
\* complete generation of the files it saw (BaselineGeneration.ts,
\* publishBaselineSnapshot, publishIncrementalEntries).
GenerationsExact ==
    [][/\ B!ScansExact'
       /\ B!Complete(B!ReadableDir) => B!Complete(B!ReadableDir)' \/ bpc = "shards"]_baselineVars

\* What fails of BaselineStore: a complete scan clears a stuck backup, and after
\* an incremental scan that died a reader finds a complete generation, on which
\* the next one can build.
FullScanUnblocks == B!FullScanUnblocks
InPlaceResumes == B!InPlaceResumes

\* NeverOlder of BaselineStore: no crash, failure or recovery brings an older
\* generation back.
NeverOlder ==
    [][B!ReadableDir # NoDir /\ B!ReadableDir' # NoDir
         => B!ReadableDir'.no >= B!ReadableDir.no]_baselineVars
=============================================================================
