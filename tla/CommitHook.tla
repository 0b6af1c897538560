----------------------------- MODULE CommitHook -----------------------------
(***************************************************************************)
(* The pre-commit hook (application/initApp.ts, hook/HookLauncher.ts) and  *)
(* the two commands it runs: check --staged, which writes pending evidence *)
(* for what is staged, and check --pre-commit, which seals it              *)
(* (cli/commands/check.ts, diff.ts, semanticEvidence.ts,                   *)
(* JsonPendingDiffStore.ts).  Between any two of their questions to git    *)
(* somebody may stage something else, or run a check of his own; git       *)
(* commits the index as it is when the hook ends.                          *)
(*                                                                         *)
(* Below the machine: the overrides of a check and the policies that       *)
(* decide over its exit code, as functions.                                *)
(***************************************************************************)
EXTENDS Naturals, Sequences, FiniteSets, FiniteSetsExt, SequencesExt

CONSTANTS Files, Contents, \* analyzable source files, and what can be staged of one
          InHead, Gone,    \* as in HEAD; deleted
          None,            \* no pending evidence
          MaxEdits         \* bound on what happens meanwhile

VARIABLES at,        \* where the hook is
          strict,    \* OPENARCH_STRICT
          index,     \* what is staged
          listed,    \* the paths the running command asked for
          hashes,    \* the evidence it computed for them
          pending,   \* pending/diff.json
          history,   \* sealed evidence
          config,    \* [disk, before, staged]: versions of config.yml
          unsealed,  \* the write lock was busy when the evidence was to be sealed
          edits
hookVars == <<at, strict, index, listed, hashes, pending, history, config, unsealed, edits>>

Evidence == SUBSET (Files \X Contents)
Staged == {f \in Files : index[f] # InHead}
Of(fs) == {<<f, index[f]>> : f \in fs}

HookTypeOK ==
    /\ at \in {"idle", "start", "listed", "checked", "sealing", "hashed", "sealed", "stopped", "committed"}
    /\ index \in [Files -> Contents] /\ listed \subseteq Files /\ hashes \in Evidence
    /\ pending \in Evidence \cup {None} /\ history \in Evidence
    /\ config \in [{"disk", "before", "staged"} -> 0..MaxEdits] /\ edits \in 0..MaxEdits

HookInit ==
    /\ at = "idle" /\ strict = FALSE /\ index = [f \in Files |-> InHead]
    /\ listed = {} /\ hashes = {} /\ pending = None /\ history = {}
    /\ config = [disk |-> 0, before |-> 0, staged |-> 0] /\ unsealed = FALSE /\ edits = 0

\* git commit, of anything, with some contents sealed by earlier commits.
CommitBegins ==
    /\ at = "idle" /\ at' = "start"
    /\ strict' \in BOOLEAN /\ index' \in [Files -> Contents]
    /\ history' \in {{}} \cup {Files \X {c} : c \in Contents \ {InHead, Gone}}
    /\ UNCHANGED <<listed, hashes, pending, config, unsealed, edits>>

\* The launcher finds no executable, or the persistence is not valid.
CannotStart == at = "start" /\ at' = "stopped"
               /\ UNCHANGED <<strict, index, listed, hashes, pending, history, config, unsealed, edits>>

\* snapshot_governance_artifacts, and the paths of check --staged.
ListForCheck ==
    /\ at = "start" /\ at' = "listed"
    /\ listed' = Staged
    /\ config' = [config EXCEPT !.before = config.disk]
    /\ UNCHANGED <<strict, index, hashes, pending, history, unsealed, edits>>

\* diff, with the paths listed and the index as it is by now: a file without
\* text has no evidence. The lock may be busy: then the exit code is 0 as well,
\* and the pending evidence is the one that was there.
AnalysedEvidence == {e \in Of(listed \cap Staged) : e[2] # Gone}
WritePending == pending' = AnalysedEvidence

\* check --staged: the evidence, then gate, audit and protected paths decide the
\* exit code.
Check(code) ==
    /\ at = "listed"
    /\ \/ listed = {} /\ UNCHANGED pending
       \/ listed # {} /\ WritePending
       \/ listed # {} /\ UNCHANGED pending   \* refused, or the lock is busy
    /\ at' = IF code >= 2 \/ (code = 1 /\ strict) THEN "stopped" ELSE "checked"
    /\ UNCHANGED <<strict, index, listed, hashes, history, config, unsealed, edits>>

\* check --pre-commit lists anew.
ListForSeal ==
    /\ at = "checked"
    /\ listed' = Staged /\ hashes' = {}
    /\ at' = IF Staged = {} THEN "sealed" ELSE "sealing"
    /\ UNCHANGED <<strict, index, pending, history, config, unsealed, edits>>

\* stagedEvidenceForPaths asks git for one path after the other, in the order
\* listed; git cannot show a path that is not in the index, and the exception
\* ends the command.
Hashed == {e[1] : e \in hashes}
HashStaged ==
    /\ at = "sealing"
    /\ \E f \in listed \ Hashed :
         IF index[f] = Gone THEN at' = "stopped" /\ UNCHANGED hashes
         ELSE /\ hashes' = hashes \cup Of({f})
              /\ at' = IF listed \subseteq Hashed \cup {f} THEN "hashed" ELSE "sealing"
    /\ UNCHANGED <<strict, index, listed, pending, history, config, unsealed, edits>>

\* A mutant of Matching: only the names of the files are compared.
MatchingNames(p, h) == {e[1] : e \in p} = {e[1] : e \in h}

\* evidenceSignature
Matching(p, h) == p = h

\* finalizePendingDiff under the governance write lock.
Seal ==
    /\ at = "hashed" /\ pending # None /\ Matching(pending, hashes)
    /\ history' = history \cup pending /\ pending' = None
    /\ at' \in {"sealed", "stopped"}      \* the compaction that follows may fail
    /\ UNCHANGED <<strict, index, listed, hashes, config, unsealed, edits>>

Mismatch ==
    /\ at = "hashed" /\ pending # None /\ ~Matching(pending, hashes)
    /\ at' = "stopped"
    /\ UNCHANGED <<strict, index, listed, hashes, pending, history, config, unsealed, edits>>

\* verifyStagedEvidence: nothing is pending; what is sealed and staged must do.
Verify ==
    /\ at = "hashed" /\ pending = None
    /\ \E committed \in {{}, history} :
          at' = IF hashes \subseteq committed THEN "sealed" ELSE "stopped"
    /\ UNCHANGED <<strict, index, listed, hashes, pending, history, config, unsealed, edits>>

\* LockTimeoutError is exit code 0.
LockBusy ==
    /\ at = "hashed" /\ at' = "sealed" /\ unsealed' = TRUE
    /\ UNCHANGED <<strict, index, listed, hashes, pending, history, config, edits>>

\* stage_changed_governance_artifacts: only what changed since the hook began;
\* only under tracked persistence. Then git commits.
StageArtifacts ==
    /\ at = "sealed" /\ at' = "committed"
    /\ \/ UNCHANGED config
       \/ config' = [config EXCEPT !.staged = IF config.disk # config.before THEN config.disk ELSE @]
    /\ UNCHANGED <<strict, index, listed, hashes, pending, history, unsealed, edits>>

\* Somebody stages another content, edits config.yml, or runs a check that
\* leaves pending evidence of the working tree.
Meanwhile ==
    /\ at \notin {"idle", "stopped", "committed"} /\ edits < MaxEdits /\ edits' = edits + 1
    /\ \/ \E f \in Files, c \in Contents : index' = [index EXCEPT ![f] = c] /\ UNCHANGED <<config, pending>>
       \/ config' = [config EXCEPT !.disk = @ + 1] /\ UNCHANGED <<index, pending>>
       \/ \E f \in Files, c \in Contents \ {InHead, Gone} : pending' = {<<f, c>>} /\ UNCHANGED <<index, config>>
    /\ UNCHANGED <<at, strict, listed, hashes, history, unsealed>>

HookNext == \/ CommitBegins \/ CannotStart \/ ListForCheck \/ (\E code \in 0..3 : Check(code)) \/ ListForSeal \/ HashStaged
            \/ Seal \/ Mismatch \/ Verify \/ LockBusy \/ StageArtifacts \/ Meanwhile

\* What the hook lets pass was hashed, and what was hashed is sealed evidence of
\* that very content, unless the lock was busy (finalizeStagedEvidence).
PassedIsSealed ==
    at \in {"sealed", "committed"} => unsealed \/ listed = {} \/ (hashes \subseteq history /\ {e[1] : e \in hashes} = listed)

\* The hook commits no configuration it did not see change: what lay unstaged
\* before it began stays unstaged (stage_changed_governance_artifacts).
OnlyChangedArtifacts == at = "committed" /\ config.disk = config.before => config.staged = 0

---------------------------------------------------------------------------
(* The overrides of a check (cli/semanticProfiles.ts). A file is analysed  *)
(* with the whole batch and, should that fail, on its own: batch and alone *)
(* are the files for which it succeeds.  Overrides are names, "all" too.   *)

\* Files classified by hand: they fail alone, and an override names them.
Manual(paths, batch, alone, overrides) ==
    {f \in paths \ (batch \cup alone) : f \in overrides \/ "all" \in overrides}

\* automaticSemanticProfiles: with no file of the batch classified, all are
\* analysed again.
Profiles(paths, batch, alone, overrides) ==
    LET manual == Manual(paths, batch, alone, overrides)
        auto == paths \cap (batch \cup alone)
    IN  IF overrides \ (paths \cup {"all"}) # {} \/ paths \ (auto \cup manual) # {} THEN None
        ELSE [auto |-> auto, manual |-> manual, applied |-> manual, ignored |-> overrides \ (manual \cup {"all"})]

\* Every file is classified, by hand only where it has to be, and every override
\* is either applied or reported as ignored.
OverridesExact(paths, batch, alone, overrides) ==
    LET p == Profiles(paths, batch, alone, overrides)
    IN  p # None => /\ p.auto \cup p.manual = paths /\ p.auto \cap p.manual = {}
                    /\ p.applied \cup p.ignored \cup {"all"} = p.manual \cup overrides \cup {"all"}
                    /\ p.manual \cap (batch \cup alone) = {}

---------------------------------------------------------------------------
(* Policies over a check *)

\* combinedExit
Combined(codes) == Max(codes \cup {0})

\* protectedPathExit: a policy that cannot be read is an error. Rules are
\* [matches, allow, level].
Protected(policy, paths) ==
    LET hit == {r \in policy.rules : \E p \in paths : p \in r.matches \ r.allow}
    IN  IF policy.errors THEN 3
        ELSE Combined({IF r.level = "block" THEN 2 ELSE 1 : r \in hit})

\* checkCommand: without impact evidence, gate and audit are not asked.
CheckExit(impact, gate, audit, protected) ==
    IF protected = 3 THEN 3 ELSE IF impact # 0 THEN Combined({impact, protected}) ELSE Combined({gate, audit, protected})

\* A check that passes passed every part of it, and no protected path is lost
\* behind another result.
CheckHonest(impact, gate, audit, policy, paths) ==
    LET p == Protected(policy, paths)
        e == CheckExit(impact, gate, audit, p)
    IN  /\ e = 0 => impact = 0 /\ gate = 0 /\ audit = 0 /\ p = 0
        /\ e >= p

\* evaluateAuthorityHygieneQuality: selected maps scripts to actions.
Quality(selected, ran, failed, hits) ==
    LET unavailable == (DOMAIN selected \ ran) \cup (failed \cap DOMAIN selected)
        triggered == {selected[s] : s \in hits \cap DOMAIN selected}
    IN  CASE unavailable # {} \/ "block" \in triggered -> "BLOCK"
          [] unavailable = {} /\ triggered = {"warn"} -> "WARN"
          [] OTHER -> "PASS"

\* PASS speaks for every rule that was selected (authorityHygiene.ts).
QualitySpeaks(selected, ran, failed, hits) ==
    Quality(selected, ran, failed, hits) = "PASS" => DOMAIN selected \subseteq (ran \ failed) \ hits

\* auditConfig record: the event is written before the state, and a process that
\* dies in between leaves the event alone. A log is [state, events].
Record(log, config_, dies) ==
    CASE log.state = None -> [log EXCEPT !.state = IF dies THEN @ ELSE config_]
      [] log.state # None /\ log.state # config_ ->
            [state |-> IF dies THEN log.state ELSE config_,
             events |-> Append(log.events, [from |-> log.state, to |-> config_])]
      [] OTHER -> log

\* auditConfig check
Audit(log, config_) == IF log.state = None THEN "uninitialized" ELSE IF log.state = config_ THEN "unchanged" ELSE "drift"

\* The log after a sequence of records [config, dies].
Recorded(records) ==
    FoldLeft(LAMBDA log, r : Record(log, r.config, r.dies), [state |-> None, events |-> <<>>], records)

\* Every event starts where the one before it led, or where it started when its
\* writer died: no change of the configuration is missing from the log; and
\* whoever checks after a record that lived sees no drift.
LogConnected(records) ==
    LET log == Recorded(records)
        e == log.events
    IN  /\ \A i \in 1..(Len(e) - 1) : e[i + 1].from \in {e[i].to, e[i].from}
        /\ e # <<>> => log.state \in {Last(e).to, Last(e).from}
        /\ (records # <<>> /\ ~Last(records).dies) => Audit(log, Last(records).config) = "unchanged"
=============================================================================
