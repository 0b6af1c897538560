---------------------------- MODULE BaselineStore ----------------------------
(***************************************************************************)
(* The structural baseline of one project on disk (packages/core, adapter/ *)
(* storage/BaselineGeneration, BaselineGenerationValidation,               *)
(* BaselineStoreAccess, JsonBaselineStore; application/scan and            *)
(* scanIncremental).  A complete scan stages a generation, moves the       *)
(* active one aside, installs the staged one and removes the backup; an    *)
(* incremental scan rewrites shards of the active generation in place and  *)
(* then its index.  Scans run one at a time under the governance lock and  *)
(* may die between two file operations; readers take no lock.              *)
(*                                                                         *)
(* A generation has a shard for each source path and an index, whose       *)
(* snapshotSha256 is the identity of the shards it was computed for.  A    *)
(* staging directory that a dead scan left is never looked at again.       *)
(***************************************************************************)
EXTENDS Naturals, Sequences

CONSTANTS Paths,     \* source files
          Versions,  \* what a file's metrics can be
          Absent,    \* no such file, no such shard
          NoDir,     \* the directory does not exist
          MaxScans   \* bound: scans in one behaviour

Contents == [Paths -> Versions \cup {Absent}]
Directory == [no : Nat, index : Contents, shards : Contents]

BaselineAssumption == MaxScans \in Nat /\ NoDir \notin Directory

VARIABLES source,   \* the files as they are
          active,   \* baseline/
          backups,  \* baseline.backup-*, oldest first
          pc,       \* the scan under the governance lock
          snap,     \* the snapshot it computed, with its number
          todo,     \* shards an incremental scan has still to write
          moved,    \* this publication has a backup of its own
          scans,    \* scans begun
          last      \* how the last scan ended

vars == <<source, active, backups, pc, snap, todo, moved, scans, last>>

Empty == [p \in Paths |-> Absent]

\* readBaselineGenerationDirectory: the shards are the ones of the identity.
Complete(dir) == dir # NoDir /\ dir.index = dir.shards

\* readableBaselineDirFor: the active directory, else the newest backup.
ReadableBackupFirst ==
    IF backups # <<>> THEN backups[Len(backups)] ELSE active
ReadableDir ==
    IF active # NoDir THEN active
    ELSE IF backups # <<>> THEN backups[Len(backups)] ELSE NoDir

\* The backup recoverBaseline promotes: the newest that is complete.
Newest(indices) == CHOOSE i \in indices : \A j \in indices : j <= i
CompleteBackups == {i \in 1..Len(backups) : Complete(backups[i])}

Without(s, i) == SubSeq(s, 1, i - 1) \o SubSeq(s, i + 1, Len(s))

Init ==
    /\ source \in [Paths -> Versions]
    /\ active = NoDir /\ backups = <<>>
    /\ pc = "idle"
    /\ snap = [no |-> 0, shards |-> Empty]
    /\ todo = {} /\ moved = FALSE
    /\ scans = 0 /\ last = "none"

\* Somebody edits, adds or deletes a source file.
Edit(p, v) ==
    /\ source[p] # v
    /\ source' = [source EXCEPT ![p] = v]
    /\ UNCHANGED <<active, backups, pc, snap, todo, moved, scans, last>>

End(result) == pc' = "idle" /\ last' = result

-----------------------------------------------------------------------------
(* scan of everything: publishBaselineSnapshot                              *)

\* A scan that is given no file returns at once.
FullScan ==
    /\ pc = "idle" /\ scans < MaxScans /\ source # Empty
    /\ scans' = scans + 1
    /\ snap' = [no |-> scans + 1, shards |-> source]
    /\ moved' = FALSE
    /\ pc' = "recover" /\ last' = "none"
    /\ UNCHANGED <<source, active, backups, todo>>

Recover ==
    /\ pc = "recover"
    /\ pc' = "match"
    /\ IF active = NoDir /\ CompleteBackups # {}
         THEN LET i == Newest(CompleteBackups)
              IN  active' = backups[i] /\ backups' = Without(backups, i)
         ELSE UNCHANGED <<active, backups>>
    /\ UNCHANGED <<source, snap, todo, moved, scans, last>>

\* activeSnapshotMatches: nothing to publish.
Matches ==
    /\ pc = "match"
    /\ Complete(ReadableDir) /\ ReadableDir.index = snap.shards
    /\ End("full")
    /\ UNCHANGED <<source, active, backups, snap, todo, moved, scans>>

\* writeStagingGeneration, then the active directory becomes a backup.
MoveAside ==
    /\ pc = "match"
    /\ ~(Complete(ReadableDir) /\ ReadableDir.index = snap.shards)
    /\ pc' = "install"
    /\ IF active # NoDir
         THEN /\ backups' = Append(backups, active)
              /\ active' = NoDir
              /\ moved' = TRUE
         ELSE UNCHANGED <<active, backups, moved>>
    /\ UNCHANGED <<source, snap, todo, scans, last>>

Install ==
    /\ pc = "install"
    /\ active' = [no |-> snap.no, index |-> snap.shards, shards |-> snap.shards]
    /\ pc' = "drop"
    /\ UNCHANGED <<source, backups, snap, todo, moved, scans, last>>

\* The rename fails for good: the backup of this publication goes back.
InstallFails ==
    /\ pc = "install"
    /\ IF moved
         THEN /\ active' = backups[Len(backups)]
              /\ backups' = SubSeq(backups, 1, Len(backups) - 1)
         ELSE UNCHANGED <<active, backups>>
    /\ End("failed")
    /\ UNCHANGED <<source, snap, todo, moved, scans>>

\* rmSync of the backup, file by file ...
DropFile(p) ==
    /\ pc = "drop" /\ moved
    /\ backups[Len(backups)].shards[p] # Absent
    /\ backups' = [backups EXCEPT ![Len(backups)].shards[p] = Absent]
    /\ UNCHANGED <<source, active, pc, snap, todo, moved, scans, last>>

\* ... and the directory.
DropBackup ==
    /\ pc = "drop"
    /\ backups' = IF moved THEN SubSeq(backups, 1, Len(backups) - 1) ELSE backups
    /\ End("full")
    /\ UNCHANGED <<source, active, snap, todo, moved, scans>>

-----------------------------------------------------------------------------
(* scan of what changed: publishIncrementalEntries                          *)

\* It reads the generation it builds on, and fails when that is not complete;
\* with no generation it is a scan of everything.
IncrementalScan ==
    /\ pc = "idle" /\ scans < MaxScans
    /\ source # Empty
    /\ Complete(ReadableDir)
    /\ scans' = scans + 1
    /\ snap' = [no |-> scans + 1, shards |-> source]
    /\ todo' = {p \in Paths : ReadableDir.shards[p] # source[p]}
    /\ IF todo' = {} THEN End("incremental") ELSE pc' = "shards" /\ last' = "none"
    /\ UNCHANGED <<source, active, backups, moved>>

\* assertNoPendingBaselineRecovery, which every write in place runs first.
MayWrite == backups = <<>>

\* The changed shards are written, then the shards of deleted files go.
WriteShard(p) ==
    /\ pc = "shards" /\ p \in todo /\ MayWrite
    /\ snap.shards[p] = Absent => \A q \in todo : snap.shards[q] = Absent
    /\ active' = [active EXCEPT !.shards[p] = snap.shards[p]]
    /\ todo' = todo \ {p}
    /\ UNCHANGED <<source, backups, pc, snap, moved, scans, last>>

WriteIndexEarly ==
    /\ pc = "shards" /\ MayWrite
    /\ active' = [active EXCEPT !.index = snap.shards, !.no = snap.no]
    /\ End("incremental")
    /\ UNCHANGED <<source, backups, snap, todo, moved, scans>>
WriteIndex ==
    /\ pc = "shards" /\ todo = {} /\ MayWrite
    /\ active' = [active EXCEPT !.index = snap.shards, !.no = snap.no]
    /\ End("incremental")
    /\ UNCHANGED <<source, backups, snap, todo, moved, scans>>

WriteRefused ==
    /\ pc = "shards" /\ ~MayWrite
    /\ End("failed") /\ todo' = {}
    /\ UNCHANGED <<source, active, backups, snap, moved, scans>>

\* The scan dies between two file operations, or one of them fails.
Crash ==
    /\ pc # "idle"
    /\ End("failed") /\ todo' = {}
    /\ UNCHANGED <<source, active, backups, snap, moved, scans>>

Next ==
    \/ \E p \in Paths, v \in Versions \cup {Absent} : Edit(p, v)
    \/ FullScan \/ Recover \/ Matches \/ MoveAside \/ Install \/ InstallFails
    \/ \E p \in Paths : DropFile(p)
    \/ DropBackup
    \/ IncrementalScan
    \/ \E p \in Paths : WriteShard(p)
    \/ WriteIndex \/ WriteRefused
    \/ Crash

Spec == Init /\ [][Next]_vars

-----------------------------------------------------------------------------

\* No step of a complete scan, no death or failure of one and no recovery takes
\* a complete generation away from readers: there is one at every instant of a
\* publication.  Only a shard that an incremental scan writes in place does.
ReadableKept ==
    [][Complete(ReadableDir) => Complete(ReadableDir)' \/ pc = "shards"]_vars

\* Nor do readers ever find an older generation than before.
NeverOlder ==
    [][ReadableDir # NoDir /\ ReadableDir' # NoDir
         => ReadableDir'.no >= ReadableDir.no]_vars

\* When a scan reports success, what readers find is a complete generation of
\* the files it saw, whatever died before it: a complete scan repairs what an
\* incremental one that died between two shards left torn, an incremental one
\* never builds on it.
ScansExact ==
    last \in {"full", "incremental"} =>
        Complete(ReadableDir) /\ ReadableDir.shards = snap.shards

\* A complete scan ends with no recovery pending, so that scans in place can
\* write again.
FullScanUnblocks == last = "full" => MayWrite

\* After a scan in place died the next one can read the generation and tell by
\* the files' hashes what is left to do.
InPlaceResumes == pc = "idle" /\ ReadableDir # NoDir => Complete(ReadableDir)
=============================================================================
