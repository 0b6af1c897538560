---------------------------- MODULE HistoryLedger ----------------------------
(***************************************************************************)
(* The evidence ledger of one project (packages/core, adapter/storage/     *)
(* HistoryLedger, JsonHistoryStore, JsonPendingDiffStore; domain/          *)
(* historyRetention), under the commands that drive it: diff writes        *)
(* pending evidence or seals history, the commit hook seals pending        *)
(* evidence and then compacts old entries into the checkpoint, scan drops  *)
(* pending evidence.  These commands run one at a time under the           *)
(* governance lock and may die between two file operations; review and     *)
(* record read the ledger without the lock.                                *)
(*                                                                         *)
(* An entry is its content-addressed id and the day of its timestamp.  A   *)
(* checkpoint stands for the entries folded into its deltas: the set of    *)
(* their ids, and their number (sourceEntryCount), which differ when an    *)
(* entry was folded twice.                                                 *)
(***************************************************************************)
EXTENDS Integers, FiniteSets

CONSTANTS Ids,      \* history entry ids
          Window,   \* rawWindowDays
          None,     \* no file
          MaxDay    \* bound: the model stops the calendar here

ASSUME LedgerAssumption ==
    Window \in Nat \ {0} /\ MaxDay \in Nat /\ IsFiniteSet(Ids)

VARIABLES day,         \* the calendar
          pending,     \* pending/diff.json
          raw,         \* history/<entryId>.json
          checkpoint,  \* history/_checkpoint.v1.json
          marker,      \* history/_compaction.v1.json
          pc,          \* the command under the governance lock
          second,      \* recoverPendingCompaction runs for the second time
          reader,      \* a command that reads without the lock
          sealed       \* ids of all evidence that was ever sealed

disk == <<pending, raw, checkpoint, marker>>
vars == <<day, disk, pc, second, reader, sealed>>

IdsOf(entries) == {e.id : e \in entries}

-----------------------------------------------------------------------------
(* readableLedger                                                           *)

\* A marker and a checkpoint must agree, else the read throws.
Agree(m, c) == m # None /\ c # None => m.checkpoint = c

Effective(m, c) == IF m # None THEN m.checkpoint ELSE c
Hidden(m) == IF m = None THEN {} ELSE m.ids
Visible(m, entries) == {e \in entries : e.id \notin Hidden(m)}

ReadableLedger == Agree(marker, checkpoint)

Folded(c) == IF c = None THEN {} ELSE c.ids
FoldedCount(c) == IF c = None THEN 0 ELSE c.count

-----------------------------------------------------------------------------

Init ==
    /\ day = 0
    /\ pending = None /\ raw = {} /\ checkpoint = None /\ marker = None
    /\ pc = "idle" /\ second = FALSE
    /\ reader = [at |-> "idle"]
    /\ sealed = {}

\* An id that is in the checkpoint is not diffed again: it names a baseline, a
\* revision and an evidence set older than the raw window.
Fresh(id) == id \notin Folded(Effective(marker, checkpoint))

\* diff with pending persistence.  It reads the ledger first; the same content
\* keeps the file and its first timestamp, other content replaces it.
DiffPending(id) ==
    /\ pc = "idle"
    /\ ReadableLedger /\ Fresh(id)
    /\ pending' = IF pending # None /\ pending.id = id THEN pending
                                                      ELSE [id |-> id, at |-> day]
    /\ UNCHANGED <<day, raw, checkpoint, marker, pc, second, reader, sealed>>

\* diff with history persistence: writeHistory, once per id.
DiffSealed(id) ==
    /\ pc = "idle"
    /\ ReadableLedger /\ Fresh(id)
    /\ raw' = IF id \in IdsOf(raw) THEN raw ELSE raw \cup {[id |-> id, at |-> day]}
    /\ sealed' = sealed \cup {id}
    /\ UNCHANGED <<day, pending, checkpoint, marker, pc, second, reader>>

\* A scan has published a new baseline: clearPendingDiff.
ScanClears ==
    /\ pc = "idle" /\ pending # None
    /\ pending' = None
    /\ UNCHANGED <<day, raw, checkpoint, marker, pc, second, reader, sealed>>

\* sealPendingEvidence, when the staged evidence is the pending one (it does
\* nothing otherwise): the history file first, then the pending file goes.
FinalizeWrite ==
    /\ pc = "idle" /\ pending # None
    /\ raw' = IF pending.id \in IdsOf(raw) THEN raw ELSE raw \cup {pending}
    /\ sealed' = sealed \cup {pending.id}
    /\ pc' = "unlink"
    /\ UNCHANGED <<day, pending, checkpoint, marker, second, reader>>

FinalizeUnlink ==
    /\ pc = "unlink"
    /\ pending' = None
    /\ pc' = "recover" /\ second' = FALSE
    /\ UNCHANGED <<day, raw, checkpoint, marker, reader, sealed>>

\* recoverPendingCompaction: publish the marker's checkpoint ...
AfterRecovery == IF second THEN "idle" ELSE "compact"

RecoverNothing ==
    /\ pc = "recover" /\ marker = None
    /\ pc' = AfterRecovery
    /\ UNCHANGED <<day, disk, second, reader, sealed>>

SkipCheckpoint ==
    /\ pc = "recover" /\ marker # None
    /\ pc' = "delete"
    /\ UNCHANGED <<day, disk, second, reader, sealed>>
PublishCheckpoint ==
    /\ pc = "recover" /\ marker # None
    /\ checkpoint' = marker.checkpoint
    /\ pc' = "delete"
    /\ UNCHANGED <<day, pending, raw, marker, second, reader, sealed>>

\* ... delete the raw files it lists, one by one, and then the marker.
DeleteRaw(e) ==
    /\ pc = "delete" /\ e.id \in marker.ids
    /\ raw' = raw \ {e}
    /\ UNCHANGED <<day, pending, checkpoint, marker, pc, second, reader, sealed>>

DeleteMarker ==
    /\ pc = "delete" /\ IdsOf(raw) \cap marker.ids = {}
    /\ marker' = None
    /\ pc' = AfterRecovery
    /\ UNCHANGED <<day, pending, raw, checkpoint, second, reader, sealed>>

\* The midnight that begins the retention window, never before the one of the
\* last checkpoint.
Cutoff ==
    IF checkpoint # None /\ checkpoint.at > day - Window
      THEN checkpoint.at ELSE day - Window

\* compactHistoryRecords: entries from before the cutoff, and the checkpoint
\* that folds them in.
Compacted == {e \in Visible(marker, raw) : e.at < Cutoff}
NextCheckpointRecount ==
    [at    |-> Cutoff,
     ids   |-> Folded(checkpoint) \cup IdsOf(Compacted),
     count |-> FoldedCount(checkpoint) + Cardinality(raw)]
NextCheckpoint ==
    [at    |-> Cutoff,
     ids   |-> Folded(checkpoint) \cup IdsOf(Compacted),
     count |-> FoldedCount(checkpoint) + Cardinality(Compacted)]

\* compactHistoryLedger, after recovery: publish the marker, then clean up.
Compact ==
    /\ pc = "compact"
    /\ IF Compacted = {}
         THEN /\ pc' = "idle"
              /\ UNCHANGED <<marker, second>>
         ELSE /\ marker' = [checkpoint |-> NextCheckpoint, ids |-> IdsOf(Compacted)]
              /\ pc' = "recover" /\ second' = TRUE
    /\ UNCHANGED <<day, pending, raw, checkpoint, reader, sealed>>

\* The command dies, or a file operation fails and ends it.
Crash ==
    /\ pc # "idle"
    /\ pc' = "idle"
    /\ UNCHANGED <<day, disk, second, reader, sealed>>

NextDay ==
    /\ day < MaxDay
    /\ day' = day + 1
    /\ UNCHANGED <<disk, pc, second, reader, sealed>>

-----------------------------------------------------------------------------
(* A reader without the lock: marker, checkpoint, directory, files.         *)

ReadMarker ==
    /\ reader.at \in {"idle", "done", "error"}
    /\ reader' = [at |-> "checkpoint", marker |-> marker, before |-> sealed]
    /\ UNCHANGED <<day, disk, pc, second, sealed>>

ReadCheckpoint ==
    /\ reader.at = "checkpoint"
    /\ reader' = IF Agree(reader.marker, checkpoint)
                   THEN [at |-> "list", marker |-> reader.marker,
                         checkpoint |-> Effective(reader.marker, checkpoint),
                         before |-> reader.before]
                   ELSE [at |-> "error"]
    /\ UNCHANGED <<day, disk, pc, second, sealed>>

ListRecords ==
    /\ reader.at = "list"
    /\ reader' = [at |-> "read", marker |-> reader.marker,
                  checkpoint |-> reader.checkpoint, listed |-> raw,
                  before |-> reader.before]
    /\ UNCHANGED <<day, disk, pc, second, sealed>>

\* A listed file that is gone makes the read throw.
ReadRecords ==
    /\ reader.at = "read"
    /\ reader' = IF reader.listed \subseteq raw
                   THEN [at |-> "done", checkpoint |-> reader.checkpoint,
                         records |-> Visible(reader.marker, reader.listed),
                         before |-> reader.before]
                   ELSE [at |-> "error"]
    /\ UNCHANGED <<day, disk, pc, second, sealed>>

Reading == ReadMarker \/ ReadCheckpoint \/ ListRecords \/ ReadRecords

Command ==
    \/ \E id \in Ids : DiffPending(id) \/ DiffSealed(id)
    \/ ScanClears \/ FinalizeWrite
Work ==
    \/ FinalizeUnlink \/ RecoverNothing \/ PublishCheckpoint
    \/ \E e \in raw : DeleteRaw(e)
    \/ DeleteMarker \/ Compact

Next == Command \/ Work \/ Crash \/ NextDay \/ Reading

Spec == Init /\ [][Next]_vars

\* Every command that can be started again and again is started, and a command
\* that runs goes on.
FairSpec ==
    /\ Spec
    /\ \A id \in Ids : SF_vars(DiffPending(id))
    /\ SF_vars(FinalizeWrite)
    /\ WF_vars(Work)

-----------------------------------------------------------------------------

Entry == [id : Ids, at : 0..MaxDay]
Checkpoint == [at : (-Window)..MaxDay, ids : SUBSET Ids, count : 0..Cardinality(Ids)]

Marker == [checkpoint : Checkpoint, ids : SUBSET Ids]

\* "No file" is no content of one.
ASSUME NoneAssumption == None \notin Entry \cup Checkpoint \cup Marker

TypeOK ==
    /\ day \in 0..MaxDay
    /\ pending \in Entry \cup {None}
    /\ raw \subseteq Entry
    /\ checkpoint = None \/ checkpoint \in Checkpoint
    /\ marker = None \/ marker \in Marker
    /\ pc \in {"idle", "unlink", "recover", "delete", "compact"}
    /\ second \in BOOLEAN
    /\ sealed \subseteq Ids

\* A checkpoint and entries that count every one of ids, and each once.
Exact(c, entries, ids) ==
    /\ FoldedCount(c) = Cardinality(Folded(c))
    /\ Cardinality(IdsOf(entries)) = Cardinality(entries)
    /\ Folded(c) \cap IdsOf(entries) = {}
    /\ Folded(c) \cup IdsOf(entries) = ids

\* At every instant, at which the command may die, replaying what a reader
\* takes from the files counts every piece of sealed evidence exactly once.
ReplayExact ==
    ReadableLedger => Exact(Effective(marker, checkpoint), Visible(marker, raw), sealed)

\* A raw file goes only when the checkpoint that folds it in is on disk.
RawCovered ==
    [][\A e \in raw : e \notin raw' => e.id \in Folded(checkpoint)]_vars

\* A reader without the lock counts evidence sealed before it began exactly
\* once too.
ReaderExact ==
    reader.at = "done" =>
        /\ Folded(reader.checkpoint) \cap IdsOf(reader.records) = {}
        /\ reader.before \subseteq Folded(reader.checkpoint) \cup IdsOf(reader.records)

\* However a command died, later commands make the ledger readable again.
Recovers == (~ReadableLedger) ~> ReadableLedger
=============================================================================
