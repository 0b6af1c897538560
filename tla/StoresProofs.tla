----------------------------- MODULE StoresProofs -----------------------------
(***************************************************************************)
(* Theorems about the four stores of MCStores, for all of their constants. *)
(* They share no state: each part gives the inductive invariant of one     *)
(* store and the steps that keep it, and the last part the theorems about  *)
(* the stores side by side.                                                *)
(*                                                                         *)
(* The ledger: whatever command dies where, what a reader is to take       *)
(* counts every piece of sealed evidence once, whether or not marker and   *)
(* checkpoint agree, so that it can be read (Counts); and before a raw     *)
(* file is hidden, the checkpoint on disk or in the marker has folded it   *)
(* in (Markers).  The sessions: an entry of the store is a session of this *)
(* incarnation as its client knows it (Stored), and epoch and fence tell   *)
(* sessions apart (Unique), so that no credential takes the place of       *)
(* another.  The baseline: a generation that a scan in place left torn has *)
(* no backup beside it (Alone), so that recovery never goes back.  The     *)
(* validation evidence has a module of its own, EvidenceServiceProofs.     *)
(***************************************************************************)
EXTENDS MCStores, FiniteSetTheorems, SequenceTheorems, TLAPS

-----------------------------------------------------------------------------
(* The ledger                                                               *)

\* An id names one raw file.
OnePerId(entries) == \A e, f \in entries : e.id = f.id => e = f
Counted(c) == FoldedCount(c) = Cardinality(Folded(c))

LedgerTypes == TypeOK /\ IsFiniteSet(raw) /\ OnePerId(raw)

\* Where a command stands: compaction begins without a marker, and raw files go
\* after the marker's checkpoint was published; the evidence that is to be
\* sealed was sealed before.
Points ==
    /\ pc = "compact" => marker = None
    /\ pc = "delete" => marker # None /\ checkpoint = marker.checkpoint
    /\ pc \in {"recover", "compact", "delete"} => pending = None

Markers == marker # None => marker.ids \subseteq marker.checkpoint.ids /\ Counted(marker.checkpoint)

\* The checkpoint and the raw files that are visible, as the marker would have
\* them, are all that was sealed, and share nothing; pending evidence is not in
\* the checkpoint.
Current == Effective(marker, checkpoint)
Counts ==
    /\ Counted(checkpoint)
    /\ Folded(Current) \cap IdsOf(Visible(marker, raw)) = {}
    /\ Folded(Current) \cup IdsOf(Visible(marker, raw)) = sealed
    /\ pending # None => pending.id \notin Folded(Current)

LedgerInv == LedgerTypes /\ Points /\ Markers /\ Counts

-----------------------------------------------------------------------------
(* The files.                                                               *)

LEMMA RawEntries ==
    ASSUME LedgerTypes
    PROVE  /\ \A e \in raw : e \in Entry /\ e.id \in Ids
           /\ IdsOf(raw) \subseteq Ids
  BY DEF LedgerTypes, TypeOK, Entry, IdsOf

\* As many ids as entries, where an id names one entry.
LEMMA OneIdEach ==
    ASSUME NEW entries, IsFiniteSet(entries), OnePerId(entries)
    PROVE  IsFiniteSet(IdsOf(entries)) /\ Cardinality(IdsOf(entries)) = Cardinality(entries)
  <1> DEFINE f == [e \in entries |-> e.id]
  <1>1. f \in [entries -> IdsOf(entries)]
    BY DEF IdsOf
  <1>2. IsInjective(f)
    BY DEF IsInjective, OnePerId
  <1>3. \A i \in IdsOf(entries) : \E e \in entries : f[e] = i
    BY DEF IdsOf
  <1>4. f \in Bijection(entries, IdsOf(entries))
    BY <1>1, <1>2, <1>3 DEF Bijection, Injection, Surjection
  <1>5. ExistsBijection(entries, IdsOf(entries))
    BY <1>4 DEF ExistsBijection
  <1> QED
    BY <1>5, FS_Bijection

LEMMA Part ==
    ASSUME NEW entries, IsFiniteSet(entries), OnePerId(entries), NEW part \in SUBSET entries
    PROVE  IsFiniteSet(part) /\ OnePerId(part)
  BY FS_Subset DEF OnePerId

\* What is on disk is a checkpoint or no file, and so is what the marker has.
LEMMA Checkpoints ==
    ASSUME LedgerTypes
    PROVE  /\ checkpoint # None => checkpoint \in Checkpoint /\ Folded(checkpoint) = checkpoint.ids
           /\ marker # None => /\ marker.checkpoint \in Checkpoint /\ marker.ids \subseteq Ids
                               /\ marker.checkpoint # None
                               /\ Folded(marker.checkpoint) = marker.checkpoint.ids
                               /\ Current = marker.checkpoint
           /\ marker = None => Current = checkpoint
           /\ Folded(checkpoint) \subseteq Ids
  <1>1. \A c \in Checkpoint : c # None /\ c.ids \subseteq Ids
    BY NoneAssumption DEF Checkpoint
  <1>2. \A m \in Marker : m.checkpoint \in Checkpoint /\ m.ids \subseteq Ids
    BY DEF Marker
  <1> QED
    BY <1>1, <1>2 DEF LedgerTypes, TypeOK, Folded, Current, Effective

\* No raw file is hidden whose evidence the checkpoint does not count.
LEMMA HiddenFolded ==
    ASSUME LedgerInv
    PROVE  Hidden(marker) \subseteq Folded(Current)
  BY Checkpoints DEF LedgerInv, Markers, Hidden

\* Evidence that the checkpoint does not count is sealed once.
LEMMA SealStep ==
    ASSUME LedgerInv, NEW p \in Entry, p.id \notin Folded(Current),
           raw' = IF p.id \in IdsOf(raw) THEN raw ELSE raw \cup {p},
           sealed' = sealed \cup {p.id},
           UNCHANGED <<day, pending, checkpoint, marker, second>>,
           pc' = "idle" \/ pc' = "unlink"
    PROVE  LedgerInv'
  <1>1. p.id \in Ids
    BY DEF Entry
  <1>2. p.id \notin Hidden(marker)
    BY HiddenFolded
  <1>3. TypeOK'
    BY <1>1 DEF LedgerInv, LedgerTypes, TypeOK
  <1>4. IsFiniteSet(raw') /\ OnePerId(raw')
    <2>1. CASE p.id \in IdsOf(raw)
      BY <2>1 DEF LedgerInv, LedgerTypes, OnePerId
    <2>2. CASE p.id \notin IdsOf(raw)
      BY <2>2, FS_AddElement DEF LedgerInv, LedgerTypes, OnePerId, IdsOf
    <2> QED
      BY <2>1, <2>2
  <1>5. IdsOf(Visible(marker, raw'))  = IdsOf(Visible(marker, raw)) \cup {p.id}
    BY <1>2 DEF Visible, IdsOf
  <1>6. Current' = Current
    BY DEF Current
  <1>7. Counts'
    BY <1>5, <1>6 DEF LedgerInv, Counts, Counted
  <1>8. Points' /\ Markers'
    BY DEF LedgerInv, Points, Markers, Counted
  <1> QED
    BY <1>3, <1>4, <1>7, <1>8 DEF LedgerInv, LedgerTypes

\* A step that leaves the ledger as it is.
LEMMA RestStep ==
    ASSUME LedgerInv, TypeOK', Points', UNCHANGED <<raw, checkpoint, marker, sealed>>,
           pending' = pending \/ pending' = None
    PROVE  LedgerInv'
  <1>1. Current' = Current
    BY DEF Current
  <1> QED
    BY <1>1 DEF LedgerInv, LedgerTypes, Markers, Counts, Counted

-----------------------------------------------------------------------------
(* The commands.                                                            *)

LEMMA DiffPendingStep ==
    ASSUME LedgerInv, NEW id \in Ids, DiffPending(id)
    PROVE  LedgerInv'
  <1>1. TypeOK'
    BY DEF LedgerInv, LedgerTypes, TypeOK, DiffPending, Entry
  <1>2. pending' # None => pending'.id \notin Folded(Current)
    BY DEF LedgerInv, Counts, DiffPending, Fresh, Current
  <1>3. Current' = Current
    BY DEF Current, DiffPending
  <1>4. Counts'
    BY <1>2, <1>3 DEF LedgerInv, Counts, Counted, DiffPending
  <1> QED
    BY <1>1, <1>4 DEF LedgerInv, LedgerTypes, Points, Markers, Counted, DiffPending

LEMMA DiffSealedStep ==
    ASSUME LedgerInv, NEW id \in Ids, DiffSealed(id)
    PROVE  LedgerInv'
  <1> DEFINE p == [id |-> id, at |-> day]
  <1>1. p \in Entry /\ p.id = id
    BY DEF LedgerInv, LedgerTypes, TypeOK, Entry
  <1>2. id \notin Folded(Current)
    BY DEF DiffSealed, Fresh, Current
  <1>3. /\ raw' = IF p.id \in IdsOf(raw) THEN raw ELSE raw \cup {p}
        /\ sealed' = sealed \cup {p.id}
        /\ UNCHANGED <<day, pending, checkpoint, marker, second>>
        /\ pc' = "idle"
    BY DEF DiffSealed
  <1> QED
    BY <1>1, <1>2, <1>3, SealStep

LEMMA FinalizeWriteStep ==
    ASSUME LedgerInv, FinalizeWrite
    PROVE  LedgerInv'
  <1>1. pending \in Entry /\ pending.id \notin Folded(Current)
    BY DEF LedgerInv, LedgerTypes, TypeOK, Counts, FinalizeWrite
  <1>2. /\ raw' = IF pending.id \in IdsOf(raw) THEN raw ELSE raw \cup {pending}
        /\ sealed' = sealed \cup {pending.id}
        /\ UNCHANGED <<day, pending, checkpoint, marker, second>>
        /\ pc' = "unlink"
    BY DEF FinalizeWrite
  <1> QED
    BY <1>1, <1>2, SealStep

LEMMA FinalizeUnlinkStep ==
    ASSUME LedgerInv, FinalizeUnlink
    PROVE  LedgerInv'
  <1>1. TypeOK' /\ Points'
    BY DEF LedgerInv, LedgerTypes, TypeOK, Points, FinalizeUnlink
  <1> QED
    BY <1>1, RestStep DEF FinalizeUnlink

LEMMA RecoverNothingStep ==
    ASSUME LedgerInv, RecoverNothing
    PROVE  LedgerInv'
  <1>1. pc' \in {"idle", "compact"}
    BY DEF RecoverNothing, AfterRecovery
  <1>2. TypeOK' /\ Points'
    BY <1>1 DEF LedgerInv, LedgerTypes, TypeOK, Points, RecoverNothing, disk
  <1> QED
    BY <1>2, RestStep DEF RecoverNothing, disk

LEMMA PublishCheckpointStep ==
    ASSUME LedgerInv, PublishCheckpoint
    PROVE  LedgerInv'
  <1>1. marker # None /\ marker.checkpoint \in Checkpoint /\ Counted(marker.checkpoint)
    BY Checkpoints DEF LedgerInv, Markers, PublishCheckpoint
  <1>2. TypeOK'
    BY <1>1 DEF LedgerInv, LedgerTypes, TypeOK, PublishCheckpoint
  <1>3. Current' = Current
    BY <1>1 DEF Current, Effective, PublishCheckpoint
  <1>4. Counts'
    BY <1>1, <1>3 DEF LedgerInv, Counts, Counted, PublishCheckpoint
  <1>5. Points' /\ Markers'
    BY <1>1 DEF LedgerInv, Points, Markers, Counted, PublishCheckpoint
  <1> QED
    BY <1>2, <1>4, <1>5 DEF LedgerInv, LedgerTypes, PublishCheckpoint

LEMMA DeleteRawStep ==
    ASSUME LedgerInv, NEW e \in raw, DeleteRaw(e)
    PROVE  LedgerInv'
  <1>1. marker # None /\ e.id \in Hidden(marker)
    BY DEF LedgerInv, Points, DeleteRaw, Hidden
  <1>2. Visible(marker, raw') = Visible(marker, raw)
    BY <1>1 DEF Visible, DeleteRaw
  <1>3. raw' \in SUBSET raw
    BY DEF DeleteRaw
  <1>4. IsFiniteSet(raw') /\ OnePerId(raw')
    BY <1>3, Part DEF LedgerInv, LedgerTypes
  <1>5. TypeOK'
    BY <1>3 DEF LedgerInv, LedgerTypes, TypeOK, DeleteRaw
  <1>6. Current' = Current
    BY DEF Current, DeleteRaw
  <1>7. Counts'
    BY <1>2, <1>6 DEF LedgerInv, Counts, Counted, DeleteRaw
  <1>8. Points' /\ Markers'
    BY DEF LedgerInv, Points, Markers, Counted, DeleteRaw
  <1> QED
    BY <1>4, <1>5, <1>7, <1>8 DEF LedgerInv, LedgerTypes

LEMMA DeleteMarkerStep ==
    ASSUME LedgerInv, DeleteMarker
    PROVE  LedgerInv'
  <1>1. marker # None /\ checkpoint = marker.checkpoint
    BY DEF LedgerInv, Points, DeleteMarker
  <1>2. Current = checkpoint /\ Current' = checkpoint
    BY <1>1 DEF Current, Effective, DeleteMarker
  <1>3. Visible(marker', raw) = Visible(marker, raw)
    BY <1>1 DEF Visible, Hidden, IdsOf, DeleteMarker
  <1>4. Counts'
    BY <1>2, <1>3 DEF LedgerInv, Counts, Counted, DeleteMarker
  <1>5. pc' \in {"idle", "compact"}
    BY DEF DeleteMarker, AfterRecovery
  <1>6. TypeOK' /\ Points' /\ Markers'
    BY <1>5 DEF LedgerInv, LedgerTypes, TypeOK, Points, Markers, DeleteMarker
  <1> QED
    BY <1>4, <1>6 DEF LedgerInv, LedgerTypes, DeleteMarker

\* Compaction begins without a marker; the entries that it folds in are raw
\* files whose ids the checkpoint has not, and each has an id of its own, so the
\* count of the next checkpoint is the number of its ids.
LEMMA CompactedCounts ==
    ASSUME LedgerInv, pc = "compact"
    PROVE  NextCheckpoint \in Checkpoint /\ Counted(NextCheckpoint)
  <1> DEFINE old == Folded(checkpoint)
             new == IdsOf(Compacted)
  <1>1. marker = None
    BY DEF LedgerInv, Points
  <1>2. Compacted \in SUBSET raw
    BY DEF Compacted, Visible
  <1>3. IsFiniteSet(new) /\ Cardinality(new) = Cardinality(Compacted)
    BY <1>2, Part, OneIdEach DEF LedgerInv, LedgerTypes
  <1>4. old \subseteq Ids /\ new \subseteq Ids
    BY <1>2, Checkpoints, RawEntries DEF LedgerInv, IdsOf
  <1>5. IsFiniteSet(Ids) /\ IsFiniteSet(old)
    BY <1>4, LedgerAssumption, FS_Subset
  <1>6. old \cap new = {}
    BY <1>1, Checkpoints DEF LedgerInv, Counts, Compacted, IdsOf
  <1>7. Cardinality(old \cup new) = Cardinality(old) + Cardinality(Compacted)
    <2>1. Cardinality(old \cup new) = Cardinality(old) + Cardinality(new) - 0
      BY <1>3, <1>5, <1>6, FS_Union, FS_EmptySet
    <2>2. Cardinality(old) \in Nat /\ Cardinality(new) \in Nat
      BY <1>3, <1>5, FS_CardinalityType
    <2> QED
      BY <1>3, <2>1, <2>2
  <1>8. FoldedCount(checkpoint) = Cardinality(old)
    BY DEF LedgerInv, Counts, Counted
  <1>9. NextCheckpoint.count = Cardinality(old \cup new) /\ NextCheckpoint.ids = old \cup new
    BY <1>7, <1>8 DEF NextCheckpoint
  <1>10. Cardinality(old \cup new) \in 0..Cardinality(Ids)
    <2>1. old \cup new \in SUBSET Ids
      BY <1>4
    <2>2. IsFiniteSet(old \cup new) /\ Cardinality(old \cup new) <= Cardinality(Ids)
      BY <1>5, <2>1, FS_Subset
    <2>3. Cardinality(old \cup new) \in Nat /\ Cardinality(Ids) \in Nat
      BY <1>5, <2>2, FS_CardinalityType
    <2> QED
      BY <2>2, <2>3
  <1>11. Cutoff \in (-Window)..MaxDay
    <2>1. day \in 0..MaxDay /\ Window \in Nat /\ MaxDay \in Nat
      BY LedgerAssumption DEF LedgerInv, LedgerTypes, TypeOK
    <2>2. checkpoint # None => checkpoint.at \in (-Window)..MaxDay
      BY Checkpoints DEF LedgerInv, Checkpoint
    <2>3. day - Window \in (-Window)..MaxDay
      BY <2>1
    <2> QED
      BY <2>2, <2>3 DEF Cutoff
  <1>12. NextCheckpoint = [at |-> Cutoff, ids |-> old \cup new, count |-> Cardinality(old \cup new)]
    BY <1>7, <1>8 DEF NextCheckpoint
  <1>13. NextCheckpoint \in Checkpoint
    BY <1>4, <1>10, <1>11, <1>12 DEF Checkpoint
  <1>14. NextCheckpoint # None
    BY <1>13, NoneAssumption
  <1> QED
    BY <1>9, <1>13, <1>14 DEF Counted, FoldedCount, Folded

LEMMA CompactStep ==
    ASSUME LedgerInv, Compact
    PROVE  LedgerInv'
  <1>1. CASE Compacted = {}
    <2>1. TypeOK' /\ Points'
      BY <1>1 DEF LedgerInv, LedgerTypes, TypeOK, Points, Compact
    <2> QED
      BY <1>1, <2>1, RestStep DEF Compact
  <1>2. CASE Compacted # {}
    <2> DEFINE m == [checkpoint |-> NextCheckpoint, ids |-> IdsOf(Compacted)]
    <2>1. /\ marker' = m /\ pc' = "recover" /\ second' = TRUE /\ pc = "compact"
          /\ UNCHANGED <<day, pending, raw, checkpoint, reader, sealed>>
      BY <1>2 DEF Compact
    <2>2. marker = None /\ pending = None
      BY <2>1 DEF LedgerInv, Points
    <2>3. NextCheckpoint \in Checkpoint /\ Counted(NextCheckpoint)
      BY <2>1, CompactedCounts
    <2>4. Compacted \subseteq raw /\ IdsOf(Compacted) \subseteq Ids
      BY RawEntries DEF LedgerInv, Compacted, Visible, IdsOf
    <2>5. m \in Marker
      BY <2>3, <2>4 DEF Marker
    <2>6. NextCheckpoint # None /\ m # None
      BY <2>3, <2>5, NoneAssumption
    <2>7. TypeOK'
      <3>1. UNCHANGED <<day, pending, raw, checkpoint, sealed>>
        BY <2>1
      <3>2. marker' \in Marker /\ pc' = "recover" /\ second' \in BOOLEAN
        BY <2>1, <2>5
      <3> QED
        BY <3>1, <3>2 DEF LedgerInv, LedgerTypes, TypeOK
    <2>8. Folded(Current') = Folded(checkpoint) \cup IdsOf(Compacted)
      <3>1. Current' = NextCheckpoint
        BY <2>1, <2>6 DEF Current, Effective
      <3>2. Folded(NextCheckpoint) = NextCheckpoint.ids
        BY <2>6 DEF Folded
      <3> QED
        BY <3>1, <3>2 DEF NextCheckpoint
    <2>9. /\ Visible(marker, raw) = raw
          /\ Visible(m, raw) = {e \in raw : e.id \notin IdsOf(Compacted)}
      BY <2>2, <2>6 DEF Visible, Hidden
    <2>10. Folded(checkpoint) \cap IdsOf(raw) = {} /\ Folded(checkpoint) \cup IdsOf(raw) = sealed
      BY <2>2, <2>9, Checkpoints DEF LedgerInv, Counts
    <2>11. IdsOf(raw) = IdsOf(Visible(m, raw)) \cup IdsOf(Compacted)
      BY <2>4, <2>9 DEF IdsOf
    <2>12. IdsOf(Visible(m, raw)) \cap IdsOf(Compacted) = {}
      BY <2>9 DEF IdsOf
    <2>13. Counts'
      BY <2>1, <2>2, <2>8, <2>10, <2>11, <2>12 DEF LedgerInv, Counts, Counted
    <2>14. Points'
      BY <2>1, <2>2 DEF Points
    <2>15. Markers'
      BY <2>1, <2>3 DEF Markers, Counted, NextCheckpoint
    <2> QED
      BY <2>1, <2>7, <2>13, <2>14, <2>15 DEF LedgerInv, LedgerTypes
  <1> QED
    BY <1>1, <1>2

LEMMA OtherSteps ==
    ASSUME LedgerInv, ScanClears \/ Crash \/ NextDay \/ Reading \/ UNCHANGED vars
    PROVE  LedgerInv'
  <1>1. CASE ScanClears
    <2>1. TypeOK' /\ Points'
      BY <1>1 DEF LedgerInv, LedgerTypes, TypeOK, Points, ScanClears
    <2> QED
      BY <1>1, <2>1, RestStep DEF ScanClears
  <1>2. CASE Crash
    <2>1. TypeOK' /\ Points'
      BY <1>2 DEF LedgerInv, LedgerTypes, TypeOK, Points, Crash, disk
    <2> QED
      BY <1>2, <2>1, RestStep DEF Crash, disk
  <1>3. CASE NextDay
    <2>1. day' \in 0..MaxDay
      BY <1>3, LedgerAssumption DEF LedgerInv, LedgerTypes, TypeOK, NextDay
    <2>2. TypeOK' /\ Points'
      BY <1>3, <2>1 DEF LedgerInv, LedgerTypes, TypeOK, Points, NextDay, disk
    <2> QED
      BY <1>3, <2>2, RestStep DEF NextDay, disk
  <1>4. CASE Reading \/ UNCHANGED vars
    <2>1. UNCHANGED <<day, pending, raw, checkpoint, marker, pc, second, sealed>>
      BY <1>4 DEF Reading, ReadMarker, ReadCheckpoint, ListRecords, ReadRecords, vars, disk
    <2>2. TypeOK' /\ Points'
      BY <2>1 DEF LedgerInv, LedgerTypes, TypeOK, Points
    <2> QED
      BY <2>1, <2>2, RestStep
  <1> QED
    BY <1>1, <1>2, <1>3, <1>4

-----------------------------------------------------------------------------

LEMMA LedgerInvInit ==
    ASSUME Init
    PROVE  LedgerInv
  <1>1. TypeOK
    <2>1. 0 \in 0..MaxDay
      BY LedgerAssumption
    <2> QED
      BY <2>1 DEF Init, TypeOK
  <1>2. IsFiniteSet(raw) /\ OnePerId(raw)
    BY FS_EmptySet DEF Init, OnePerId
  <1>3. Points /\ Markers
    BY DEF Init, Points, Markers
  <1>4. Counts
    BY FS_EmptySet
       DEF Init, Counts, Counted, Folded, FoldedCount, Current, Effective, Visible, IdsOf
  <1> QED
    BY <1>1, <1>2, <1>3, <1>4 DEF LedgerInv, LedgerTypes

LEMMA LedgerInvStep ==
    ASSUME LedgerInv, [Next]_vars
    PROVE  LedgerInv'
  <1>1. ASSUME NEW id \in Ids, DiffPending(id) PROVE LedgerInv'
    BY <1>1, DiffPendingStep
  <1>2. ASSUME NEW id \in Ids, DiffSealed(id) PROVE LedgerInv'
    BY <1>2, DiffSealedStep
  <1>3. ASSUME NEW e \in raw, DeleteRaw(e) PROVE LedgerInv'
    BY <1>3, DeleteRawStep
  <1> QED
    BY <1>1, <1>2, <1>3, FinalizeWriteStep, FinalizeUnlinkStep, RecoverNothingStep,
       PublishCheckpointStep, DeleteMarkerStep, CompactStep, OtherSteps
       DEF Next, Command, Work

LEMMA LedgerInvariant == Spec => []LedgerInv
  BY LedgerInvInit, LedgerInvStep, PTL DEF Spec

-----------------------------------------------------------------------------
(* The theorems about the ledger                                            *)

\* The files of the ledger are what JsonHistoryStore and JsonPendingDiffStore
\* take them for.
THEOREM LedgerTyped == Spec => []TypeOK
  <1>1. LedgerInv => TypeOK
    BY DEF LedgerInv, LedgerTypes
  <1> QED
    BY <1>1, LedgerInvariant, PTL

\* At every instant, wherever a seal or a compaction died, what a reader is to
\* take from the files counts every piece of sealed evidence once
\* (compactHistoryLedger, readableLedger).
THEOREM CountsOnce == Spec => []ReplayExact
  <1>1. ASSUME LedgerInv PROVE ReplayExact
    <2> DEFINE seen == Visible(marker, raw)
    <2>1. FoldedCount(Current) = Cardinality(Folded(Current))
      BY <1>1, Checkpoints DEF LedgerInv, Counts, Markers, Counted
    <2>2. seen \in SUBSET raw
      BY DEF Visible
    <2>3. Cardinality(IdsOf(seen)) = Cardinality(seen)
      <3>1. IsFiniteSet(seen) /\ OnePerId(seen)
        BY <1>1, <2>2, Part DEF LedgerInv, LedgerTypes
      <3> QED
        BY <3>1, OneIdEach
    <2>4. /\ Folded(Current) \cap IdsOf(seen) = {}
          /\ Folded(Current) \cup IdsOf(seen) = sealed
      BY <1>1 DEF LedgerInv, Counts
    <2> QED
      BY <2>1, <2>3, <2>4 DEF ReplayExact, Exact, Current
  <1> QED
    BY <1>1, LedgerInvariant, PTL

\* A raw file goes only when the checkpoint that folds it in is on disk
\* (recoverPendingCompaction).
THEOREM DeletionsCovered == Spec => RawCovered
  <1> DEFINE Covered == \A e \in raw : e \notin raw' => e.id \in Folded(checkpoint)
  <1>1. ASSUME LedgerInv, [Next]_vars PROVE Covered
    <2>1. ASSUME NEW e \in raw, e \notin raw' PROVE DeleteRaw(e)
      BY <1>1, <2>1
         DEF Next, Command, Work, DiffPending, DiffSealed, ScanClears, FinalizeWrite,
             FinalizeUnlink, RecoverNothing, PublishCheckpoint, DeleteRaw, DeleteMarker,
             Compact, Crash, NextDay, Reading, ReadMarker, ReadCheckpoint, ListRecords,
             ReadRecords, vars, disk
    <2>2. ASSUME NEW e \in raw, DeleteRaw(e) PROVE e.id \in Folded(checkpoint)
      <3>1. marker # None /\ checkpoint = marker.checkpoint /\ e.id \in marker.ids
        BY <1>1, <2>2 DEF LedgerInv, Points, DeleteRaw
      <3> QED
        BY <1>1, <3>1, Checkpoints DEF LedgerInv, Markers
    <2> QED
      BY <2>1, <2>2
  <1> QED
    BY <1>1, LedgerInvariant, PTL DEF Spec, RawCovered

-----------------------------------------------------------------------------
(* The sessions                                                             *)

SessionConstants == S!SessionAssumption /\ S!NoSessionAssumption

SessionTypes ==
    /\ now \in 1..MaxClock /\ epoch \in 1..MaxClock /\ epoch <= now
    /\ opened \in Seq(S!Session) /\ Len(opened) <= MaxOpened
    /\ nextFence \in 0..Len(opened)
    /\ sessions \in [S!Refs -> S!Session \cup {NoSession}]
    /\ closed \subseteq 1..Len(opened)

\* Every session was given out in this incarnation under a fence that was
\* taken, or in an earlier one.
Issued ==
    \A g \in 1..Len(opened) :
        /\ opened[g].epoch <= epoch
        /\ opened[g].epoch = epoch => opened[g].fence <= nextFence

\* Epoch and fence tell sessions apart.
Unique ==
    \A g, h \in 1..Len(opened) :
        opened[g].epoch = opened[h].epoch /\ opened[g].fence = opened[h].fence => g = h

\* An entry is a session of this incarnation as its client knows it, and was not
\* told to be closed.
Is(ref, g) ==
    /\ sessions[ref] = opened[g] /\ opened[g].ref = ref /\ opened[g].epoch = epoch
    /\ g \notin closed
Stored == \A ref \in S!Refs : sessions[ref] # NoSession => \E g \in 1..Len(opened) : Is(ref, g)

LiveStored ==
    \A g \in 1..Len(opened) :
        S!Live(g) /\ opened[g].epoch = epoch => sessions[opened[g].ref] = opened[g]

SessionInv == SessionTypes /\ Issued /\ Unique /\ Stored /\ LiveStored

-----------------------------------------------------------------------------
(* The store.                                                               *)

\* What the invariant says of a session that was given out.
LEMMA GivenOut ==
    ASSUME SessionTypes
    PROVE  /\ S!Given = 1..Len(opened) /\ Len(opened) \in Nat
           /\ \A g \in 1..Len(opened) : opened[g] \in S!Session /\ opened[g].ref \in S!Refs
  <1>1. opened \in Seq(S!Session)
    BY DEF SessionTypes
  <1>2. /\ S!Given = 1..Len(opened) /\ Len(opened) \in Nat
        /\ \A g \in 1..Len(opened) : opened[g] \in S!Session
    BY <1>1 DEF S!Given
  <1>3. \A s \in S!Session : s.ref \in S!Refs
    BY DEF S!Session
  <1> QED
    BY <1>2, <1>3

\* A credential opens the session it was issued for.
LEMMA CredentialOpensOwn ==
    ASSUME SessionInv, NEW g \in 1..Len(opened), NEW ref \in S!Refs, sessions[ref] # NoSession,
           S!Credential(sessions[ref]) = S!Credential(opened[g])
    PROVE  Is(ref, g)
  <1>1. PICK h \in 1..Len(opened) : Is(ref, h)
    BY DEF SessionInv, Stored
  <1>2. opened[h].epoch = opened[g].epoch /\ opened[h].fence = opened[g].fence
    BY <1>1 DEF Is, S!Credential
  <1>3. h = g
    BY <1>2 DEF SessionInv, Unique
  <1> QED
    BY <1>1, <1>3

\* Entries that go: those that stay are what they were, and none that goes is
\* of a live session.
LEMMA Removes ==
    ASSUME SessionInv, SessionTypes',
           UNCHANGED <<epoch, nextFence, opened>>, now' = now, closed \subseteq closed',
           \A ref \in S!Refs :
              \/ sessions'[ref] = sessions[ref]
              \/ /\ sessions'[ref] = NoSession
                 /\ sessions[ref] # NoSession =>
                      \/ S!Expired(sessions[ref])
                      \/ \E h \in closed' : sessions[ref] = opened[h],
           \A h \in closed' : h \in closed \/ \A ref \in S!Refs : ~Is(ref, h) \/ sessions'[ref] = NoSession
    PROVE  SessionInv'
  <1>1. Issued' /\ Unique'
    BY DEF SessionInv, Issued, Unique
  <1>2. Stored'
    <2> SUFFICES ASSUME NEW ref \in S!Refs, sessions'[ref] # NoSession
                 PROVE  \E g \in 1..Len(opened) : Is(ref, g)'
      BY DEF Stored
    <2>1. PICK g \in 1..Len(opened) : Is(ref, g)
      BY DEF SessionInv, Stored
    <2>2. g \notin closed'
      BY <2>1 DEF Is
    <2> QED
      BY <2>1, <2>2 DEF Is
  <1>3. LiveStored'
    <2> SUFFICES ASSUME NEW g \in 1..Len(opened), g \notin closed', now < opened[g].expiresAt,
                        opened[g].epoch = epoch
                 PROVE  sessions'[opened[g].ref] = opened[g]
      BY DEF LiveStored, S!Live
    <2> DEFINE ref == opened[g].ref
    <2>1. ref \in S!Refs /\ sessions[ref] = opened[g]
      BY GivenOut DEF SessionInv, LiveStored, S!Live
    <2>2. ~S!Expired(sessions[ref])
      <3>1. opened[g] \in S!Session /\ now \in Nat
        BY GivenOut DEF SessionInv, SessionTypes
      <3>2. opened[g].expiresAt \in Nat
        BY <3>1 DEF S!Session
      <3> QED
        BY <2>1, <3>1, <3>2 DEF S!Expired
    <2>3. \A h \in closed' : sessions[ref] # opened[h]
      <3>1. closed' \subseteq 1..Len(opened)
        BY DEF SessionTypes
      <3> QED
        BY <2>1, <3>1 DEF SessionInv, Unique
    <2>4. sessions[ref] # NoSession \/ sessions'[ref] = sessions[ref]
      BY <2>1
    <2> QED
      BY <2>1, <2>2, <2>3, <2>4
  <1> QED
    BY <1>1, <1>2, <1>3 DEF SessionInv

\* Removing what has expired is such a step.
LEMMA RemoveExpiredOnly ==
    ASSUME SessionInv
    PROVE  /\ S!RemoveExpired \in [S!Refs -> S!Session \cup {NoSession}]
           /\ \A ref \in S!Refs :
                \/ S!RemoveExpired[ref] = sessions[ref]
                \/ S!RemoveExpired[ref] = NoSession /\ S!Expired(sessions[ref])
  BY DEF SessionInv, SessionTypes, S!RemoveExpired

\* A session is registered under a ref that no live session has.
LEMMA RegisterStep ==
    ASSUME SessionConstants, SessionInv, NEW ref \in S!Refs, NEW o \in Owners, NEW ttl \in S!TTLs,
           S!Register(ref, o, ttl)
    PROVE  SessionInv'
  <1> DEFINE s == S!NewSession(ref, o, ttl)
             n == Len(opened)
  <1>1. /\ n \in Nat /\ n < MaxOpened /\ MaxOpened \in Nat /\ nextFence \in 0..n
        /\ nextFence' = nextFence + 1 /\ opened' = Append(opened, s)
        /\ sessions' = [S!RemoveExpired EXCEPT ![ref] = s] /\ S!RemoveExpired[ref] = NoSession
        /\ UNCHANGED <<now, epoch, closed>>
    BY DEF S!Register, S!RefFree, SessionInv, SessionTypes, SessionConstants, S!SessionAssumption
  <1>2. now \in Nat /\ epoch \in 1..MaxClock /\ ttl \in Nat
    BY DEF SessionInv, SessionTypes, S!TTLs, SessionConstants, S!SessionAssumption
  <1>3. nextFence + 1 \in 1..MaxOpened /\ now + ttl \in Nat
    BY <1>1, <1>2
  <1>4. /\ s \in S!Session /\ s.ref = ref /\ s.epoch = epoch /\ s.fence = nextFence + 1
    BY <1>2, <1>3 DEF S!NewSession, S!Session
  <1> HIDE DEF s
  <1>5. opened \in Seq(S!Session)
    BY DEF SessionInv, SessionTypes
  <1>6. /\ Len(opened') = n + 1 /\ opened' \in Seq(S!Session) /\ opened'[n + 1] = s
        /\ \A g \in 1..n : opened'[g] = opened[g]
        /\ \A g \in 1..(n + 1) : g \in 1..n \/ g = n + 1
    BY <1>1, <1>4, <1>5
  <1>7. /\ sessions' \in [S!Refs -> S!Session \cup {NoSession}] /\ sessions'[ref] = s
        /\ \A r \in S!Refs : r # ref => sessions'[r] = S!RemoveExpired[r]
    BY <1>1, <1>4, RemoveExpiredOnly
  <1>8. SessionTypes'
    <2>1. n + 1 <= MaxOpened /\ nextFence + 1 \in 0..(n + 1) /\ 1..n \subseteq 1..(n + 1)
      BY <1>1
    <2> QED
      BY <1>1, <1>6, <1>7, <2>1 DEF SessionInv, SessionTypes
  <1>9. Issued'
    <2>1. ASSUME NEW g \in 1..n PROVE opened[g].epoch = epoch => opened[g].fence <= nextFence + 1
      <3>1. opened[g].fence \in Nat /\ nextFence \in Nat
        BY <1>1, GivenOut DEF SessionInv, S!Session
      <3> QED
        BY <3>1 DEF SessionInv, Issued
    <2>2. epoch <= epoch /\ nextFence + 1 <= nextFence + 1
      BY <1>1, <1>2
    <2>3. ASSUME NEW g \in 1..(n + 1)
          PROVE  /\ opened'[g].epoch <= epoch
                 /\ opened'[g].epoch = epoch => opened'[g].fence <= nextFence + 1
      <3>1. CASE g \in 1..n
        BY <1>6, <2>1, <3>1 DEF SessionInv, Issued
      <3>2. CASE g = n + 1
        BY <1>4, <1>6, <2>2, <3>2
      <3> QED
        BY <1>6, <3>1, <3>2
    <2> QED
      BY <1>1, <1>6, <2>3 DEF Issued
  <1>10. Unique'
    <2>1. ASSUME NEW g \in 1..n
          PROVE  ~(opened[g].epoch = s.epoch /\ opened[g].fence = s.fence)
      <3>1. opened[g].fence \in Nat /\ nextFence \in Nat
        BY <1>1, GivenOut DEF SessionInv, S!Session
      <3>2. opened[g].epoch = epoch => opened[g].fence <= nextFence
        BY DEF SessionInv, Issued
      <3> QED
        BY <1>4, <3>1, <3>2
    <2>2. ASSUME NEW g \in 1..(n + 1), NEW h \in 1..(n + 1),
                 opened'[g].epoch = opened'[h].epoch, opened'[g].fence = opened'[h].fence
          PROVE  g = h
      <3>1. CASE g \in 1..n /\ h \in 1..n
        BY <1>6, <2>2, <3>1 DEF SessionInv, Unique
      <3>2. CASE g \in 1..n /\ h = n + 1
        BY <1>6, <2>1, <2>2, <3>2
      <3>3. CASE h \in 1..n /\ g = n + 1
        BY <1>6, <2>1, <2>2, <3>3
      <3> QED
        BY <1>6, <3>1, <3>2, <3>3
    <2> QED
      BY <1>6, <2>2 DEF Unique
  <1>11. Stored'
    <2> SUFFICES ASSUME NEW r \in S!Refs, sessions'[r] # NoSession
                 PROVE  \E g \in 1..(n + 1) : Is(r, g)'
      BY <1>6 DEF Stored
    <2>1. CASE r = ref
      <3>1. n + 1 \in 1..(n + 1) /\ n + 1 \notin 1..n
        BY <1>1
      <3>2. n + 1 \notin closed'
        BY <1>1, <3>1 DEF SessionInv, SessionTypes
      <3> QED
        BY <1>1, <1>4, <1>6, <1>7, <2>1, <3>1, <3>2 DEF Is
    <2>2. CASE r # ref
      <3>1. sessions'[r] = sessions[r]
        BY <1>7, <2>2, RemoveExpiredOnly
      <3>2. PICK g \in 1..n : Is(r, g)
        BY <3>1 DEF SessionInv, Stored
      <3>3. g \in 1..(n + 1)
        BY <1>1
      <3> QED
        BY <1>1, <1>6, <3>1, <3>2, <3>3 DEF Is
    <2> QED
      BY <2>1, <2>2
  <1>12. LiveStored'
    <2> SUFFICES ASSUME NEW g \in 1..(n + 1), g \notin closed, now < opened'[g].expiresAt,
                        opened'[g].epoch = epoch
                 PROVE  sessions'[opened'[g].ref] = opened'[g]
      BY <1>1, <1>6 DEF LiveStored, S!Live
    <2>1. CASE g = n + 1
      BY <1>4, <1>6, <1>7, <2>1
    <2>2. CASE g \in 1..n
      <3> DEFINE r == opened[g].ref
      <3>1. r \in S!Refs /\ sessions[r] = opened[g] /\ opened[g] \in S!Session
        BY <1>6, <2>2, GivenOut DEF SessionInv, LiveStored, S!Live
      <3>2. ~S!Expired(sessions[r])
        <4>1. opened[g].expiresAt \in Nat
          BY <3>1 DEF S!Session
        <4> QED
          BY <1>2, <1>6, <2>2, <3>1, <4>1 DEF S!Expired
      <3>3. S!RemoveExpired[r] = sessions[r]
        BY <3>1, <3>2, RemoveExpiredOnly
      <3>4. r # ref
        BY <1>1, <3>1, <3>3 DEF SessionConstants, S!NoSessionAssumption
      <3> QED
        BY <1>6, <1>7, <2>2, <3>1, <3>3, <3>4
    <2> QED
      BY <1>6, <2>1, <2>2
  <1> QED
    BY <1>8, <1>9, <1>10, <1>11, <1>12 DEF SessionInv

\* Sweeping, a heartbeat that meets an expired entry, and closing remove entries.
LEMMA RemovingStep ==
    ASSUME SessionInv, S!Sweep \/ \E g \in S!Given : S!HeartbeatExpired(g) \/ S!Close(g)
    PROVE  SessionInv'
  <1>1. CASE S!Sweep
    <2>1. SessionTypes'
      BY <1>1, RemoveExpiredOnly DEF S!Sweep, SessionInv, SessionTypes
    <2>2. \A ref \in S!Refs :
             \/ sessions'[ref] = sessions[ref]
             \/ sessions'[ref] = NoSession /\ S!Expired(sessions[ref])
      BY <1>1, RemoveExpiredOnly DEF S!Sweep
    <2>3. UNCHANGED <<now, epoch, nextFence, opened, closed>>
      BY <1>1 DEF S!Sweep
    <2> QED
      BY <2>1, <2>2, <2>3, Removes
  <1>2. ASSUME NEW g \in S!Given, S!HeartbeatExpired(g) PROVE SessionInv'
    <2>1. PICK ref \in S!Refs : /\ S!Expired(sessions[ref])
                              /\ sessions' = [sessions EXCEPT ![ref] = NoSession]
      BY <1>2 DEF S!HeartbeatExpired, S!FindRef
    <2>2. UNCHANGED <<now, epoch, nextFence, opened, closed>>
      BY <1>2 DEF S!HeartbeatExpired
    <2>3. SessionTypes'
      BY <2>1, <2>2 DEF SessionInv, SessionTypes
    <2>4. \A r \in S!Refs :
             \/ sessions'[r] = sessions[r]
             \/ sessions'[r] = NoSession /\ S!Expired(sessions[r])
      BY <2>1 DEF SessionInv, SessionTypes
    <2> QED
      BY <2>2, <2>3, <2>4, Removes
  <1>3. ASSUME NEW g \in S!Given, S!Close(g) PROVE SessionInv'
    <2>1. g \in 1..Len(opened) /\ closed' = closed \cup {g}
          /\ UNCHANGED <<now, epoch, nextFence, opened>>
      BY <1>3, GivenOut DEF S!Close, SessionInv
    <2>2. CASE sessions' = sessions /\ S!FindRef(opened[g].ref[2]) = {}
      <3>1. SessionTypes'
        BY <2>1, <2>2 DEF SessionInv, SessionTypes
      <3>2. \A r \in S!Refs : sessions'[r] = sessions[r]
        BY <2>2
      <3>3. \A r \in S!Refs : ~Is(r, g) \/ sessions'[r] = NoSession
        BY <2>2 DEF Is, S!FindRef
      <3> QED
        BY <2>1, <3>1, <3>2, <3>3, Removes
    <2>3. ASSUME NEW ref \in S!Closes(g), sessions' = [sessions EXCEPT ![ref] = NoSession]
          PROVE  SessionInv'
      <3>1. ref \in S!Refs /\ sessions[ref] # NoSession
            /\ S!Credential(sessions[ref]) = S!Credential(opened[g])
        BY DEF S!Closes, S!FindRef
      <3>2. sessions[ref] = opened[g] /\ opened[g].ref = ref
        BY <2>1, <3>1, CredentialOpensOwn DEF Is
      <3>3. SessionTypes'
        BY <2>1, <2>3 DEF SessionInv, SessionTypes
      <3>4. \A r \in S!Refs : /\ r # ref => sessions'[r] = sessions[r]
                              /\ r = ref => sessions'[r] = NoSession
        BY <2>3 DEF SessionInv, SessionTypes
      <3>5. \A r \in S!Refs :
               \/ sessions'[r] = sessions[r]
               \/ sessions'[r] = NoSession /\ \E h \in closed' : sessions[r] = opened[h]
        <4>1. g \in closed'
          BY <2>1
        <4>2. \E h \in closed' : sessions[ref] = opened[h]
          BY <3>2, <4>1
        <4> QED
          BY <3>4, <4>2
      <3>6. \A r \in S!Refs : ~Is(r, g) \/ sessions'[r] = NoSession
        BY <3>2, <3>4 DEF Is
      <3> QED
        BY <2>1, <3>3, <3>5, <3>6, Removes
    <2> QED
      BY <1>3, <2>2, <2>3 DEF S!Close
  <1> QED
    BY <1>1, <1>2, <1>3

\* A heartbeat moves the expiry in the store and at the client alike.
LEMMA HeartbeatStep ==
    ASSUME SessionConstants, SessionInv, NEW g \in S!Given, NEW ttl \in S!TTLs,
           S!HeartbeatTaken(g, ttl)
    PROVE  /\ SessionInv'
           /\ now < opened[g].expiresAt
           /\ \A h \in S!Given : h # g => opened'[h] = opened[h]
  <1> DEFINE till == now + ttl
  <1>1. PICK ref \in S!Refs : /\ sessions[ref] # NoSession /\ ~S!Expired(sessions[ref])
                            /\ S!Credential(sessions[ref]) = S!Credential(opened[g])
                            /\ sessions' = [sessions EXCEPT ![ref].expiresAt = till]
    BY DEF S!HeartbeatTaken, S!FindRef
  <1>2. /\ opened' = [opened EXCEPT ![g].expiresAt = till]
        /\ UNCHANGED <<now, epoch, nextFence, closed>>
    BY DEF S!HeartbeatTaken
  <1>3. g \in 1..Len(opened) /\ S!Given = 1..Len(opened) /\ Len(opened) \in Nat
        /\ opened[g] \in S!Session
    BY GivenOut DEF SessionInv
  <1>4. sessions[ref] = opened[g] /\ opened[g].ref = ref /\ opened[g].epoch = epoch
        /\ g \notin closed
    BY <1>1, <1>3, CredentialOpensOwn DEF Is
  <1>5. till \in Nat /\ now \in Nat
    BY DEF SessionInv, SessionTypes, S!TTLs, SessionConstants, S!SessionAssumption
  <1> HIDE DEF till
  <1> DEFINE e == [opened[g] EXCEPT !.expiresAt = till]
  <1>6. /\ e \in S!Session /\ e.ref = ref /\ e.epoch = epoch /\ e.fence = opened[g].fence
    BY <1>3, <1>4, <1>5 DEF S!Session
  <1>7. /\ opened'[g] = e /\ sessions'[ref] = e
        /\ \A h \in 1..Len(opened) : h # g => opened'[h] = opened[h]
        /\ \A r \in S!Refs : r # ref => sessions'[r] = sessions[r]
    <2>1. /\ opened' = [opened EXCEPT ![g] = e]
          /\ sessions' = [sessions EXCEPT ![ref] = e]
      BY <1>1, <1>2, <1>4
    <2>2. opened \in Seq(S!Session) /\ sessions \in [S!Refs -> S!Session \cup {NoSession}]
      BY DEF SessionInv, SessionTypes
    <2> HIDE DEF e
    <2> QED
      BY <1>3, <2>1, <2>2
  <1>8. /\ opened' \in Seq(S!Session) /\ Len(opened') = Len(opened)
        /\ sessions' \in [S!Refs -> S!Session \cup {NoSession}]
    <2>1. /\ opened' = [opened EXCEPT ![g] = e]
          /\ sessions' = [sessions EXCEPT ![ref] = e]
      BY <1>1, <1>2, <1>4
    <2>2. opened \in Seq(S!Session) /\ sessions \in [S!Refs -> S!Session \cup {NoSession}]
      BY DEF SessionInv, SessionTypes
    <2> HIDE DEF e
    <2> QED
      BY <1>3, <1>6, <2>1, <2>2
  <1> HIDE DEF e
  <1>9. SessionTypes'
    BY <1>2, <1>8 DEF SessionInv, SessionTypes
  <1>10. \A h \in 1..Len(opened) : /\ opened'[h].epoch = opened[h].epoch
                                   /\ opened'[h].fence = opened[h].fence
                                   /\ opened'[h].ref = opened[h].ref
    BY <1>4, <1>6, <1>7
  <1>11. Issued' /\ Unique'
    BY <1>2, <1>8, <1>10 DEF SessionInv, Issued, Unique
  <1>12. Stored'
    <2> SUFFICES ASSUME NEW r \in S!Refs, sessions'[r] # NoSession
                 PROVE  \E h \in 1..Len(opened) : Is(r, h)'
      BY <1>8 DEF Stored
    <2>1. CASE r = ref
      BY <1>2, <1>3, <1>4, <1>6, <1>7, <2>1 DEF Is
    <2>2. CASE r # ref
      <3>1. PICK h \in 1..Len(opened) : Is(r, h)
        BY <1>7, <2>2 DEF SessionInv, Stored
      <3>2. h # g
        BY <1>4, <2>2, <3>1 DEF Is
      <3> QED
        BY <1>2, <1>7, <2>2, <3>1, <3>2 DEF Is
    <2> QED
      BY <2>1, <2>2
  <1>13. LiveStored'
    <2> SUFFICES ASSUME NEW h \in 1..Len(opened), h \notin closed, now < opened'[h].expiresAt,
                        opened'[h].epoch = epoch
                 PROVE  sessions'[opened'[h].ref] = opened'[h]
      BY <1>2, <1>8 DEF LiveStored, S!Live
    <2>1. CASE h = g
      BY <1>6, <1>7, <2>1
    <2>2. CASE h # g
      <3>1. /\ opened'[h] = opened[h] /\ sessions[opened[h].ref] = opened[h]
            /\ opened[h].ref \in S!Refs
        BY <1>7, <2>2, GivenOut DEF SessionInv, LiveStored, S!Live
      <3>2. opened[h].ref # ref
        BY <1>3, <1>4, <2>2, <3>1 DEF SessionInv, Unique
      <3> QED
        BY <1>7, <3>1, <3>2
    <2> QED
      BY <2>1, <2>2
  <1>14. now < opened[g].expiresAt
    <2>1. opened[g].expiresAt \in Nat
      BY <1>3 DEF S!Session
    <2> QED
      BY <1>1, <1>4, <1>5, <2>1 DEF S!Expired
  <1> QED
    BY <1>3, <1>7, <1>9, <1>11, <1>12, <1>13, <1>14 DEF SessionInv

\* With time sessions only stop being live; a restart begins a greater epoch.
LEMMA TimeStep ==
    ASSUME SessionConstants, SessionInv, S!Tick \/ S!Restart
    PROVE  SessionInv'
  <1>1. /\ now \in Nat /\ epoch \in Nat /\ epoch <= now /\ MaxClock \in Nat
        /\ opened' = opened /\ closed' = closed
    BY DEF SessionInv, SessionTypes, S!Tick, S!Restart, SessionConstants, S!SessionAssumption
  <1>2. CASE S!Tick
    <2>1. now' = now + 1 /\ UNCHANGED <<epoch, nextFence, sessions>> /\ now < MaxClock
      BY <1>2 DEF S!Tick
    <2>2. now' \in 1..MaxClock /\ epoch <= now'
      BY <1>1, <2>1
    <2>3. SessionTypes'
      BY <1>1, <2>1, <2>2 DEF SessionInv, SessionTypes
    <2>4. Issued' /\ Unique' /\ Stored'
      BY <1>1, <2>1 DEF SessionInv, Issued, Unique, Stored, Is
    <2>5. ASSUME NEW g \in 1..Len(opened), now' < opened[g].expiresAt
          PROVE  now < opened[g].expiresAt
      <3>1. opened[g].expiresAt \in Nat
        BY GivenOut DEF SessionInv, S!Session
      <3> QED
        BY <1>1, <2>1, <2>5, <3>1
    <2>6. LiveStored'
      BY <1>1, <2>1, <2>5 DEF SessionInv, LiveStored, S!Live
    <2> QED
      BY <2>3, <2>4, <2>6 DEF SessionInv
  <1>3. CASE S!Restart
    <2>1. /\ now' \in (now + 1)..MaxClock /\ epoch' = now' /\ nextFence' = 0
          /\ sessions' = [ref \in S!Refs |-> NoSession]
      BY <1>3 DEF S!Restart
    <2>2. now' \in 1..MaxClock /\ epoch < epoch' /\ epoch' <= now' /\ epoch' \in Nat
      BY <1>1, <2>1
    <2>3. SessionTypes'
      BY <1>1, <2>1, <2>2 DEF SessionInv, SessionTypes
    <2>4. \A g \in 1..Len(opened) : opened[g].epoch <= epoch' /\ opened[g].epoch # epoch'
      <3> SUFFICES ASSUME NEW g \in 1..Len(opened)
                   PROVE  opened[g].epoch < epoch'
        <4>1. \A m \in Nat : m < epoch' => m <= epoch' /\ m # epoch'
          BY <2>2
        <4>2. \A g \in 1..Len(opened) : opened[g].epoch \in Nat
          BY GivenOut DEF SessionInv, S!Session
        <4> QED
          BY <4>1, <4>2
      <3>1. opened[g].epoch \in Nat /\ opened[g].epoch <= epoch
        BY GivenOut DEF SessionInv, S!Session, Issued
      <3> QED
        BY <1>1, <2>2, <3>1
    <2>5. Issued' /\ LiveStored'
      BY <1>1, <2>4 DEF Issued, LiveStored
    <2>6. Unique' /\ Stored'
      BY <1>1, <2>1 DEF SessionInv, Unique, Stored
    <2> QED
      BY <2>3, <2>5, <2>6 DEF SessionInv
  <1> QED
    BY <1>2, <1>3

-----------------------------------------------------------------------------

LEMMA SessionInvInit ==
    ASSUME SessionConstants, S!Init
    PROVE  SessionInv
  <1> USE DEF S!Init
  <1>1. opened \in Seq(S!Session) /\ Len(opened) = 0
    OBVIOUS
  <1>2. 1 \in 1..MaxClock /\ 1 <= 1 /\ 0 <= MaxOpened
    BY DEF SessionConstants, S!SessionAssumption
  <1> QED
    BY <1>1, <1>2 DEF SessionInv, SessionTypes, Issued, Unique, Stored, LiveStored

LEMMA SessionInvStep ==
    ASSUME SessionConstants, SessionInv, [S!Next]_S!vars
    PROVE  SessionInv'
  <1>1. CASE UNCHANGED S!vars
    BY <1>1 DEF S!vars, SessionInv, SessionTypes, Issued, Unique, Stored, Is, LiveStored, S!Live
  <1>2. CASE \E g \in S!Given : S!HeartbeatRefused(g)
    BY <1>1, <1>2 DEF S!HeartbeatRefused
  <1>3. CASE \E g \in S!Given, ttl \in S!TTLs : S!HeartbeatTaken(g, ttl)
    BY <1>3, HeartbeatStep
  <1> QED
    BY <1>1, <1>2, <1>3, RegisterStep, RemovingStep, TimeStep DEF S!Next

-----------------------------------------------------------------------------
(* The baseline                                                             *)

BaselineTypes ==
    /\ source \in B!Contents
    /\ active \in B!Directory \cup {NoDir}
    /\ backups \in Seq(B!Directory)
    /\ bpc \in {"idle", "recover", "match", "install", "drop", "shards"}
    /\ snap \in [no : Nat, shards : B!Contents]
    /\ todo \subseteq Paths
    /\ moved \in BOOLEAN
    /\ scans \in Nat

\* Where a scan stands: it installs where no generation is active, removes a
\* backup beside the complete one it installed, and in place it has written
\* what is not left to write.
ScanPoints ==
    /\ bpc # "idle" => snap.no = scans /\ last = "none"
    /\ bpc \in {"recover", "match"} => ~moved
    /\ bpc = "install" => active = NoDir /\ (moved => backups # <<>>)
    /\ bpc = "drop" =>
         /\ B!Complete(active) /\ active.shards = snap.shards
         /\ moved => backups # <<>>
    /\ bpc = "shards" /\ backups = <<>> =>
         /\ active # NoDir
         /\ \A p \in Paths \ todo : active.shards[p] = snap.shards[p]

\* A generation that a scan in place left torn has no backup beside it, before
\* it is moved aside and after.
Alone ==
    /\ active # NoDir /\ ~B!Complete(active) => backups = <<>>
    /\ active = NoDir /\ backups # <<>> /\ ~B!Complete(backups[Len(backups)])
         => Len(backups) = 1

Generations ==
    /\ B!ReadableDir # NoDir => B!ReadableDir.no <= scans
    /\ last \in {"full", "incremental"} =>
         B!Complete(B!ReadableDir) /\ B!ReadableDir.shards = snap.shards

BaselineInv == BaselineTypes /\ ScanPoints /\ Alone /\ Generations

-----------------------------------------------------------------------------
(* The directories.                                                         *)

LEMMA Directories ==
    ASSUME B!BaselineAssumption, BaselineTypes
    PROVE  /\ NoDir \notin B!Directory
           /\ Len(backups) \in Nat
           /\ \A i \in 1..Len(backups) : backups[i] \in B!Directory
           /\ backups # <<>> => Len(backups) \in 1..Len(backups)
           /\ B!ReadableDir \in B!Directory \cup {NoDir}
           /\ active # NoDir => B!ReadableDir = active
  <1>1. backups \in Seq(B!Directory) /\ active \in B!Directory \cup {NoDir}
    BY DEF BaselineTypes
  <1>2. backups # <<>> => Len(backups) \in Nat \ {0}
    BY <1>1, EmptySeq
  <1>3. Len(backups) \in Nat /\ \A i \in 1..Len(backups) : backups[i] \in B!Directory
    BY <1>1
  <1>4. backups # <<>> => Len(backups) \in 1..Len(backups)
    BY <1>2
  <1> QED
    BY <1>1, <1>3, <1>4 DEF B!ReadableDir, B!BaselineAssumption

\* All backups but the last.
LEMMA DropLast ==
    ASSUME B!BaselineAssumption, BaselineTypes, backups # <<>>
    PROVE  /\ SubSeq(backups, 1, Len(backups) - 1) \in Seq(B!Directory)
           /\ Len(backups) = 1 => SubSeq(backups, 1, Len(backups) - 1) = <<>>
  <1> DEFINE n == Len(backups)
  <1>1. n \in Nat /\ n >= 1 /\ \A i \in 1..n : backups[i] \in B!Directory
    BY Directories
  <1> HIDE DEF n
  <1>2. n - 1 \in Int /\ 1 \in Int /\ \A i \in 1..(n - 1) : backups[i] \in B!Directory
    BY <1>1
  <1>3. SubSeq(backups, 1, n - 1) \in Seq(B!Directory)
    BY <1>2, SubSeqProperties
  <1>4. n = 1 => SubSeq(backups, 1, n - 1) = <<>>
    BY <1>1, <1>2, SubSeqEmpty
  <1> QED
    BY <1>3, <1>4 DEF n

\* What readers find is not older after a step, and as complete, but for a shard
\* written in place.
Forward ==
    /\ B!ReadableDir # NoDir /\ B!ReadableDir' # NoDir
         => B!ReadableDir'.no >= B!ReadableDir.no
    /\ B!Complete(B!ReadableDir) => B!Complete(B!ReadableDir)' \/ bpc = "shards"

\* A step after which readers find the generation they found before.
LEMMA SameGeneration ==
    ASSUME B!BaselineAssumption, BaselineInv, BaselineTypes', ScanPoints', Alone',
           B!ReadableDir' = B!ReadableDir, scans <= scans',
           last' \in {"full", "incremental"} =>
             B!Complete(B!ReadableDir) /\ B!ReadableDir.shards = snap'.shards
    PROVE  BaselineInv' /\ Forward
  <1>1. B!Complete(B!ReadableDir)' = B!Complete(B!ReadableDir)
    BY DEF B!Complete
  <1>2. B!ReadableDir # NoDir => B!ReadableDir.no \in Nat
    BY Directories DEF BaselineInv, B!Directory
  <1>3. scans \in Nat /\ scans' \in Nat
    BY DEF BaselineInv, BaselineTypes
  <1>4. B!ReadableDir # NoDir => B!ReadableDir.no <= scans'
    BY <1>2, <1>3 DEF BaselineInv, Generations
  <1>5. Generations'
    BY <1>1, <1>4 DEF BaselineInv, Generations
  <1>6. Forward
    BY <1>1, <1>2 DEF Forward
  <1> QED
    BY <1>5, <1>6 DEF BaselineInv

\* A step that touches no directory.
LEMMA NoWrite ==
    ASSUME B!BaselineAssumption, BaselineInv, BaselineTypes', ScanPoints',
           UNCHANGED <<active, backups>>, scans <= scans',
           last' \in {"full", "incremental"} =>
             B!Complete(B!ReadableDir) /\ B!ReadableDir.shards = snap'.shards
    PROVE  BaselineInv' /\ Forward
  <1>1. B!ReadableDir' = B!ReadableDir
    BY DEF B!ReadableDir
  <1>2. Alone'
    BY DEF BaselineInv, Alone, B!Complete
  <1> QED
    BY <1>1, <1>2, SameGeneration

\* A scan in progress has not ended.
LEMMA Running ==
    ASSUME BaselineInv, bpc # "idle"
    PROVE  last = "none" /\ snap.no = scans /\ scans \in Nat /\ scans <= scans
  BY DEF BaselineInv, BaselineTypes, ScanPoints

-----------------------------------------------------------------------------
(* The scan of everything.                                                  *)

LEMMA EditStep ==
    ASSUME B!BaselineAssumption, BaselineInv, NEW p \in Paths,
           NEW v \in Versions \cup {Absent}, B!Edit(p, v)
    PROVE  BaselineInv' /\ Forward
  <1>1. BaselineTypes'
    BY DEF BaselineInv, BaselineTypes, B!Edit, B!Contents
  <1>2. ScanPoints'
    BY DEF BaselineInv, ScanPoints, B!Edit, B!Complete
  <1>3. scans <= scans' /\ UNCHANGED <<active, backups>>
    BY DEF BaselineInv, BaselineTypes, B!Edit
  <1>4. last' \in {"full", "incremental"} => B!Complete(B!ReadableDir) /\ B!ReadableDir.shards = snap'.shards
    BY DEF BaselineInv, Generations, B!Edit
  <1> QED
    BY <1>1, <1>2, <1>3, <1>4, NoWrite

LEMMA FullScanStep ==
    ASSUME B!BaselineAssumption, BaselineInv, B!FullScan
    PROVE  BaselineInv' /\ Forward
  <1>1. scans' = scans + 1 /\ scans \in Nat /\ last' = "none" /\ bpc' = "recover"
        /\ moved' = FALSE
    BY DEF BaselineInv, BaselineTypes, B!FullScan
  <1>2. snap' \in [no : Nat, shards : B!Contents] /\ snap'.no = scans'
    BY <1>1 DEF BaselineInv, BaselineTypes, B!FullScan
  <1>3. BaselineTypes'
    BY <1>1, <1>2 DEF BaselineInv, BaselineTypes, B!FullScan
  <1>4. ScanPoints'
    BY <1>1, <1>2 DEF ScanPoints
  <1>5. scans <= scans'
    BY <1>1
  <1>6. UNCHANGED <<active, backups>>
    BY DEF B!FullScan
  <1> QED
    BY <1>1, <1>3, <1>4, <1>5, <1>6, NoWrite

\* Recovery promotes the newest backup that is complete, and that is the
\* newest there is.
LEMMA PromotesNewest ==
    ASSUME B!BaselineAssumption, BaselineInv, active = NoDir, B!CompleteBackups # {}
    PROVE  /\ B!Newest(B!CompleteBackups) = Len(backups) /\ backups # <<>>
           /\ B!Complete(backups[Len(backups)])
  <1> DEFINE n == Len(backups)
  <1>1. BaselineTypes
    BY DEF BaselineInv
  <1>2. n \in Nat /\ n \in 1..n /\ backups # <<>>
    <2>1. backups = <<>> => B!CompleteBackups = {}
      BY EmptySeq DEF B!CompleteBackups
    <2> QED
      BY <1>1, <2>1, Directories
  <1>3. B!Complete(backups[n])
    <2>1. CASE n = 1
      <3>1. PICK i \in 1..n : B!Complete(backups[i])
        BY DEF B!CompleteBackups
      <3>2. i = n
        BY <2>1
      <3> QED
        BY <3>1, <3>2
    <2>2. CASE n # 1
      BY <1>2, <2>2 DEF BaselineInv, Alone
    <2> QED
      BY <2>1, <2>2
  <1>4. n \in B!CompleteBackups /\ \A j \in B!CompleteBackups : j <= n /\ j \in Nat
    BY <1>2, <1>3 DEF B!CompleteBackups
  <1>5. \A i \in B!CompleteBackups : (\A j \in B!CompleteBackups : j <= i) => i = n
    BY <1>2, <1>4
  <1>6. B!Newest(B!CompleteBackups) = n
    BY <1>4, <1>5 DEF B!Newest
  <1> QED
    BY <1>2, <1>3, <1>6

LEMMA RecoverStep ==
    ASSUME B!BaselineAssumption, BaselineInv, B!Recover
    PROVE  BaselineInv' /\ Forward
  <1>1. BaselineTypes
    BY DEF BaselineInv
  <1>2. /\ bpc = "recover" /\ bpc' = "match"
        /\ UNCHANGED <<source, snap, todo, moved, scans, last>>
    BY DEF B!Recover
  <1>0. ~moved
    BY <1>2 DEF BaselineInv, ScanPoints
  <1>3. last = "none" /\ snap.no = scans /\ scans <= scans'
    BY <1>2, Running
  <1>4. ScanPoints'
    BY <1>0, <1>2, <1>3 DEF ScanPoints
  <1>5. CASE active = NoDir /\ B!CompleteBackups # {}
    <2> DEFINE n == Len(backups)
    <2>1. /\ B!Newest(B!CompleteBackups) = n /\ backups # <<>> /\ B!Complete(backups[n])
          /\ n \in 1..n /\ backups[n] \in B!Directory
      BY <1>1, <1>5, PromotesNewest, Directories
    <2>2. active' = backups[n] /\ backups' = B!Without(backups, n)
      BY <1>5, <2>1 DEF B!Recover
    <2>3. B!Without(backups, n) \in Seq(B!Directory)
      <3>1. SubSeq(backups, 1, n - 1) \in Seq(B!Directory)
        BY <1>1, <2>1, DropLast
      <3>2. n \in Int /\ n + 1 \in Int /\ n < n + 1
        BY <2>1
      <3>3. SubSeq(backups, n + 1, n) = <<>>
        BY <3>2, SubSeqEmpty
      <3>4. SubSeq(backups, n + 1, n) \in Seq(B!Directory)
        BY <3>3, EmptySeq
      <3> QED
        BY <3>1, <3>4, ConcatProperties DEF B!Without
    <2>4. BaselineTypes'
      BY <1>1, <1>2, <2>1, <2>2, <2>3 DEF BaselineTypes
    <2>5. active' # NoDir /\ B!Complete(active)'
      BY <2>1, <2>2 DEF B!Complete
    <2>6. B!ReadableDir' = B!ReadableDir
      BY <1>5, <2>1, <2>2, <2>5 DEF B!ReadableDir
    <2>7. Alone'
      BY <2>5 DEF Alone
    <2> QED
      BY <1>2, <1>3, <1>4, <2>4, <2>6, <2>7, SameGeneration
  <1>6. CASE ~(active = NoDir /\ B!CompleteBackups # {})
    <2>1. UNCHANGED <<active, backups>>
      BY <1>6 DEF B!Recover
    <2>2. BaselineTypes'
      BY <1>1, <1>2, <2>1 DEF BaselineTypes
    <2> QED
      BY <1>2, <1>3, <1>4, <2>1, <2>2, NoWrite
  <1> QED
    BY <1>5, <1>6

LEMMA MoveAsideStep ==
    ASSUME B!BaselineAssumption, BaselineInv, B!MoveAside
    PROVE  BaselineInv' /\ Forward
  <1>1. BaselineTypes
    BY DEF BaselineInv
  <1>2. /\ bpc = "match" /\ bpc' = "install"
        /\ UNCHANGED <<source, snap, todo, scans, last>>
    BY DEF B!MoveAside
  <1>3. last = "none" /\ snap.no = scans /\ scans <= scans'
    BY <1>2, Running
  <1>4. CASE active # NoDir
    <2> DEFINE n == Len(backups)
    <2>1. backups' = Append(backups, active) /\ active' = NoDir /\ moved' = TRUE
      BY <1>4 DEF B!MoveAside
    <2>2. active \in B!Directory /\ backups \in Seq(B!Directory) /\ n \in Nat
      BY <1>1, <1>4 DEF BaselineTypes
    <2>3. /\ backups' \in Seq(B!Directory) /\ Len(backups') = n + 1
          /\ backups'[n + 1] = active /\ backups' # <<>>
      BY <2>1, <2>2
    <2>4. BaselineTypes'
      BY <1>1, <1>2, <2>1, <2>3 DEF BaselineTypes
    <2>5. ScanPoints'
      BY <1>2, <1>3, <2>1, <2>3 DEF ScanPoints
    <2>6. B!ReadableDir' = B!ReadableDir
      BY <1>4, <2>1, <2>3 DEF B!ReadableDir
    <2>7. ~B!Complete(active) => Len(backups') = 1
      <3>1. ~B!Complete(active) => backups = <<>>
        BY <1>4 DEF BaselineInv, Alone
      <3>2. backups = <<>> => n = 0
        BY EmptySeq
      <3> QED
        BY <2>3, <3>1, <3>2
    <2>8. Alone'
      BY <2>1, <2>3, <2>7 DEF Alone, B!Complete
    <2> QED
      BY <1>2, <1>3, <2>4, <2>5, <2>6, <2>8, SameGeneration
  <1>5. CASE active = NoDir
    <2>1. UNCHANGED <<active, backups, moved>>
      BY <1>5 DEF B!MoveAside
    <2>2. BaselineTypes'
      BY <1>1, <1>2, <2>1 DEF BaselineTypes
    <2>3. ~moved
      BY <1>2 DEF BaselineInv, ScanPoints
    <2>4. ScanPoints'
      BY <1>2, <1>3, <1>5, <2>1, <2>3 DEF ScanPoints
    <2> QED
      BY <1>2, <1>3, <2>1, <2>2, <2>4, NoWrite
  <1> QED
    BY <1>4, <1>5

LEMMA InstallStep ==
    ASSUME B!BaselineAssumption, BaselineInv, B!Install
    PROVE  BaselineInv' /\ Forward
  <1> DEFINE dir == [no |-> snap.no, index |-> snap.shards, shards |-> snap.shards]
  <1>1. BaselineTypes
    BY DEF BaselineInv
  <1>2. /\ bpc = "install" /\ bpc' = "drop" /\ active' = dir
        /\ UNCHANGED <<source, backups, snap, todo, moved, scans, last>>
    BY DEF B!Install
  <1>3. last = "none" /\ snap.no = scans /\ scans \in Nat
    BY <1>2, Running
  <1>4. dir \in B!Directory /\ dir # NoDir /\ dir.index = dir.shards /\ dir.no = scans
    <2>1. dir \in B!Directory
      BY <1>1 DEF BaselineTypes, B!Directory
    <2> QED
      BY <1>3, <2>1 DEF B!BaselineAssumption
  <1> HIDE DEF dir
  <1>5. B!Complete(active)' /\ active' # NoDir /\ B!ReadableDir' = active'
    BY <1>2, <1>4 DEF B!Complete, B!ReadableDir
  <1>6. BaselineTypes'
    BY <1>1, <1>2, <1>4 DEF BaselineTypes
  <1>7. moved => backups # <<>>
    BY <1>2 DEF BaselineInv, ScanPoints
  <1>8. ScanPoints'
    <2>1. active'.shards = snap'.shards
      BY <1>2 DEF dir
    <2> QED
      BY <1>2, <1>3, <1>5, <1>7, <2>1 DEF ScanPoints
  <1>9. Alone'
    BY <1>5 DEF Alone
  <1>10. scans <= scans
    BY <1>3
  <1>11. Generations'
    <2>1. B!Complete(B!ReadableDir)'
      BY <1>5 DEF B!Complete
    <2>2. B!ReadableDir'.no <= scans'
      BY <1>2, <1>4, <1>5, <1>10
    <2> QED
      BY <1>2, <1>3, <2>1, <2>2 DEF Generations
  <1>12. Forward
    <2>1. B!ReadableDir # NoDir => B!ReadableDir.no \in Nat /\ B!ReadableDir.no <= scans
      BY <1>1, Directories DEF BaselineInv, Generations, B!Directory
    <2>2. B!Complete(B!ReadableDir)'
      BY <1>5 DEF B!Complete
    <2> QED
      BY <1>2, <1>3, <1>4, <1>5, <2>1, <2>2 DEF Forward
  <1> QED
    BY <1>6, <1>8, <1>9, <1>11, <1>12 DEF BaselineInv

\* The backup of the publication goes back where it was.
LEMMA InstallFailsStep ==
    ASSUME B!BaselineAssumption, BaselineInv, B!InstallFails
    PROVE  BaselineInv' /\ Forward
  <1>1. BaselineTypes
    BY DEF BaselineInv
  <1>2. /\ bpc = "install" /\ bpc' = "idle" /\ last' = "failed"
        /\ UNCHANGED <<source, snap, todo, moved, scans>>
    BY DEF B!InstallFails, B!End
  <1>3. scans <= scans' /\ active = NoDir /\ (moved => backups # <<>>)
    BY <1>2, Running DEF BaselineInv, ScanPoints
  <1>4. ScanPoints'
    BY <1>2 DEF ScanPoints
  <1>5. CASE moved
    <2> DEFINE n == Len(backups)
    <2>1. active' = backups[n] /\ backups' = SubSeq(backups, 1, n - 1) /\ backups # <<>>
      BY <1>3, <1>5 DEF B!InstallFails
    <2>2. backups[n] \in B!Directory /\ backups[n] # NoDir
      BY <1>1, <2>1, Directories
    <2>3. backups' \in Seq(B!Directory) /\ (n = 1 => backups' = <<>>)
      BY <1>1, <2>1, DropLast
    <2>4. BaselineTypes'
      BY <1>1, <1>2, <2>1, <2>2, <2>3 DEF BaselineTypes
    <2>5. B!ReadableDir' = B!ReadableDir
      BY <1>3, <2>1, <2>2 DEF B!ReadableDir
    <2>6. ~B!Complete(backups[n]) => n = 1
      BY <1>3, <2>1 DEF BaselineInv, Alone
    <2>7. Alone'
      BY <2>1, <2>2, <2>3, <2>6 DEF Alone, B!Complete
    <2> QED
      BY <1>2, <1>3, <1>4, <2>4, <2>5, <2>7, SameGeneration
  <1>6. CASE ~moved
    <2>1. UNCHANGED <<active, backups>>
      BY <1>6 DEF B!InstallFails
    <2>2. BaselineTypes'
      BY <1>1, <1>2, <2>1 DEF BaselineTypes
    <2> QED
      BY <1>2, <1>3, <1>4, <2>1, <2>2, NoWrite
  <1> QED
    BY <1>5, <1>6

\* Whatever becomes of the backup, readers find the generation installed.
LEMMA DropStep ==
    ASSUME B!BaselineAssumption, BaselineInv, B!DropBackup \/ \E p \in Paths : B!DropFile(p)
    PROVE  BaselineInv' /\ Forward
  <1> DEFINE n == Len(backups)
  <1>1. BaselineTypes
    BY DEF BaselineInv
  <1>2. /\ bpc = "drop"
        /\ UNCHANGED <<source, active, snap, todo, moved, scans>>
    BY DEF B!DropBackup, B!DropFile
  <1>3. /\ scans <= scans' /\ last = "none" /\ snap.no = scans
        /\ B!Complete(active) /\ active # NoDir /\ (moved => backups # <<>>)
        /\ active.shards = snap.shards
    BY <1>2, Running DEF BaselineInv, ScanPoints, B!Complete
  <1>4. /\ B!ReadableDir' = B!ReadableDir
        /\ B!Complete(B!ReadableDir) /\ B!ReadableDir.shards = snap'.shards
    BY <1>2, <1>3 DEF B!ReadableDir
  <1>5. Alone'
    BY <1>2, <1>3 DEF Alone, B!Complete
  <1>6. CASE B!DropBackup
    <2>1. bpc' = "idle" /\ last' = "full"
      BY <1>6 DEF B!DropBackup, B!End
    <2>2. backups' \in Seq(B!Directory)
      <3>1. CASE moved
        BY <1>1, <1>3, <1>6, <3>1, DropLast DEF B!DropBackup
      <3>2. CASE ~moved
        BY <1>1, <1>6, <3>2 DEF B!DropBackup, BaselineTypes
      <3> QED
        BY <3>1, <3>2
    <2>3. BaselineTypes'
      BY <1>1, <1>2, <2>1, <2>2 DEF BaselineTypes
    <2>4. ScanPoints'
      BY <2>1 DEF ScanPoints
    <2> QED
      BY <1>2, <1>3, <1>4, <1>5, <2>1, <2>3, <2>4, SameGeneration
  <1>7. ASSUME NEW p \in Paths, B!DropFile(p) PROVE BaselineInv' /\ Forward
    <2> DEFINE dir == [backups[n] EXCEPT !.shards[p] = Absent]
    <2>1. /\ bpc' = bpc /\ last' = last /\ moved
          /\ backups' = [backups EXCEPT ![n] = dir]
      BY <1>7 DEF B!DropFile
    <2>2. backups # <<>> /\ n \in 1..n /\ backups[n] \in B!Directory
      BY <1>1, <1>3, <2>1, Directories
    <2>3. dir \in B!Directory
      BY <2>2 DEF B!Directory, B!Contents
    <2> HIDE DEF dir
    <2>4. backups \in Seq(B!Directory) /\ n \in Nat
      BY <1>1, Directories DEF BaselineTypes
    <2>5. backups' \in Seq(B!Directory) /\ Len(backups') = n
      BY <2>1, <2>2, <2>3, <2>4
    <2>6. backups' # <<>>
      BY <2>2, <2>5, EmptySeq
    <2>7. BaselineTypes'
      BY <1>1, <1>2, <2>1, <2>5 DEF BaselineTypes
    <2>8. ScanPoints'
      BY <1>2, <1>3, <2>1, <2>6 DEF ScanPoints, B!Complete
    <2> QED
      BY <1>2, <1>3, <1>4, <1>5, <2>1, <2>7, <2>8, SameGeneration
  <1> QED
    BY <1>6, <1>7

-----------------------------------------------------------------------------
(* The scan of what changed.                                                *)

LEMMA IncrementalScanStep ==
    ASSUME B!BaselineAssumption, BaselineInv, B!IncrementalScan
    PROVE  BaselineInv' /\ Forward
  <1>1. BaselineTypes
    BY DEF BaselineInv
  <1>2. /\ scans' = scans + 1 /\ scans \in Nat /\ B!Complete(B!ReadableDir)
        /\ todo' = {p \in Paths : B!ReadableDir.shards[p] # source[p]}
        /\ UNCHANGED <<source, active, backups, moved>>
        /\ \/ bpc' = "idle" /\ last' = "incremental" /\ todo' = {}
           \/ bpc' = "shards" /\ last' = "none"
    BY <1>1 DEF BaselineTypes, B!IncrementalScan, B!End
  <1>3. /\ snap' \in [no : Nat, shards : B!Contents]
        /\ snap'.no = scans' /\ snap'.shards = source
    BY <1>1, <1>2 DEF BaselineTypes, B!IncrementalScan
  <1>4. scans <= scans'
    BY <1>2
  <1>5. BaselineTypes'
    BY <1>1, <1>2, <1>3 DEF BaselineTypes
  <1>6. B!ReadableDir # NoDir /\ B!ReadableDir.shards \in B!Contents /\ source \in B!Contents
    <2>1. B!ReadableDir \in B!Directory
      BY <1>1, <1>2, Directories DEF B!Complete
    <2> QED
      BY <1>1, <1>2, <2>1 DEF B!Complete, B!Directory, BaselineTypes
  <1>7. bpc' = "shards" /\ backups = <<>> =>
           active # NoDir /\ \A p \in Paths \ todo' : active.shards[p] = source[p]
    BY <1>2, <1>6 DEF B!ReadableDir
  <1>8. ScanPoints'
    BY <1>2, <1>3, <1>7 DEF ScanPoints
  <1>9. last' \in {"full", "incremental"} => B!ReadableDir.shards = snap'.shards
    <2>1. todo' = {} => \A p \in Paths : B!ReadableDir.shards[p] = source[p]
      BY <1>2
    <2>2. todo' = {} => B!ReadableDir.shards = source
      BY <1>6, <2>1 DEF B!Contents
    <2> QED
      BY <1>2, <1>3, <2>2
  <1> QED
    BY <1>2, <1>4, <1>5, <1>8, <1>9, NoWrite

\* A scan in place writes where no backup is left.
LEMMA WriteShardStep ==
    ASSUME B!BaselineAssumption, BaselineInv, NEW p \in Paths, B!WriteShard(p)
    PROVE  BaselineInv' /\ Forward
  <1> DEFINE dir == [active EXCEPT !.shards[p] = snap.shards[p]]
  <1>1. BaselineTypes
    BY DEF BaselineInv
  <1>2. /\ bpc = "shards" /\ backups = <<>> /\ active' = dir
        /\ todo' = todo \ {p}
        /\ UNCHANGED <<source, backups, bpc, snap, moved, scans, last>>
    BY DEF B!WriteShard, B!MayWrite
  <1>3. last = "none" /\ snap.no = scans /\ scans \in Nat
    BY <1>2, Running
  <1>4. /\ active \in B!Directory
        /\ \A q \in Paths \ todo : active.shards[q] = snap.shards[q]
    BY <1>1, <1>2 DEF BaselineInv, BaselineTypes, ScanPoints
  <1>5. snap.shards \in B!Contents
    BY <1>1 DEF BaselineTypes
  <1>6. dir \in B!Directory /\ dir.no = active.no
    BY <1>4, <1>5 DEF B!Directory, B!Contents
  <1>7. \A q \in Paths \ (todo \ {p}) : dir.shards[q] = snap.shards[q]
    BY <1>4 DEF B!Directory, B!Contents
  <1> HIDE DEF dir
  <1>8. active' # NoDir /\ B!ReadableDir' = active' /\ active # NoDir /\ B!ReadableDir = active
    BY <1>1, <1>2, <1>4, <1>6, Directories DEF B!ReadableDir
  <1>9. BaselineTypes'
    BY <1>1, <1>2, <1>6 DEF BaselineTypes
  <1>10. ScanPoints'
    BY <1>2, <1>3, <1>7, <1>8 DEF ScanPoints
  <1>11. Alone'
    BY <1>2, <1>8 DEF Alone
  <1>12. Generations'
    BY <1>2, <1>3, <1>6, <1>8 DEF BaselineInv, Generations
  <1>13. Forward
    BY <1>2, <1>4, <1>6, <1>8 DEF Forward, B!Directory
  <1> QED
    BY <1>9, <1>10, <1>11, <1>12, <1>13 DEF BaselineInv

LEMMA WriteIndexStep ==
    ASSUME B!BaselineAssumption, BaselineInv, B!WriteIndex
    PROVE  BaselineInv' /\ Forward
  <1> DEFINE dir == [active EXCEPT !.index = snap.shards, !.no = snap.no]
  <1>1. BaselineTypes
    BY DEF BaselineInv
  <1>2. /\ bpc = "shards" /\ backups = <<>> /\ active' = dir /\ todo = {}
        /\ bpc' = "idle" /\ last' = "incremental"
        /\ UNCHANGED <<source, backups, snap, todo, moved, scans>>
    BY DEF B!WriteIndex, B!MayWrite, B!End
  <1>3. snap.no = scans /\ scans \in Nat /\ scans <= scans
    BY <1>2, Running
  <1>4. /\ active \in B!Directory
        /\ \A q \in Paths : active.shards[q] = snap.shards[q]
    BY <1>1, <1>2 DEF BaselineInv, BaselineTypes, ScanPoints
  <1>5. snap \in [no : Nat, shards : B!Contents]
    BY <1>1 DEF BaselineTypes
  <1>6. active.shards = snap.shards
    BY <1>4, <1>5 DEF B!Directory, B!Contents
  <1>7. /\ dir \in B!Directory /\ dir.no = scans
        /\ dir.index = snap.shards /\ dir.shards = snap.shards
    BY <1>3, <1>4, <1>5, <1>6 DEF B!Directory
  <1> HIDE DEF dir
  <1>8. active' # NoDir /\ B!ReadableDir' = active' /\ active # NoDir /\ B!ReadableDir = active
    BY <1>1, <1>2, <1>4, <1>7, Directories DEF B!ReadableDir
  <1>9. BaselineTypes'
    BY <1>1, <1>2, <1>7 DEF BaselineTypes
  <1>10. ScanPoints'
    BY <1>2 DEF ScanPoints
  <1>11. Alone'
    BY <1>2, <1>8 DEF Alone
  <1>12. Generations'
    <2>1. B!Complete(B!ReadableDir)'
      BY <1>2, <1>7, <1>8 DEF B!Complete
    <2> QED
      BY <1>2, <1>3, <1>7, <1>8, <2>1 DEF Generations
  <1>13. Forward
    <2>1. active.no <= scans
      BY <1>8 DEF BaselineInv, Generations
    <2>2. active.no \in Nat
      BY <1>4 DEF B!Directory
    <2> QED
      BY <1>2, <1>3, <1>7, <1>8, <2>1, <2>2 DEF Forward
  <1> QED
    BY <1>9, <1>10, <1>11, <1>12, <1>13 DEF BaselineInv

LEMMA EndStep ==
    ASSUME B!BaselineAssumption, BaselineInv, B!Matches \/ B!WriteRefused \/ B!Crash
    PROVE  BaselineInv' /\ Forward
  <1>1. BaselineTypes
    BY DEF BaselineInv
  <1>2. /\ bpc # "idle" /\ bpc' = "idle" /\ last' \in {"full", "failed"}
        /\ todo' = todo \/ todo' = {}
        /\ UNCHANGED <<source, active, backups, snap, moved, scans>>
    BY DEF B!Matches, B!WriteRefused, B!Crash, B!End
  <1>3. BaselineTypes'
    BY <1>1, <1>2 DEF BaselineTypes
  <1>4. ScanPoints'
    BY <1>2 DEF ScanPoints
  <1>5. scans <= scans'
    BY <1>2, Running
  <1>6. last' \in {"full", "incremental"}
          => B!Complete(B!ReadableDir) /\ B!ReadableDir.shards = snap'.shards
    <2>1. last' \in {"full", "incremental"} => B!Matches
      BY DEF B!Matches, B!WriteRefused, B!Crash, B!End
    <2> QED
      BY <1>2, <2>1 DEF B!Matches, B!Complete
  <1> QED
    BY <1>2, <1>3, <1>4, <1>5, <1>6, NoWrite

-----------------------------------------------------------------------------

LEMMA BaselineInvInit ==
    ASSUME B!BaselineAssumption, B!Init
    PROVE  BaselineInv
  <1>1. BaselineTypes
    <2>1. B!Empty \in B!Contents /\ source \in B!Contents
      BY DEF B!Init, B!Empty, B!Contents
    <2>2. backups \in Seq(B!Directory)
      BY EmptySeq DEF B!Init
    <2>3. snap \in [no : Nat, shards : B!Contents]
      BY <2>1 DEF B!Init
    <2> QED
      BY <2>1, <2>2, <2>3 DEF B!Init, BaselineTypes
  <1>2. ScanPoints /\ Alone
    BY DEF B!Init, ScanPoints, Alone
  <1>3. Generations
    BY DEF B!Init, Generations, B!ReadableDir
  <1> QED
    BY <1>1, <1>2, <1>3 DEF BaselineInv

LEMMA BaselineInvStep ==
    ASSUME B!BaselineAssumption, BaselineInv, [B!Next]_B!vars
    PROVE  BaselineInv' /\ Forward
  <1>1. CASE UNCHANGED B!vars
    <2>1. BaselineTypes' /\ ScanPoints' /\ scans <= scans'
      BY <1>1 DEF BaselineInv, BaselineTypes, ScanPoints, B!Complete, B!vars
    <2>2. last' \in {"full", "incremental"} => B!Complete(B!ReadableDir) /\ B!ReadableDir.shards = snap'.shards
      BY <1>1 DEF BaselineInv, Generations, B!vars
    <2> QED
      BY <1>1, <2>1, <2>2, NoWrite DEF B!vars
  <1>2. ASSUME NEW p \in Paths, NEW v \in Versions \cup {Absent}, B!Edit(p, v)
        PROVE  BaselineInv' /\ Forward
    BY <1>2, EditStep
  <1>3. ASSUME NEW p \in Paths, B!WriteShard(p)
        PROVE  BaselineInv' /\ Forward
    BY <1>3, WriteShardStep
  <1> QED
    BY <1>1, <1>2, <1>3, FullScanStep, RecoverStep, EndStep, MoveAsideStep, InstallStep,
       InstallFailsStep, DropStep, IncrementalScanStep, WriteIndexStep
       DEF B!Next

-----------------------------------------------------------------------------
(* The theorems about the stores side by side                               *)

\* A behaviour of the four is one of each.
LEMMA StoresImplement ==
    StoresSpec => Spec /\ S!Spec /\ B!Spec
  <1> DEFINE all == <<vars, sessionVars, baselineVars, evidenceVars, store>>
  <1>1. StoresInit => Init /\ S!Init /\ B!Init
    BY DEF StoresInit
  <1>2. [StoresNext]_all => [Next]_vars
    BY DEF StoresNext
  <1>3. [StoresNext]_all => [S!Next]_S!vars
    BY DEF StoresNext, sessionVars, S!vars
  <1>4. [StoresNext]_all => [B!Next]_B!vars
    BY DEF StoresNext, baselineVars, B!vars
  <1> QED
    BY <1>1, <1>2, <1>3, <1>4, PTL DEF StoresSpec, Spec, S!Spec, B!Spec

\* What readers of the evidence ledger total up counts every sealed entry once,
\* and a raw file goes only under the checkpoint that counts it.
THEOREM LedgerSafe == StoresSpec => [](TypeOK /\ ReplayExact) /\ RawCovered
  BY StoresImplement, LedgerTyped, CountsOnce, DeletionsCovered, PTL

LEMMA SessionInvariant == StoresSpec => []SessionInv
  <1>1. SessionConstants
    BY StoresAssumption DEF SessionConstants
  <1>2. S!Init => SessionInv
    BY <1>1, SessionInvInit
  <1>3. SessionInv /\ [S!Next]_S!vars => SessionInv'
    BY <1>1, SessionInvStep
  <1> QED
    BY <1>2, <1>3, StoresImplement, PTL DEF S!Spec

\* However many repositories are served, whatever sessions share an id and
\* however time passes between the messages: a live session of this incarnation
\* is in the store as its client knows it, an acknowledged close has left no
\* entry that its credential opens, and what the lookup by session id can find
\* instead is only a session that another repository's client has not closed
\* (session.go, findRef).
THEOREM SessionsSafe == StoresSpec => []SessionsExact
  <1>1. ASSUME SessionInv
        PROVE  SessionsExact
    <2>1. S!TypeOK /\ S!LiveIsStored
      BY <1>1, GivenOut DEF SessionInv, SessionTypes, S!TypeOK, LiveStored, S!LiveIsStored
    <2>2. S!ClosedAreGone
      <3> SUFFICES ASSUME NEW g \in closed, NEW ref \in S!Refs, sessions[ref] # NoSession,
                          S!Credential(sessions[ref]) = S!Credential(opened[g])
                   PROVE  FALSE
        BY DEF S!ClosedAreGone
      <3>1. g \in 1..Len(opened)
        BY <1>1 DEF SessionInv, SessionTypes
      <3> QED
        BY <1>1, <3>1, CredentialOpensOwn DEF Is
    <2>3. ASSUME NEW g \in S!Given, S!Live(g), opened[g].epoch = epoch
          PROVE  opened[g].ref \in S!FindRef(opened[g].ref[2])
      <3>1. /\ opened[g].ref \in S!Refs /\ sessions[opened[g].ref] = opened[g]
            /\ opened[g] \in S!Session
        BY <1>1, <2>1, <2>3, GivenOut DEF SessionInv, S!LiveIsStored
      <3>2. sessions[opened[g].ref] # NoSession
        BY <3>1, StoresAssumption DEF S!NoSessionAssumption
      <3> QED
        BY <3>1, <3>2 DEF S!FindRef
    <2>4. ASSUME NEW g \in S!Given,
                 NEW ref \in S!FindRef(opened[g].ref[2]), ref # opened[g].ref
          PROVE  \E h \in S!Given \ closed :
                    /\ sessions[ref] = opened[h] /\ opened[h].epoch = epoch
                    /\ opened[h].ref[1] # opened[g].ref[1]
      <3>1. ref \in S!Refs /\ ref[2] = opened[g].ref[2] /\ sessions[ref] # NoSession
        BY DEF S!FindRef
      <3>2. opened[g].ref \in S!Refs /\ S!Given = 1..Len(opened)
        BY <1>1, GivenOut DEF SessionInv
      <3>3. ref[1] # opened[g].ref[1]
        BY <2>4, <3>1, <3>2 DEF S!Refs
      <3>4. PICK h \in 1..Len(opened) : Is(ref, h)
        BY <1>1, <3>1 DEF SessionInv, Stored
      <3> QED
        BY <3>2, <3>3, <3>4 DEF Is
    <2>5. S!LookupHonest
      BY <2>3, <2>4 DEF S!LookupHonest
    <2> QED
      BY <2>1, <2>2, <2>5 DEF SessionsExact, S!SessionsExact
  <1> QED
    BY <1>1, SessionInvariant, PTL

\* Heartbeat does not revive a session whose window has passed (session.go).
THEOREM SessionsExpire == StoresSpec => NoResurrection
  <1>1. ASSUME SessionInv, [S!Next]_S!vars, NEW g \in S!Given, now >= opened[g].expiresAt
        PROVE  opened'[g].expiresAt = opened[g].expiresAt
    <2>1. g \in 1..Len(opened) /\ opened \in Seq(S!Session)
      BY <1>1, GivenOut DEF SessionInv, SessionTypes
    <2>2. CASE UNCHANGED opened
      BY <2>2
    <2>3. ASSUME NEW ref \in S!Refs, NEW o \in Owners, NEW ttl \in S!TTLs,
                 S!Register(ref, o, ttl)
          PROVE  opened'[g] = opened[g]
      <3>1. opened' = Append(opened, S!NewSession(ref, o, ttl))
        BY <2>3 DEF S!Register
      <3> QED
        BY <2>1, <3>1
    <2>4. ASSUME NEW h \in S!Given, NEW ttl \in S!TTLs, S!HeartbeatTaken(h, ttl)
          PROVE  opened'[g] = opened[g]
      <3>1. now < opened[h].expiresAt /\ \A k \in S!Given : k # h => opened'[k] = opened[k]
        BY <1>1, <2>4, StoresAssumption, HeartbeatStep DEF SessionConstants
      <3>2. opened[g] \in S!Session /\ now \in Nat
        BY <1>1, <2>1, GivenOut DEF SessionInv, SessionTypes
      <3>3. opened[g].expiresAt \in Nat
        BY <3>2 DEF S!Session
      <3>4. g # h
        BY <1>1, <3>1, <3>2, <3>3
      <3> QED
        BY <3>1, <3>4
    <2>5. S!Sweep \/ S!Tick \/ S!Restart
          \/ (\E h \in S!Given : S!HeartbeatExpired(h) \/ S!HeartbeatRefused(h) \/ S!Close(h))
          => UNCHANGED opened
      BY DEF S!Sweep, S!Tick, S!Restart, S!HeartbeatExpired, S!HeartbeatRefused, S!Close, S!vars
    <2> QED
      BY <1>1, <2>2, <2>3, <2>4, <2>5 DEF S!Next, S!vars
  <1>2. SessionInv /\ [S!Next]_S!vars
        => [\A g \in DOMAIN opened :
              now >= opened[g].expiresAt => opened'[g].expiresAt = opened[g].expiresAt]_sessionVars
    BY <1>1 DEF S!Given
  <1> QED
    BY <1>2, SessionInvariant, StoresImplement, PTL DEF S!Spec, NoResurrection

LEMMA BaselineInvariant == StoresSpec => []BaselineInv
  <1>1. B!Init => BaselineInv
    BY StoresAssumption, BaselineInvInit
  <1>2. BaselineInv /\ [B!Next]_B!vars => BaselineInv'
    BY StoresAssumption, BaselineInvStep
  <1> QED
    BY <1>1, <1>2, StoresImplement, PTL DEF B!Spec

\* Wherever a complete scan dies, fails or recovers, a reader still finds a
\* complete generation if there was one, and a scan that reports success has
\* left one of the files it saw, even after one that died between two shards
\* (BaselineGeneration.ts, publishBaselineSnapshot, publishIncrementalEntries).
THEOREM GenerationsSafe == StoresSpec => GenerationsExact
  <1>1. BaselineInv' => B!ScansExact'
    BY DEF BaselineInv, Generations, B!ScansExact
  <1>2. BaselineInv /\ [B!Next]_B!vars
        => [/\ B!ScansExact'
            /\ B!Complete(B!ReadableDir)
                 => B!Complete(B!ReadableDir)' \/ bpc = "shards"]_baselineVars
    BY <1>1, StoresAssumption, BaselineInvStep DEF Forward
  <1> QED
    BY <1>1, <1>2, BaselineInvariant, StoresImplement, PTL DEF B!Spec, GenerationsExact

\* No crash, failure or recovery brings an older generation back
\* (recoverBaseline).
THEOREM NoOlderGeneration == StoresSpec => NeverOlder
  <1>1. BaselineInv /\ [B!Next]_B!vars
        => [B!ReadableDir # NoDir /\ B!ReadableDir' # NoDir
              => B!ReadableDir'.no >= B!ReadableDir.no]_baselineVars
    BY StoresAssumption, BaselineInvStep DEF Forward
  <1> QED
    BY <1>1, BaselineInvariant, StoresImplement, PTL DEF B!Spec, NeverOlder

-----------------------------------------------------------------------------
(* The validation evidence, by the theorem of EvidenceServiceProofs, which  *)
(* is about any records and documents: its instance there and the one of    *)
(* MCStores are the same definitions.                                       *)

Ev == INSTANCE EvidenceServiceProofs WITH
        Files <- {"calibration-evidence"}, Docs <- {"proposal"}, Editable <- {"proposal"},
        Versions <- {1, 2}, Local <- FALSE, Records <- TwoSlots, TooLong <- TheLong

LEMMA SameEvidence ==
    /\ E!EvidenceAssumption => Ev!EvidenceAssumption
    /\ E!EvidenceInit => Ev!EvidenceInit
    /\ E!EvidenceNext => Ev!EvidenceNext
    /\ Ev!EvidenceExact => E!EvidenceExact
  <1>1. E!EvidenceAssumption => Ev!EvidenceAssumption
    BY DEF E!EvidenceAssumption, Ev!EvidenceAssumption
  <1>2. E!EvidenceInit => Ev!EvidenceInit
    BY DEF E!EvidenceInit, E!DocsInit, E!Write, E!Free,
           Ev!EvidenceInit, Ev!DocsInit, Ev!Write, Ev!Free
  <1>3. E!EvidenceNext => Ev!EvidenceNext
    <2>1. \A w \in Writers : E!Arrive(w) => Ev!Arrive(w)
      <3>1. E!Free = Ev!Free
        BY DEF E!Free, Ev!Free
      <3>2. \A w : E!At(w, "idle") => Ev!At(w, "idle")
        BY DEF E!At, Ev!At
      <3>3. E!KeepDocs => Ev!KeepDocs
        BY DEF E!KeepDocs, E!KeepBranch, Ev!KeepDocs, Ev!KeepBranch
      <3> QED
        BY <3>1, <3>2, <3>3, Zenon DEF E!Arrive, Ev!Arrive
    <2>2. \A w \in Writers : E!Appended(w) => Ev!Appended(w)
      BY DEF E!Appended, E!At, E!Goto, E!Answer, E!Write, E!KeepBranch, Ev!Appended,
             Ev!At, Ev!Goto, Ev!Answer, Ev!Write, Ev!KeepBranch
    <2>3. \A w \in Writers : E!RefreshRepository(w) => Ev!RefreshRepository(w)
      BY DEF E!RefreshRepository, E!At, E!CanAdvance, E!FastForward, E!Goto,
             Ev!RefreshRepository, Ev!At, Ev!CanAdvance, Ev!FastForward,
             Ev!Goto
    <2>4. \A w \in Writers : E!ListEvidence(w) => Ev!ListEvidence(w)
      BY DEF E!ListEvidence, E!At, E!CanRead, E!Synchronized, E!Readable, E!InFile,
             E!Evidence, E!TheFile, E!KeepDocs, E!KeepBranch,
             Ev!ListEvidence, Ev!At, Ev!CanRead, Ev!Synchronized,
             Ev!Readable, Ev!InFile, Ev!Evidence, Ev!TheFile, Ev!KeepDocs,
             Ev!KeepBranch
    <2>5. \A w \in Writers : E!ReplaceEvidence(w) => Ev!ReplaceEvidence(w)
      BY DEF E!ReplaceEvidence, E!At, E!Goto, E!Answer, E!KeepDocs, E!KeepBranch,
             Ev!ReplaceEvidence, Ev!At, Ev!Goto, Ev!Answer, Ev!KeepDocs,
             Ev!KeepBranch
    <2>6. \A w \in Writers : E!ReadProjection(w) => Ev!ReadProjection(w)
      BY DEF E!ReadProjection, E!At, E!Readable, E!InFile, E!Goto, E!Answer, E!KeepDocs,
             E!KeepBranch, Ev!ReadProjection, Ev!At, Ev!Readable, Ev!InFile,
             Ev!Goto, Ev!Answer, Ev!KeepDocs, Ev!KeepBranch
    <2>7. \A w \in Writers : E!Unavailable(w) => Ev!Unavailable(w)
      BY DEF E!Unavailable, E!Answer, E!KeepDocs, E!KeepBranch, Ev!Unavailable, Ev!Answer,
             Ev!KeepDocs, Ev!KeepBranch
    <2>8. \A w \in Writers : E!Leave(w) => Ev!Leave(w)
      BY DEF E!Leave, E!At, E!Free, E!KeepDocs, E!KeepBranch, Ev!Leave, Ev!At, Ev!Free,
             Ev!KeepDocs, Ev!KeepBranch
    <2>9. \A w \in Writers : E!AppendEvidence(w) => Ev!AppendEvidence(w)
      BY DEF E!AppendEvidence, E!At, E!Readable, E!InFile, E!Evidence, E!TheFile,
             E!UpsertEvidence, E!NothingToCommit, E!Commit, E!Last,
             E!FastForward, E!Write, E!Goto, Ev!AppendEvidence, Ev!At,
             Ev!Readable, Ev!InFile, Ev!Evidence, Ev!TheFile,
             Ev!UpsertEvidence, Ev!NothingToCommit, Ev!Commit, Ev!Last,
             Ev!FastForward, Ev!Write, Ev!Goto
    <2>10. \A w \in Writers : E!PushOk(w) => Ev!PushOk(w)
      BY DEF E!PushOk, E!Publish, E!Last, Ev!PushOk, Ev!Publish, Ev!Last
    <2>11. \A w \in Writers : E!PushRejected(w) => Ev!PushRejected(w)
      BY DEF E!PushRejected, E!FailPush, E!AfterFailedPush, Ev!PushRejected, Ev!FailPush,
             Ev!AfterFailedPush
    <2>12. \A w \in Writers : E!PushUnanswered(w) => Ev!PushUnanswered(w)
      BY DEF E!PushUnanswered, E!FailPush, E!AfterFailedPush, E!Publish, E!Last,
             Ev!PushUnanswered, Ev!FailPush, Ev!AfterFailedPush, Ev!Publish,
             Ev!Last
    <2>13. \A w \in Writers : E!Rebase(w) => Ev!Rebase(w)
      BY DEF E!Rebase, E!FastForward, E!Write, Ev!Rebase, Ev!FastForward, Ev!Write
    <2>14. \A w \in Writers : E!RebaseFails(w) => Ev!RebaseFails(w)
      BY DEF E!RebaseFails, Ev!RebaseFails
    <2>15. \A w \in Writers : E!ConfirmSync(w) => Ev!ConfirmSync(w)
      BY DEF E!ConfirmSync, E!Synchronized, Ev!ConfirmSync, Ev!Synchronized
    <2>16. \A w \in Writers : E!SyncUnanswered(w) => Ev!SyncUnanswered(w)
      BY DEF E!SyncUnanswered, Ev!SyncUnanswered
    <2>17. \A left \in {None, Dirty} : E!Restart(left) => Ev!Restart(left)
      BY DEF E!Restart, E!At, E!Free, E!Write, Ev!Restart, Ev!At, Ev!Free, Ev!Write
    <2>18. E!ProjectionLost => Ev!ProjectionLost
      BY DEF E!ProjectionLost, E!KeepDocs, E!KeepBranch, Ev!ProjectionLost, Ev!KeepDocs,
             Ev!KeepBranch
    <2>19. E!Outside => Ev!Outside
      BY DEF E!Outside, E!AgentPush, E!OperatorReset, E!DocAt, E!Last, E!FastForward,
             Ev!Outside, Ev!AgentPush, Ev!OperatorReset, Ev!DocAt, Ev!Last,
             Ev!FastForward
    <2>20. \A w \in Writers : E!Publishing(w) => Ev!Publishing(w)
      BY <2>10, <2>11, <2>12, <2>13, <2>14, <2>15, <2>16
         DEF E!Publishing, E!At, E!WriteStep, Ev!Publishing, Ev!At, Ev!WriteStep
    <2>21. E!TheFile = Ev!TheFile
      BY DEF E!TheFile, Ev!TheFile
    <2> QED
      BY <2>1, <2>2, <2>3, <2>4, <2>5, <2>6, <2>7, <2>8, <2>9, <2>17, <2>18, <2>19, <2>20, <2>21
         DEF E!EvidenceNext, Ev!EvidenceNext
  <1>4. Ev!EvidenceExact => E!EvidenceExact
    BY DEF E!EvidenceExact, E!OnePerSlot, E!AcceptedIsDurable, E!AcceptedIsProjected,
           E!NothingInvented, E!Evidence, E!TheFile, E!InFile, E!At, Ev!EvidenceExact,
           Ev!OnePerSlot, Ev!AcceptedIsDurable, Ev!AcceptedIsProjected,
           Ev!NothingInvented, Ev!Evidence, Ev!TheFile, Ev!InFile, Ev!At
  <1> QED
    BY <1>1, <1>2, <1>3, <1>4

LEMMA EvidenceKept == StoresSpec => []E!EvidenceExact
  <1>1. StoresInit => Ev!EvidenceInit
    BY SameEvidence DEF StoresInit
  <1>2. [StoresNext]_<<vars, sessionVars, baselineVars, evidenceVars, store>>
        => [Ev!EvidenceNext]_Ev!serviceVars
    BY SameEvidence DEF StoresNext, evidenceVars, Ev!serviceVars, Ev!evidenceVars, Ev!docsVars
  <1>3. /\ Ev!EvidenceAssumption
        /\ PushAttempts \in Nat \ {0} /\ MaxHeads \in Nat \ {0} /\ FALSE \in BOOLEAN
        /\ {"proposal"} \subseteq {"proposal"}
    BY StoresAssumption, SameEvidence
  <1>4. Ev!EvidenceAssumption => (Ev!EvidenceSpec => []Ev!EvidenceExact)
    BY <1>3, Ev!EvidenceSafe
  <1> QED
    BY <1>1, <1>2, <1>3, <1>4, SameEvidence, PTL DEF StoresSpec, Ev!EvidenceSpec

\* Both ledgers tell the truth: the evidence of the commit hooks counts each
\* sealed entry once, and the validation evidence has one conclusion for each
\* slot, none lost that was acknowledged and none that never was on the branch
\* (core's evidence storage, internal/evidence).
THEOREM LedgersExact == StoresSpec => []LedgerExact
  BY LedgerSafe, EvidenceKept, PTL DEF LedgerExact
=============================================================================
