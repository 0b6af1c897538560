--------------------------- MODULE EvidenceService ---------------------------
(***************************************************************************)
(* The validation evidence of the coordination service                     *)
(* (internal/evidence): one service-owned file of the docs-repo with a     *)
(* record for each calibration slot, and the projection of it that         *)
(* calibrations are read from, a file that only this service writes        *)
(* (application/service.go, adapter/ndjson/store.go).  Each call of the    *)
(* authority or of the projection store is one action; a request makes     *)
(* several, so requests interleave between them.                           *)
(*                                                                         *)
(* A record is its slot and its conclusion: ObservationFingerprint leaves  *)
(* the times of an observation out.  A file is read line by line into a    *)
(* buffer of 64 KiB, which a record in TooLong exceeds.                    *)
(***************************************************************************)
EXTENDS DocsRepo

CONSTANTS Records,   \* records [slot, conclusion]
          TooLong    \* the records that are longer than the reader's buffer

VARIABLES calls,       \* the request in each slot of the service
          projection,  \* records in the projection file, None when it is gone
          accepted,    \* history: the records whose ingestion was acknowledged
          published    \* history: the contents the evidence file has had

evidenceVars == <<calls, projection, accepted, published>>
serviceVars == <<docsVars, evidenceVars>>

TheFile == CHOOSE f \in Files : TRUE     \* defaultEvidenceFile
Evidence == log[TheFile]

InFile(s) == {s[i] : i \in DOMAIN s}
Readable(s) == InFile(s) \cap TooLong = {}

\* upsertEvidence: a known conclusion changes nothing, another one of the same
\* slot takes the place of the first record there.
UpsertEvidence(s, r) ==
    LET same == {i \in DOMAIN s : s[i].slot = r.slot}
    IN  IF r \in InFile(s) THEN s
        ELSE IF same = {} THEN Append(s, r)
        ELSE [s EXCEPT ![CHOOSE i \in same : \A j \in same : i <= j] = r]

\* "No draft", "no mutex owner" and "uncommitted changes" are nothing else.
EvidenceAssumption ==
    /\ Files # {}
    /\ None \notin Writers /\ None # Dirty
    /\ {None, Dirty} \cap [file : Files, content : Seq(Records)] = {}

Free == [op |-> "none", at |-> "idle", rec |-> None, read |-> None, ok |-> FALSE]
At(w, point) == calls[w].at = point
Goto(w, point) == calls' = [calls EXCEPT ![w].at = point]
Answer(w, ok) == calls' = [calls EXCEPT ![w].at = "done", ![w].ok = ok]

KeepBranch == UNCHANGED <<heads, log, local, draft, mu>>
KeepDocs == KeepBranch /\ UNCHANGED stage

---------------------------------------------------------------------------
(* Requests *)

\* POST /v1/evidence, POST /v1/docs-repo/refresh, GET /v1/calibrations/...
Arrive(w) ==
    /\ At(w, "idle")
    /\ \/ \E r \in Records : calls' = [calls EXCEPT ![w] = [Free EXCEPT !.op = "ingest", !.at = "append", !.rec = r]]
       \/ calls' = [calls EXCEPT ![w] = [Free EXCEPT !.op = "refresh", !.at = "refresh"]]
       \/ calls' = [calls EXCEPT ![w] = [Free EXCEPT !.op = "calibration", !.at = "projected"]]
    /\ KeepDocs /\ UNCHANGED <<projection, accepted, published>>

\* AppendEvidence up to its commit: what is read is HEAD after the worktree was
\* fast-forwarded to the branch.
AppendEvidence(w) ==
    /\ At(w, "append")
    /\ Readable(Evidence)
    /\ LET updated == UpsertEvidence(Evidence, calls[w].rec)
       IN  IF updated = Evidence THEN NothingToCommit(w) ELSE Commit(w, TheFile, updated)
    /\ Goto(w, "writing")
    /\ UNCHANGED <<projection, accepted>>

\* pushOwnedCommit and ensureSynchronized, under the mutex.
Publishing(w) ==
    /\ At(w, "writing") /\ WriteStep(w)
    /\ UNCHANGED <<calls, projection, accepted>>

\* AppendEvidence has returned.
Appended(w) ==
    /\ At(w, "writing") /\ stage[w].at \in {"ok", "error"}
    /\ IF stage[w].at = "ok" THEN Goto(w, "list") ELSE Answer(w, FALSE)
    /\ stage' = [stage EXCEPT ![w] = Write("idle", 0)]
    /\ KeepBranch /\ UNCHANGED <<projection, accepted, published>>

\* RefreshFromRemote: any head on the branch may be advertised.
RefreshRepository(w) ==
    /\ At(w, "refresh")
    /\ CanAdvance /\ FastForward
    /\ Goto(w, "list")
    /\ UNCHANGED <<heads, log, draft, mu, stage, projection, accepted, published>>

\* ListEvidence, the first half of refreshProjection.
ListEvidence(w) ==
    /\ At(w, "list")
    /\ CanRead /\ Readable(Evidence)
    /\ calls' = [calls EXCEPT ![w].at = "replace", ![w].read = Evidence]
    /\ KeepDocs /\ UNCHANGED <<projection, accepted, published>>

\* ReplaceEvidence, the second half: a temporary file is renamed into place.
ReplaceEvidence(w) ==
    /\ At(w, "replace")
    /\ projection' = calls[w].read
    /\ IF calls[w].op = "calibration" THEN Goto(w, "projected") ELSE Answer(w, TRUE)
    /\ accepted' = IF calls[w].op = "ingest" THEN accepted \cup {calls[w].rec} ELSE accepted
    /\ KeepDocs /\ UNCHANGED published

\* GetCalibration: the projection is read, and built only when that fails.  A
\* second failure is the answer.
ReadProjection(w) ==
    /\ At(w, "projected")
    /\ IF projection # None /\ Readable(projection)
         THEN calls' = [calls EXCEPT ![w].at = "done", ![w].ok = TRUE, ![w].read = projection]
         ELSE IF calls[w].read = None THEN Goto(w, "list") ELSE Answer(w, FALSE)
    /\ KeepDocs /\ UNCHANGED <<projection, accepted, published>>

\* A step of a request fails: the docs-repo cannot be reached, is ahead of the
\* worktree or not clean, or the evidence cannot be read.
Unavailable(w) ==
    /\ calls[w].at \in {"append", "refresh", "list", "replace"}
    /\ Answer(w, FALSE)
    /\ KeepDocs /\ UNCHANGED <<projection, accepted, published>>

Leave(w) ==
    /\ At(w, "done")
    /\ calls' = [calls EXCEPT ![w] = Free]
    /\ KeepDocs /\ UNCHANGED <<projection, accepted, published>>

---------------------------------------------------------------------------
(* Around the service *)

\* The service dies, between writing the evidence file and committing it too,
\* and is started again: ndjson.Open creates a missing projection empty.
Restart(left) ==
    /\ \E w \in Writers : ~At(w, "idle")
    /\ left = Dirty => draft = None /\ mu = None /\ \E w \in Writers : At(w, "append")
    /\ draft' = IF left = Dirty THEN Dirty ELSE draft
    /\ calls' = [w \in Writers |-> Free]
    /\ stage' = [w \in Writers |-> Write("idle", 0)]
    /\ mu' = None
    /\ projection' = IF projection = None THEN <<>> ELSE projection
    /\ UNCHANGED <<heads, log, local, accepted, published>>

\* The temporary directory is cleaned.
ProjectionLost ==
    /\ projection # None
    /\ projection' = None
    /\ KeepDocs /\ UNCHANGED <<calls, accepted, published>>

Outside ==
    /\ (\E d \in Editable, v \in Versions : AgentPush(d, v)) \/ OperatorReset
    /\ UNCHANGED <<calls, projection, accepted, published>>

EvidenceInit ==
    /\ heads = <<[d \in Docs |-> CHOOSE v \in Versions : TRUE]>>
    /\ log = [f \in Files |-> <<>>]
    /\ DocsInit
    /\ calls = [w \in Writers |-> Free]
    /\ projection = <<>> /\ accepted = {} /\ published = {<<>>}

EvidenceNext ==
    \/ \E w \in Writers :
          \/ Arrive(w) \/ Appended(w) \/ RefreshRepository(w) \/ ListEvidence(w)
          \/ ReplaceEvidence(w) \/ ReadProjection(w) \/ Unavailable(w) \/ Leave(w)
          \/ (AppendEvidence(w) \/ Publishing(w)) /\ published' = published \cup {log'[TheFile]}
    \/ (\E left \in {None, Dirty} : Restart(left)) \/ ProjectionLost \/ Outside

EvidenceSpec == EvidenceInit /\ [][EvidenceNext]_serviceVars

---------------------------------------------------------------------------
(* Properties *)

\* One conclusion for each slot, however many requests append at once, retry
\* or die (ObservationSlotFingerprint: "one latest calibration conclusion per
\* project/key/language scope").
OnePerSlot == \A i, j \in DOMAIN Evidence : Evidence[i].slot = Evidence[j].slot => i = j

\* What was acknowledged has been on the branch and its slot still is: the
\* answer waits for the push, and only a later conclusion takes a place.
AcceptedIsDurable ==
    \A r \in accepted : /\ \E s \in published : r \in InFile(s)
                        /\ \E i \in DOMAIN Evidence : Evidence[i].slot = r.slot

\* An ingestion is acknowledged when the projection it wrote shows its slot.
AcceptedIsProjected ==
    \A w \in Writers :
        calls[w].op = "ingest" /\ At(w, "done") /\ calls[w].ok =>
            \E i \in DOMAIN calls[w].read : calls[w].read[i].slot = calls[w].rec.slot

\* No calibration is made of evidence that never was on the branch, however
\* requests overlap: the projection is built from Git only, and in one piece.
NothingInvented == projection \in published \cup {None, <<>>}

EvidenceExact == OnePerSlot /\ AcceptedIsDurable /\ AcceptedIsProjected /\ NothingInvented

\* README.md:137: "When projections are stale or missing, rebuild from Git": a
\* calibration that is read while nobody writes is of the evidence on the
\* branch.  Two requests may write their projections in the other order, and a
\* service that starts without one makes an empty one.
ServedIsCurrent ==
    [][\A w \in Writers :
         At(w, "projected") /\ calls'[w].ok /\ (\A v \in Writers \ {w} : At(v, "idle"))
           => InFile(Evidence) \subseteq InFile(projection)]_serviceVars

\* A record that was accepted once can be read again.
StaysReadable == Readable(Evidence)
===========================================================================
