------------------------ MODULE EvidenceServiceProofs ------------------------
(***************************************************************************)
(* Theorems about EvidenceService for any records, requests at once,       *)
(* documents, push attempts and crashes, in remote and in local mode.  The *)
(* invariant says what each request knows between two of its calls         *)
(* (CallOK): a record is on the branch before its append returns, or the   *)
(* commit that is not there yet replaces the evidence by what the record   *)
(* makes of it.  Nothing else changes the evidence, so that commit stays   *)
(* the right one however long it is retried, and what was durable stays    *)
(* durable (Grows).                                                        *)
(***************************************************************************)
EXTENDS EvidenceService, TLAPS

Slots(s) == {s[i].slot : i \in DOMAIN s}
Single(s) == \A i, j \in DOMAIN s : s[i].slot = s[j].slot => i = j

Drafts == [file : Files, content : Seq(Records)]
Points == {"idle", "append", "writing", "refresh", "list", "replace", "projected", "done"}
Call == [op : {"none", "ingest", "refresh", "calibration"}, at : Points,
         rec : Records \cup {None}, read : Seq(Records) \cup {None}, ok : BOOLEAN]

Types ==
    /\ log \in [Files -> Seq(Records)]
    /\ draft \in {None, Dirty} \cup Drafts
    /\ mu \in Writers \cup {None}
    /\ stage \in [Writers -> [at : Stages, attempt : Nat]]
    /\ calls \in [Writers -> Call]
    /\ accepted \subseteq Records /\ published \subseteq Seq(Records)

InWrite == {"push", "rebase", "sync"}

\* The mutex is its writer's, and only a request that appends has a write.
Turns ==
    /\ \A w \in Writers : stage[w].at \in InWrite => mu = w
    /\ \A w \in Writers : stage[w].at # "idle" => calls[w].at = "writing"
    /\ mu # None => stage[mu].at \in InWrite /\ draft # Dirty

FileOK == Single(Evidence) /\ Evidence \in published

\* The commit that is not on the branch yet takes one more record in.
DraftOK ==
    draft \in Drafts =>
        /\ draft.file = TheFile
        /\ \E r \in Records : draft.content = UpsertEvidence(Evidence, r)

\* A record that was on the branch, and whose slot still is.
Durable(r) == (\E s \in published : r \in InFile(s)) /\ r.slot \in Slots(Evidence)

Committed(r) == draft \in Drafts /\ draft.content = UpsertEvidence(Evidence, r)

\* What request c knows, whose owned write is at st.
CallOK(c, st) ==
    /\ c.op = "ingest" => c.rec \in Records
    /\ c.at \in {"append", "writing"} => c.op = "ingest"
    /\ c.at = "projected" => c.op = "calibration"
    /\ c.at = "refresh" => c.op = "refresh"
    /\ st \in {"sync", "ok"} => Durable(c.rec)
    /\ st \in {"push", "rebase"} => Durable(c.rec) \/ Committed(c.rec)
    /\ c.at \in {"list", "replace"} /\ c.op = "ingest" => Durable(c.rec)
    /\ c.at = "replace" => c.read \in published
    /\ c.at = "replace" /\ c.op = "ingest" => c.rec.slot \in Slots(c.read)
    /\ c.at = "done" /\ c.ok /\ c.op = "ingest" => c.rec.slot \in Slots(c.read)

Calls == \A w \in Writers : CallOK(calls[w], stage[w].at)
Accepted == \A r \in accepted : Durable(r)

IInv == Types /\ Turns /\ FileOK /\ DraftOK /\ Calls /\ Accepted /\ NothingInvented

-----------------------------------------------------------------------------
(* The evidence file.                                                       *)

LEMMA FileOfService == EvidenceAssumption => TheFile \in Files
  BY DEF EvidenceAssumption, TheFile

LEMMA EvidenceIsFile ==
    ASSUME EvidenceAssumption, Types
    PROVE  Evidence \in Seq(Records)
  BY FileOfService DEF Types, Evidence

\* What UpsertEvidence makes of a file with one record for each slot.
LEMMA Upserted ==
    ASSUME NEW s \in Seq(Records), Single(s), NEW r \in Records
    PROVE  LET u == UpsertEvidence(s, r)
           IN  /\ u \in Seq(Records) /\ Single(u)
               /\ r \in InFile(u) /\ Slots(u) = Slots(s) \cup {r.slot}
  <1> DEFINE same == {i \in DOMAIN s : s[i].slot = r.slot}
             u == UpsertEvidence(s, r)
             n == Len(s)
  <1>1. n \in Nat /\ DOMAIN s = 1..n /\ \A i \in 1..n : s[i] \in Records
    OBVIOUS
  <1>2. CASE r \in InFile(s)
    <2>1. u = s
      BY <1>2 DEF UpsertEvidence
    <2> QED
      BY <1>2, <2>1 DEF InFile, Slots
  <1>3. CASE r \notin InFile(s) /\ same = {}
    <2>1. u = Append(s, r)
      BY <1>3 DEF UpsertEvidence
    <2> HIDE DEF u
    <2>2. /\ u \in Seq(Records) /\ Len(u) = n + 1 /\ DOMAIN u = 1..(n + 1) /\ u[n + 1] = r
          /\ \A i \in 1..n : u[i] = s[i]
          /\ \A i \in 1..(n + 1) : i \in 1..n \/ i = n + 1
          /\ n + 1 \in 1..(n + 1) /\ 1..n \subseteq 1..(n + 1)
      BY <1>1, <2>1
    <2>3. \A i \in 1..n : s[i].slot # r.slot
      BY <1>1, <1>3
    <2>4. Single(u)
      BY <1>1, <2>2, <2>3 DEF Single
    <2>5. r \in InFile(u)
      BY <2>2 DEF InFile
    <2>6. Slots(u) = Slots(s) \cup {r.slot}
      BY <1>1, <2>2 DEF Slots
    <2> QED
      BY <2>2, <2>4, <2>5, <2>6 DEF u
  <1>4. CASE r \notin InFile(s) /\ same # {}
    <2>1. PICK k \in 1..n : s[k].slot = r.slot
      BY <1>1, <1>4
    <2>2. same = {k}
      BY <1>1, <2>1 DEF Single
    <2>3. (CHOOSE i \in same : \A j \in same : i <= j) = k
      BY <1>1, <2>1, <2>2
    <2>4. u = [s EXCEPT ![k] = r]
      BY <1>4, <2>3 DEF UpsertEvidence
    <2> HIDE DEF u
    <2>5. /\ u \in Seq(Records) /\ DOMAIN u = 1..n /\ u[k] = r
          /\ \A i \in 1..n : i # k => u[i] = s[i]
      BY <1>1, <2>1, <2>4
    <2>6. \A i \in 1..n : u[i].slot = s[i].slot
      BY <2>1, <2>5
    <2>7. Single(u)
      BY <1>1, <2>5, <2>6 DEF Single
    <2>8. r \in InFile(u)
      BY <2>1, <2>5 DEF InFile
    <2>9. Slots(u) = Slots(s) /\ r.slot \in Slots(s)
      BY <1>1, <2>1, <2>5, <2>6 DEF Slots
    <2> QED
      BY <2>5, <2>7, <2>8, <2>9 DEF u
  <1> QED
    BY <1>2, <1>3, <1>4

-----------------------------------------------------------------------------
(* What stays.                                                              *)

\* The branch only ever gains contents and slots.
Grows == published \subseteq published' /\ Slots(Evidence) \subseteq Slots(Evidence)'

LEMMA DurableKept ==
    ASSUME Grows, NEW r, Durable(r)
    PROVE  Durable(r)'
  BY DEF Grows, Durable, Slots

SameBranch == UNCHANGED <<log, draft, published>>

LEMMA BranchGrows ==
    ASSUME SameBranch
    PROVE  Grows /\ Evidence' = Evidence
  BY DEF SameBranch, Grows, Evidence, Slots

\* A request that does nothing knows what it knew, unless a commit it waits for
\* is about to be replaced.
LEMMA KnowledgeKept ==
    ASSUME Grows
    PROVE  \A c, st : CallOK(c, st) /\ (UNCHANGED <<log, draft>> \/ st \notin InWrite)
                        => CallOK(c, st)'
  <1>1. \A r : Durable(r) => Durable(r)'
    BY DurableKept
  <1>2. UNCHANGED <<log, draft>> => \A r : Committed(r) => Committed(r)'
    BY DEF Committed, Evidence
  <1>3. published \subseteq published'
    BY DEF Grows
  <1> QED
    BY <1>1, <1>2, <1>3 DEF CallOK, Slots, InWrite

LEMMA OthersKept ==
    ASSUME IInv, Grows, NEW v \in Writers, calls'[v] = calls[v], stage'[v] = stage[v],
           UNCHANGED <<log, draft>> \/ stage[v].at \notin InWrite
    PROVE  CallOK(calls[v], stage[v].at)'
  <1>1. CallOK(calls[v], stage[v].at)
    BY DEF IInv, Calls
  <1>2. stage[v].at = stage'[v].at
    OBVIOUS
  <1> QED
    BY <1>1, <1>2, KnowledgeKept

\* A step of one request, or of none, that leaves what is not on the branch yet
\* to the request that writes it.
LEMMA OneCall ==
    ASSUME EvidenceAssumption, IInv, NEW w \in Writers, Types', Turns', Grows, FileOK', DraftOK',
           \A v \in Writers \ {w} : calls'[v] = calls[v] /\ stage'[v] = stage[v],
           UNCHANGED <<log, draft>> \/ mu \in {None, w},
           CallOK(calls[w], stage[w].at)',
           \A r \in accepted' \ accepted : Durable(r)',
           NothingInvented'
    PROVE  IInv'
  <1>1. ASSUME NEW v \in Writers PROVE CallOK(calls[v], stage[v].at)'
    <2>1. CASE v # w
      <3>1. stage[v].at \in InWrite => mu = v /\ v # None
        BY DEF IInv, Turns, EvidenceAssumption
      <3>2. UNCHANGED <<log, draft>> \/ stage[v].at \notin InWrite
        BY <2>1, <3>1
      <3> QED
        BY <2>1, <3>2, OthersKept
    <2> QED
      BY <2>1
  <1>2. Calls'
    BY <1>1 DEF Calls
  <1>3. Accepted'
    BY DurableKept DEF IInv, Accepted
  <1> QED
    BY <1>2, <1>3 DEF IInv

\* What a request that is not writing does without the branch changing.
LEMMA CallStep ==
    ASSUME EvidenceAssumption, IInv, NEW w \in Writers, calls[w].at # "writing",
           UNCHANGED <<log, draft, mu, stage, published>>,
           NEW c \in Call, calls' = [calls EXCEPT ![w] = c], CallOK(c, "idle"),
           \A r \in accepted' : r \in accepted \/ (r \in Records /\ Durable(r)),
           projection' \in published \cup {None, <<>>}
    PROVE  IInv'
  <1>1. Types /\ calls \in [Writers -> Call]
    BY DEF IInv, Types
  <1>2. /\ calls'[w] = c /\ calls' \in [Writers -> Call]
        /\ \A v \in Writers \ {w} : calls'[v] = calls[v]
    BY <1>1
  <1>3. stage[w].at = "idle"
    BY DEF IInv, Turns
  <1>4. Types'
    BY <1>1, <1>2 DEF Types
  <1>5. Turns'
    BY <1>2, <1>3 DEF IInv, Turns
  <1>6. Grows /\ Evidence' = Evidence
    BY BranchGrows DEF SameBranch
  <1>7. FileOK' /\ DraftOK'
    BY <1>6 DEF IInv, FileOK, DraftOK
  <1>8. CallOK(calls[w], stage[w].at)'
    <2>1. CallOK(c, "idle")'
      BY <1>6, KnowledgeKept DEF InWrite
    <2> QED
      BY <1>2, <1>3, <2>1
  <1>9. \A r \in accepted' \ accepted : Durable(r)'
    BY <1>6, DurableKept
  <1>10. NothingInvented'
    BY DEF NothingInvented
  <1> QED
    BY <1>2, <1>4, <1>5, <1>6, <1>7, <1>8, <1>9, <1>10, OneCall

-----------------------------------------------------------------------------
(* Requests.                                                                *)

\* A call that moves on is a call.
LEMMA CallMoves ==
    ASSUME NEW c \in Call
    PROVE  /\ \A p \in Points : [c EXCEPT !.at = p] \in Call
           /\ \A p \in Points, b \in BOOLEAN : [c EXCEPT !.at = p, !.ok = b] \in Call
           /\ \A p \in Points, s \in Seq(Records) : [c EXCEPT !.at = p, !.read = s] \in Call
           /\ \A p \in Points, b \in BOOLEAN, s \in Seq(Records) :
                [c EXCEPT !.at = p, !.ok = b, !.read = s] \in Call
  BY DEF Call

LEMMA ArriveStep ==
    ASSUME EvidenceAssumption, IInv, NEW w \in Writers, Arrive(w)
    PROVE  IInv'
  <1>1. /\ calls[w].at = "idle"
        /\ UNCHANGED <<log, draft, mu, stage, published, projection, accepted>>
    BY DEF Arrive, At, KeepDocs, KeepBranch
  <1>2. PICK c \in Call : calls' = [calls EXCEPT ![w] = c] /\ CallOK(c, "idle")
    <2>1. \A r \in Records :
             LET c == [Free EXCEPT !.op = "ingest", !.at = "append", !.rec = r]
             IN  c \in Call /\ CallOK(c, "idle")
      BY DEF Free, Call, Points, CallOK
    <2>2. LET c == [Free EXCEPT !.op = "refresh", !.at = "refresh"]
          IN  c \in Call /\ CallOK(c, "idle")
      BY DEF Free, Call, Points, CallOK
    <2>3. LET c == [Free EXCEPT !.op = "calibration", !.at = "projected"]
          IN  c \in Call /\ CallOK(c, "idle")
      BY DEF Free, Call, Points, CallOK
    <2> QED
      BY <2>1, <2>2, <2>3 DEF Arrive
  <1>3. /\ projection' \in published \cup {None, <<>>}
        /\ \A r \in accepted' : r \in accepted \/ (r \in Records /\ Durable(r))
    BY <1>1 DEF IInv, NothingInvented
  <1> QED
    BY <1>1, <1>2, <1>3, CallStep

LEMMA ListEvidenceStep ==
    ASSUME EvidenceAssumption, IInv, NEW w \in Writers, ListEvidence(w)
    PROVE  IInv'
  <1> DEFINE c == [calls[w] EXCEPT !.at = "replace", !.read = Evidence]
  <1>1. /\ calls[w].at = "list" /\ calls' = [calls EXCEPT ![w] = c]
        /\ UNCHANGED <<log, draft, mu, stage, published, projection, accepted>>
    BY DEF ListEvidence, At, KeepDocs, KeepBranch
  <1>2. Evidence \in Seq(Records) /\ Evidence \in published
    BY EvidenceIsFile DEF IInv, FileOK
  <1>3. calls[w] \in Call /\ CallOK(calls[w], stage[w].at)
    BY DEF IInv, Types, Calls
  <1>4. /\ c \in Call /\ c.op = calls[w].op /\ c.rec = calls[w].rec
        /\ c.at = "replace" /\ c.read = Evidence
    <2>1. "replace" \in Points
      BY DEF Points
    <2>2. c \in Call
      BY <1>2, <1>3, <2>1, CallMoves
    <2> QED
      BY <1>3, <2>2 DEF Call
  <1> HIDE DEF c
  <1>5. CallOK(c, "idle")
    BY <1>1, <1>2, <1>3, <1>4 DEF CallOK, Durable
  <1>6. /\ projection' \in published \cup {None, <<>>}
        /\ \A r \in accepted' : r \in accepted \/ (r \in Records /\ Durable(r))
    BY <1>1 DEF IInv, NothingInvented
  <1> QED
    BY <1>1, <1>4, <1>5, <1>6, CallStep

LEMMA ReplaceEvidenceStep ==
    ASSUME EvidenceAssumption, IInv, NEW w \in Writers, ReplaceEvidence(w)
    PROVE  IInv'
  <1> DEFINE c == IF calls[w].op = "calibration" THEN [calls[w] EXCEPT !.at = "projected"]
                  ELSE [calls[w] EXCEPT !.at = "done", !.ok = TRUE]
  <1>1. /\ calls[w].at = "replace" /\ calls' = [calls EXCEPT ![w] = c]
        /\ projection' = calls[w].read
        /\ UNCHANGED <<log, draft, mu, stage, published>>
    BY DEF ReplaceEvidence, At, Goto, Answer, KeepDocs, KeepBranch
  <1>2. calls[w] \in Call /\ CallOK(calls[w], stage[w].at)
    BY DEF IInv, Types, Calls
  <1>3. /\ c \in Call /\ c.op = calls[w].op /\ c.rec = calls[w].rec /\ c.read = calls[w].read
        /\ (c.at = "projected" /\ c.op = "calibration") \/ (c.at = "done" /\ c.op # "calibration")
    <2>1. "projected" \in Points /\ "done" \in Points /\ TRUE \in BOOLEAN
      BY DEF Points
    <2>2. CASE calls[w].op = "calibration"
      <3>1. c = [calls[w] EXCEPT !.at = "projected"]
        BY <2>2
      <3> HIDE DEF c
      <3>2. c \in Call
        BY <1>2, <2>1, <3>1, CallMoves
      <3> QED
        <4>1. c.op = calls[w].op /\ c.rec = calls[w].rec /\ c.read = calls[w].read
          BY <1>2, <3>1 DEF Call
        <4>2. c.at = "projected"
          BY <1>2, <3>1 DEF Call
        <4> QED
          BY <2>2, <3>2, <4>1, <4>2
    <2>3. CASE calls[w].op # "calibration"
      <3>1. c = [calls[w] EXCEPT !.at = "done", !.ok = TRUE]
        BY <2>3
      <3> HIDE DEF c
      <3>2. c \in Call
        BY <1>2, <2>1, <3>1, CallMoves
      <3> QED
        BY <1>2, <2>3, <3>1, <3>2 DEF Call
    <2> QED
      BY <2>2, <2>3
  <1> HIDE DEF c
  <1>4. CallOK(c, "idle")
    BY <1>1, <1>2, <1>3 DEF CallOK
  <1>5. \A r \in accepted' : r \in accepted \/ (r \in Records /\ Durable(r))
    <2>1. calls[w].op = "ingest" => Durable(calls[w].rec) /\ calls[w].rec \in Records
      BY <1>1, <1>2 DEF CallOK
    <2>2. \A r \in accepted' : r \in accepted \/ (calls[w].op = "ingest" /\ r = calls[w].rec)
      BY DEF ReplaceEvidence
    <2> QED
      BY <2>1, <2>2
  <1>6. projection' \in published \cup {None, <<>>}
    BY <1>1, <1>2 DEF CallOK
  <1> QED
    BY <1>1, <1>3, <1>4, <1>5, <1>6, CallStep

LEMMA ReadProjectionStep ==
    ASSUME EvidenceAssumption, IInv, NEW w \in Writers, ReadProjection(w)
    PROVE  IInv'
  <1>1. /\ calls[w].at = "projected"
        /\ UNCHANGED <<log, draft, mu, stage, published, projection, accepted>>
    BY DEF ReadProjection, At, KeepDocs, KeepBranch
  <1>2. calls[w] \in Call /\ CallOK(calls[w], stage[w].at) /\ calls[w].op = "calibration"
    BY <1>1 DEF IInv, Types, Calls, CallOK
  <1>3. "done" \in Points /\ "list" \in Points /\ TRUE \in BOOLEAN /\ FALSE \in BOOLEAN
    BY DEF Points
  <1>4. projection # None => projection \in Seq(Records)
    <2>1. <<>> \in Seq(Records)
      OBVIOUS
    <2> QED
      BY <2>1 DEF IInv, Types, NothingInvented
  <1>5. PICK c \in Call : /\ calls' = [calls EXCEPT ![w] = c]
                          /\ c.op = "calibration" /\ c.at \in {"done", "list"}
    <2>1. CASE projection # None /\ Readable(projection)
      <3> DEFINE c == [calls[w] EXCEPT !.at = "done", !.ok = TRUE, !.read = projection]
      <3>1. calls' = [calls EXCEPT ![w] = c]
        BY <2>1 DEF ReadProjection
      <3>2. c \in Call
        BY <1>2, <1>3, <1>4, <2>1, CallMoves
      <3>3. c.op = "calibration" /\ c.at = "done"
        BY <1>2 DEF Call
      <3> QED
        BY <3>1, <3>2, <3>3
    <2>2. CASE ~(projection # None /\ Readable(projection)) /\ calls[w].read = None
      <3> DEFINE c == [calls[w] EXCEPT !.at = "list"]
      <3>1. calls' = [calls EXCEPT ![w] = c]
        BY <2>2 DEF ReadProjection, Goto
      <3>2. c \in Call
        BY <1>2, <1>3, CallMoves
      <3>3. c.op = "calibration" /\ c.at = "list"
        BY <1>2 DEF Call
      <3> QED
        BY <3>1, <3>2, <3>3
    <2>3. CASE ~(projection # None /\ Readable(projection)) /\ calls[w].read # None
      <3> DEFINE c == [calls[w] EXCEPT !.at = "done", !.ok = FALSE]
      <3>1. calls' = [calls EXCEPT ![w] = c]
        BY <2>3 DEF ReadProjection, Answer
      <3>2. c \in Call
        BY <1>2, <1>3, CallMoves
      <3>3. c.op = "calibration" /\ c.at = "done"
        BY <1>2 DEF Call
      <3> QED
        BY <3>1, <3>2, <3>3
    <2> QED
      BY <2>1, <2>2, <2>3
  <1>6. CallOK(c, "idle")
    BY <1>5 DEF CallOK
  <1>7. /\ projection' \in published \cup {None, <<>>}
        /\ \A r \in accepted' : r \in accepted \/ (r \in Records /\ Durable(r))
    BY <1>1 DEF IInv, NothingInvented
  <1> QED
    BY <1>1, <1>5, <1>6, <1>7, CallStep

LEMMA UnavailableStep ==
    ASSUME EvidenceAssumption, IInv, NEW w \in Writers, Unavailable(w)
    PROVE  IInv'
  <1> DEFINE c == [calls[w] EXCEPT !.at = "done", !.ok = FALSE]
  <1>1. /\ calls[w].at \in {"append", "refresh", "list", "replace"}
        /\ calls' = [calls EXCEPT ![w] = c]
        /\ UNCHANGED <<log, draft, mu, stage, published, projection, accepted>>
    BY DEF Unavailable, Answer, KeepDocs, KeepBranch
  <1>2. calls[w] \in Call /\ CallOK(calls[w], stage[w].at)
    BY DEF IInv, Types, Calls
  <1>3. c \in Call /\ c.op = calls[w].op /\ c.rec = calls[w].rec /\ c.at = "done" /\ ~c.ok
    <2>1. "done" \in Points /\ FALSE \in BOOLEAN
      BY DEF Points
    <2>2. c \in Call
      BY <1>2, <2>1, CallMoves
    <2> QED
      BY <1>2, <2>2 DEF Call
  <1> HIDE DEF c
  <1>4. CallOK(c, "idle")
    BY <1>2, <1>3 DEF CallOK
  <1>5. /\ projection' \in published \cup {None, <<>>}
        /\ \A r \in accepted' : r \in accepted \/ (r \in Records /\ Durable(r))
    BY <1>1 DEF IInv, NothingInvented
  <1> QED
    BY <1>1, <1>3, <1>4, <1>5, CallStep

LEMMA LeaveStep ==
    ASSUME EvidenceAssumption, IInv, NEW w \in Writers, Leave(w)
    PROVE  IInv'
  <1>1. /\ calls[w].at = "done" /\ calls' = [calls EXCEPT ![w] = Free]
        /\ UNCHANGED <<log, draft, mu, stage, published, projection, accepted>>
    BY DEF Leave, At, KeepDocs, KeepBranch
  <1>2. Free \in Call /\ CallOK(Free, "idle")
    BY DEF Free, Call, Points, CallOK
  <1>3. /\ projection' \in published \cup {None, <<>>}
        /\ \A r \in accepted' : r \in accepted \/ (r \in Records /\ Durable(r))
    BY <1>1 DEF IInv, NothingInvented
  <1> QED
    BY <1>1, <1>2, <1>3, CallStep

\* Refreshing moves the worktree only.
LEMMA RefreshStep ==
    ASSUME EvidenceAssumption, IInv, NEW w \in Writers, RefreshRepository(w)
    PROVE  IInv'
  <1> DEFINE c == [calls[w] EXCEPT !.at = "list"]
  <1>1. /\ calls[w].at = "refresh" /\ calls' = [calls EXCEPT ![w] = c]
        /\ UNCHANGED <<log, draft, mu, stage, published, projection, accepted>>
    BY DEF RefreshRepository, At, Goto
  <1>2. calls[w] \in Call /\ CallOK(calls[w], stage[w].at)
    BY DEF IInv, Types, Calls
  <1>3. c \in Call /\ c.op = calls[w].op /\ c.rec = calls[w].rec /\ c.at = "list"
    <2>1. "list" \in Points
      BY DEF Points
    <2>2. c \in Call
      BY <1>2, <2>1, CallMoves
    <2> QED
      BY <1>2, <2>2 DEF Call
  <1> HIDE DEF c
  <1>4. CallOK(c, "idle")
    BY <1>1, <1>2, <1>3 DEF CallOK
  <1>5. /\ projection' \in published \cup {None, <<>>}
        /\ \A r \in accepted' : r \in accepted \/ (r \in Records /\ Durable(r))
    BY <1>1 DEF IInv, NothingInvented
  <1> QED
    BY <1>1, <1>3, <1>4, <1>5, CallStep

-----------------------------------------------------------------------------
(* Owned writes.                                                            *)

\* The evidence takes one more record in.
LEMMA TakesRecord ==
    ASSUME EvidenceAssumption, Types, FileOK, NEW r \in Records,
           log' = [log EXCEPT ![TheFile] = UpsertEvidence(Evidence, r)],
           published' = published \cup {log'[TheFile]}
    PROVE  /\ Grows /\ FileOK' /\ Durable(r)'
           /\ log' \in [Files -> Seq(Records)] /\ published' \subseteq Seq(Records)
  <1> DEFINE u == UpsertEvidence(Evidence, r)
  <1>1. Evidence \in Seq(Records) /\ TheFile \in Files /\ log \in [Files -> Seq(Records)]
    BY EvidenceIsFile, FileOfService DEF Types
  <1>2. /\ u \in Seq(Records) /\ Single(u)
        /\ r \in InFile(u) /\ Slots(u) = Slots(Evidence) \cup {r.slot}
    BY <1>1, Upserted DEF FileOK
  <1> HIDE DEF u
  <1>3. log' = [log EXCEPT ![TheFile] = u]
    BY DEF u
  <1>4. Evidence' = u
    BY <1>1, <1>3 DEF Evidence
  <1>5. published' = published \cup {u}
    BY <1>1, <1>3
  <1>6. Slots(Evidence)' = Slots(u)
    BY <1>4 DEF Slots
  <1>7. Single(Evidence)'
    BY <1>2, <1>4 DEF Single
  <1> QED
    BY <1>1, <1>2, <1>3, <1>4, <1>5, <1>6, <1>7 DEF Grows, FileOK, Durable, Types

\* A commit that the remote takes: nothing waits to be published any more, and
\* what waited is durable.
LEMMA Published ==
    ASSUME EvidenceAssumption, IInv, draft # Dirty, Publish,
           published' = published \cup {log'[TheFile]}
    PROVE  /\ draft' = None /\ Grows /\ FileOK'
           /\ log' \in [Files -> Seq(Records)] /\ published' \subseteq Seq(Records)
           /\ \A r \in Records : Durable(r) \/ Committed(r) => Durable(r)'
  <1>1. Types /\ FileOK /\ DraftOK
    BY DEF IInv
  <1>2. draft' = None
    BY DEF Publish
  <1>3. CASE draft = None
    <2>1. log' = log
      BY <1>3 DEF Publish
    <2>2. published' = published
      BY <1>1, <2>1 DEF FileOK, Evidence
    <2>3. Grows /\ Evidence' = Evidence
      BY <2>1, <2>2 DEF Grows, Evidence, Slots
    <2>4. \A r : Durable(r) => Durable(r)'
      BY <2>3, DurableKept
    <2>5. \A r : ~Committed(r)
      BY <1>3 DEF Committed, EvidenceAssumption, Drafts
    <2> QED
      BY <1>1, <1>2, <2>1, <2>2, <2>3, <2>4, <2>5 DEF Types, FileOK
  <1>4. CASE draft # None
    <2>1. draft \in Drafts
      BY <1>1, <1>4 DEF Types
    <2>2. PICK r \in Records : draft.content = UpsertEvidence(Evidence, r)
      BY <1>1, <2>1 DEF DraftOK
    <2>3. log' = [log EXCEPT ![TheFile] = draft.content]
      BY <1>1, <1>4, <2>1 DEF Publish, DraftOK
    <2>4. Grows /\ FileOK' /\ log' \in [Files -> Seq(Records)] /\ published' \subseteq Seq(Records)
      BY <1>1, <2>2, <2>3, TakesRecord
    <2>5. \A q \in Records : Committed(q) => Durable(q)'
      <3>1. SUFFICES ASSUME NEW q \in Records, Committed(q) PROVE Durable(q)'
        OBVIOUS
      <3>2. log' = [log EXCEPT ![TheFile] = UpsertEvidence(Evidence, q)]
        BY <2>3, <3>1 DEF Committed
      <3> QED
        BY <1>1, <3>2, TakesRecord
    <2>6. \A q : Durable(q) => Durable(q)'
      BY <2>4, DurableKept
    <2> QED
      BY <1>2, <2>4, <2>5, <2>6
  <1> QED
    BY <1>3, <1>4

\* A step of a request's write.
LEMMA WriteMoves ==
    ASSUME EvidenceAssumption, IInv, NEW w \in Writers, calls[w].at = "writing",
           mu \in {None, w}, UNCHANGED <<projection, accepted>>,
           NEW st \in {"push", "rebase", "sync", "ok", "error"},
           stage' \in [Writers -> [at : Stages, attempt : Nat]], stage'[w].at = st,
           \A v \in Writers \ {w} : stage'[v] = stage[v],
           calls' = calls,
           mu' = IF st \in InWrite THEN w ELSE None,
           Types', Grows, FileOK', DraftOK', draft' # Dirty \/ st \notin InWrite,
           st \in {"sync", "ok"} => Durable(calls[w].rec)',
           st \in {"push", "rebase"} => Durable(calls[w].rec)' \/ Committed(calls[w].rec)'
    PROVE  IInv'
  <1>1. Turns'
    <2>1. \A v \in Writers \ {w} : stage'[v].at \notin InWrite
      BY DEF IInv, Turns, EvidenceAssumption
    <2> QED
      BY <2>1 DEF IInv, Turns, EvidenceAssumption
  <1>2. CallOK(calls[w], stage[w].at)'
    <2>1. CallOK(calls[w], stage[w].at)
      BY DEF IInv, Calls
    <2>2. CallOK(calls[w], "idle")
      BY <2>1 DEF CallOK
    <2>3. CallOK(calls[w], "idle")'
      BY <2>2, KnowledgeKept DEF InWrite
    <2> QED
      BY <2>3 DEF CallOK
  <1>3. NothingInvented'
    BY DEF IInv, NothingInvented, Grows
  <1> QED
    BY <1>1, <1>2, <1>3, OneCall

\* AppendEvidence up to its commit, which local mode has on the branch at once.
LEMMA AppendEvidenceStep ==
    ASSUME EvidenceAssumption, IInv, NEW w \in Writers, AppendEvidence(w),
           published' = published \cup {log'[TheFile]}
    PROVE  IInv'
  <1>1. calls[w] \in Call /\ CallOK(calls[w], stage[w].at)
    BY DEF IInv, Types, Calls
  <1>2. calls[w].op = "ingest" /\ calls[w].rec \in Records
    BY <1>1 DEF CallOK, AppendEvidence, At
  <1>3. PICK r \in Records : r = calls[w].rec
    BY <1>2
  <1> DEFINE u == UpsertEvidence(Evidence, r)
             c == [calls[w] EXCEPT !.at = "writing"]
  <1>4. /\ calls[w].at = "append" /\ calls' = [calls EXCEPT ![w] = c]
        /\ UNCHANGED <<projection, accepted>>
        /\ IF u = Evidence THEN NothingToCommit(w) ELSE Commit(w, TheFile, u)
    BY <1>3 DEF AppendEvidence, At, Goto
  <1>5. Types /\ Turns /\ FileOK /\ DraftOK
    BY DEF IInv
  <1>6. c \in Call /\ c.op = "ingest" /\ c.rec = r /\ c.at = "writing"
    <2>1. "writing" \in Points
      BY DEF Points
    <2>2. c \in Call
      BY <1>1, <2>1, CallMoves
    <2> QED
      BY <1>3, <1>1, <1>2, <2>2 DEF Call
  <1>7. TheFile \in Files /\ Evidence \in Seq(Records)
    BY <1>5, FileOfService, EvidenceIsFile
  <1>8. u \in Seq(Records) /\ r \in InFile(u) /\ Slots(u) = Slots(Evidence) \cup {r.slot}
    BY <1>5, <1>2, <1>7, Upserted DEF FileOK
  <1> HIDE DEF c, u
  <1>9. /\ calls' \in [Writers -> Call] /\ calls'[w] = c
        /\ \A v \in Writers \ {w} : calls'[v] = calls[v]
    BY <1>4, <1>5, <1>6 DEF Types
  <1>10. mu = None /\ draft = None
    BY <1>4 DEF NothingToCommit, Commit
  <1>11. /\ \A v \in Writers : stage[v].at \notin InWrite
         /\ draft \notin Drafts
    BY <1>5, <1>10 DEF Turns, EvidenceAssumption, Drafts
  <1>12. PICK st \in {"ok", "push"}, n \in {0, 1} : stage' = [stage EXCEPT ![w] = Write(st, n)]
    BY <1>4 DEF NothingToCommit, Commit
  <1>13. /\ stage' \in [Writers -> [at : Stages, attempt : Nat]] /\ stage'[w].at = st
         /\ \A v \in Writers \ {w} : stage'[v] = stage[v]
    <2>1. Write(st, n) \in [at : Stages, attempt : Nat] /\ Write(st, n).at = st
      BY DEF Write, Stages
    <2> QED
      BY <1>5, <1>12, <2>1 DEF Types
  <1>14. NothingInvented /\ UNCHANGED projection
    BY <1>4 DEF IInv
  <1>15. CASE UNCHANGED <<log, draft, mu>> /\ st = "ok" /\ u = Evidence
    <2>1. Grows /\ published' = published /\ Evidence' = Evidence
      BY <1>5, <1>15 DEF Grows, FileOK, Evidence, Slots
    <2>2. Durable(r)'
      <3>1. r \in InFile(Evidence) /\ r.slot \in Slots(Evidence)
        BY <1>8, <1>15
      <3>2. Durable(r)
        BY <1>5, <3>1 DEF Durable, FileOK
      <3> QED
        BY <2>1, <3>2, DurableKept
    <2>3. Types'
      BY <1>4, <1>5, <1>9, <1>13, <1>15, <2>1 DEF Types
    <2>4. Turns'
      BY <1>5, <1>9, <1>10, <1>11, <1>13, <1>15, <1>6 DEF Turns, InWrite
    <2>5. FileOK' /\ DraftOK'
      BY <1>5, <1>15, <2>1 DEF FileOK, DraftOK
    <2>6. CallOK(calls[w], stage[w].at)'
      BY <1>2, <1>6, <1>9, <1>13, <1>15, <2>2 DEF CallOK
    <2>7. NothingInvented'
      BY <1>14, <2>1 DEF NothingInvented
    <2> QED
      BY <1>4, <1>9, <1>13, <1>15, <2>1, <2>3, <2>4, <2>5, <2>6, <2>7, OneCall
  <1>16. CASE log' = [log EXCEPT ![TheFile] = u] /\ UNCHANGED <<draft, mu>> /\ st = "ok"
    <2>1. /\ Grows /\ FileOK' /\ Durable(r)'
          /\ log' \in [Files -> Seq(Records)] /\ published' \subseteq Seq(Records)
      BY <1>5, <1>2, <1>16, TakesRecord DEF u
    <2>2. Types'
      BY <1>4, <1>5, <1>9, <1>13, <1>16, <2>1 DEF Types
    <2>3. Turns'
      BY <1>5, <1>9, <1>10, <1>11, <1>13, <1>16, <1>6 DEF Turns, InWrite
    <2>4. DraftOK'
      BY <1>11, <1>16 DEF DraftOK
    <2>5. CallOK(calls[w], stage[w].at)'
      BY <1>2, <1>6, <1>9, <1>13, <1>16, <2>1 DEF CallOK
    <2>6. NothingInvented'
      BY <1>14, <2>1 DEF NothingInvented, Grows
    <2> QED
      BY <1>4, <1>9, <1>10, <1>13, <2>1, <2>2, <2>3, <2>4, <2>5, <2>6, OneCall
  <1>17. CASE /\ log' = log /\ draft' = [file |-> TheFile, content |-> u]
              /\ mu' = w /\ st = "push"
    <2>1. Grows /\ published' = published /\ Evidence' = Evidence
      BY <1>5, <1>17 DEF Grows, FileOK, Evidence, Slots
    <2>2. /\ draft' \in Drafts /\ draft'.file = TheFile /\ draft'.content = u
          /\ draft' # Dirty /\ draft' # None
      BY <1>7, <1>8, <1>17 DEF Drafts, EvidenceAssumption
    <2>3. Types'
      BY <1>4, <1>5, <1>9, <1>13, <1>17, <2>1, <2>2 DEF Types
    <2>4. Turns'
      BY <1>5, <1>6, <1>9, <1>11, <1>13, <1>17, <2>2 DEF Turns, InWrite
    <2>5. FileOK'
      BY <1>5, <2>1 DEF FileOK
    <2>6. u = UpsertEvidence(Evidence', r)
      BY <2>1 DEF u
    <2>7. DraftOK'
      BY <1>2, <2>2, <2>6 DEF DraftOK
    <2>8. Committed(r)'
      BY <2>2, <2>6 DEF Committed
    <2>9. CallOK(calls[w], stage[w].at)'
      BY <1>2, <1>6, <1>9, <1>13, <1>17, <2>8 DEF CallOK
    <2>10. NothingInvented'
      BY <1>14, <2>1 DEF NothingInvented
    <2> QED
      BY <1>4, <1>9, <1>10, <1>13, <2>1, <2>3, <2>4, <2>5, <2>7, <2>9, <2>10, OneCall
  <1>18. stage \in [Writers -> [at : Stages, attempt : Nat]] /\ stage'[w] = Write(st, n)
    BY <1>5, <1>12 DEF Types
  <1>19. CASE u = Evidence
    <2>1. stage' = [stage EXCEPT ![w] = Write("ok", 0)] /\ UNCHANGED <<log, draft, mu>>
      BY <1>4, <1>19 DEF NothingToCommit
    <2>2. st = "ok"
      BY <1>18, <2>1 DEF Write
    <2> QED
      BY <1>15, <1>19, <2>1, <2>2
  <1>20. CASE u # Evidence /\ Local
    <2>1. /\ stage' = [stage EXCEPT ![w] = Write("ok", 0)] /\ UNCHANGED <<draft, mu>>
          /\ log' = [log EXCEPT ![TheFile] = u]
      BY <1>4, <1>20 DEF Commit
    <2>2. st = "ok"
      BY <1>18, <2>1 DEF Write
    <2> QED
      BY <1>16, <2>1, <2>2
  <1>21. CASE u # Evidence /\ ~Local
    <2>1. /\ stage' = [stage EXCEPT ![w] = Write("push", 1)] /\ UNCHANGED log
          /\ draft' = [file |-> TheFile, content |-> u] /\ mu' = w
      BY <1>4, <1>21 DEF Commit
    <2>2. st = "push"
      BY <1>18, <2>1 DEF Write
    <2> QED
      BY <1>17, <2>1, <2>2
  <1> QED
    BY <1>19, <1>20, <1>21

\* A step of a write that leaves the evidence as it is.
LEMMA WriteStays ==
    ASSUME EvidenceAssumption, IInv, NEW w \in Writers, calls[w].at = "writing", mu = w,
           UNCHANGED <<log, draft, calls, projection, accepted>>,
           published' = published \cup {log'[TheFile]},
           NEW st \in {"push", "rebase", "ok", "error"},
           stage' \in [Writers -> [at : Stages, attempt : Nat]], stage'[w].at = st,
           \A v \in Writers \ {w} : stage'[v] = stage[v],
           mu' = IF st \in InWrite THEN w ELSE None,
           st = "ok" => Durable(calls[w].rec),
           st \in {"push", "rebase"} => Durable(calls[w].rec) \/ Committed(calls[w].rec)
    PROVE  IInv'
  <1>1. Types /\ Turns /\ FileOK /\ DraftOK
    BY DEF IInv
  <1>2. Grows /\ published' = published /\ Evidence' = Evidence
    BY <1>1 DEF Grows, FileOK, Evidence, Slots
  <1>3. Types'
    BY <1>1, <1>2 DEF Types
  <1>4. FileOK' /\ DraftOK'
    BY <1>1, <1>2 DEF FileOK, DraftOK
  <1>5. draft' # Dirty
    BY <1>1 DEF Turns, EvidenceAssumption
  <1>6. /\ Durable(calls[w].rec) => Durable(calls[w].rec)'
        /\ Committed(calls[w].rec) => Committed(calls[w].rec)'
    <2>1. PICK r : r = calls[w].rec
      OBVIOUS
    <2>2. r = calls'[w].rec
      BY <2>1
    <2>3. Durable(r) => Durable(r)'
      BY <1>2, DurableKept
    <2>4. Committed(r) => Committed(r)'
      BY <1>2 DEF Committed
    <2> QED
      BY <2>1, <2>2, <2>3, <2>4
  <1> QED
    BY <1>2, <1>3, <1>4, <1>5, <1>6, WriteMoves

\* A step of a write whose commit the remote takes.
LEMMA WriteLands ==
    ASSUME EvidenceAssumption, IInv, NEW w \in Writers, calls[w].at = "writing",
           stage[w].at = "push", Publish,
           UNCHANGED <<calls, projection, accepted>>,
           published' = published \cup {log'[TheFile]},
           NEW st \in {"sync", "rebase", "error"},
           stage' \in [Writers -> [at : Stages, attempt : Nat]], stage'[w].at = st,
           \A v \in Writers \ {w} : stage'[v] = stage[v],
           mu' = IF st \in InWrite THEN w ELSE None
    PROVE  IInv'
  <1>1. Types /\ Turns
    BY DEF IInv
  <1>2. mu = w /\ draft # Dirty
    BY <1>1 DEF Turns, InWrite, EvidenceAssumption
  <1>3. /\ draft' = None /\ Grows /\ FileOK'
        /\ log' \in [Files -> Seq(Records)] /\ published' \subseteq Seq(Records)
        /\ \A r \in Records : Durable(r) \/ Committed(r) => Durable(r)'
    BY <1>2, Published
  <1>4. draft' # Dirty /\ draft' \notin Drafts
    BY <1>3 DEF EvidenceAssumption, Drafts
  <1>5. mu' \in Writers \cup {None}
    OBVIOUS
  <1>6. Types'
    BY <1>1, <1>3, <1>5 DEF Types
  <1>7. DraftOK'
    BY <1>4 DEF DraftOK
  <1>8. Durable(calls[w].rec)'
    <2>1. CallOK(calls[w], "push") /\ calls[w].rec \in Records
      <3>1. CallOK(calls[w], "push")
        BY DEF IInv, Calls
      <3> QED
        BY <3>1 DEF CallOK
    <2>2. PICK r \in Records : r = calls[w].rec
      BY <2>1
    <2>3. Durable(r) \/ Committed(r)
      BY <2>1, <2>2 DEF CallOK
    <2>4. Durable(r)'
      BY <1>3, <2>3
    <2>5. r = calls'[w].rec
      BY <2>2
    <2> QED
      BY <2>4, <2>5
  <1> QED
    BY <1>2, <1>3, <1>4, <1>6, <1>7, <1>8, WriteMoves

\* The stage a write moves to.
LEMMA StageMoves ==
    ASSUME Types, NEW w \in Writers, NEW st \in Stages,
           stage' = [stage EXCEPT ![w].at = st]
           \/ stage' = [stage EXCEPT ![w] = Write(st, stage[w].attempt + 1)]
    PROVE  /\ stage' \in [Writers -> [at : Stages, attempt : Nat]] /\ stage'[w].at = st
           /\ \A v \in Writers \ {w} : stage'[v] = stage[v]
  <1>1. stage \in [Writers -> [at : Stages, attempt : Nat]]
    BY DEF Types
  <1>2. stage[w] \in [at : Stages, attempt : Nat]
    BY <1>1
  <1>3. CASE stage' = [stage EXCEPT ![w].at = st]
    <2> DEFINE x == [stage[w] EXCEPT !.at = st]
    <2>1. x \in [at : Stages, attempt : Nat] /\ x.at = st
      BY <1>2
    <2>2. stage' = [stage EXCEPT ![w] = x]
      BY <1>1, <1>3
    <2> HIDE DEF x
    <2> QED
      BY <1>1, <2>1, <2>2
  <1>4. CASE stage' = [stage EXCEPT ![w] = Write(st, stage[w].attempt + 1)]
    <2> DEFINE x == Write(st, stage[w].attempt + 1)
    <2>1. x \in [at : Stages, attempt : Nat] /\ x.at = st
      BY <1>2 DEF Write
    <2> HIDE DEF x
    <2>2. stage' = [stage EXCEPT ![w] = x]
      BY <1>4 DEF x
    <2> QED
      BY <1>1, <2>1, <2>2
  <1> QED
    BY <1>3, <1>4

LEMMA PublishingStep ==
    ASSUME EvidenceAssumption, IInv, NEW w \in Writers, Publishing(w),
           published' = published \cup {log'[TheFile]}
    PROVE  IInv'
  <1>1. /\ calls[w].at = "writing" /\ WriteStep(w)
        /\ UNCHANGED <<calls, projection, accepted>>
    BY DEF Publishing, At
  <1>2. Types /\ Turns
    BY DEF IInv
  <1>3. stage[w].at \in InWrite /\ mu = w
    <2>1. stage[w].at \in InWrite
      BY <1>1 DEF WriteStep, PushOk, PushRejected, PushUnanswered, Rebase, RebaseFails,
                  ConfirmSync, SyncUnanswered, InWrite
    <2> QED
      BY <1>2, <2>1 DEF Turns
  <1>4. CallOK(calls[w], stage[w].at)
    BY DEF IInv, Calls
  <1>5. \A a \in {"idle", "push", "rebase", "sync", "ok", "error"} : a \in Stages
    BY DEF Stages
  <1>6. CASE PushOk(w)
    <2>1. stage[w].at = "push" /\ Publish /\ stage' = [stage EXCEPT ![w].at = "sync"] /\ mu' = mu
      BY <1>6 DEF PushOk
    <2>2. /\ stage' \in [Writers -> [at : Stages, attempt : Nat]] /\ stage'[w].at = "sync"
          /\ \A v \in Writers \ {w} : stage'[v] = stage[v]
      BY <1>2, <1>5, <2>1, StageMoves
    <2>3. mu' = IF "sync" \in InWrite THEN w ELSE None
      BY <1>3, <2>1 DEF InWrite
    <2> QED
      BY <1>1, <2>1, <2>2, <2>3, WriteLands
  <1>7. ASSUME FailPush(w)
        PROVE  \E st \in {"rebase", "error"} :
                  /\ stage' \in [Writers -> [at : Stages, attempt : Nat]] /\ stage'[w].at = st
                  /\ \A v \in Writers \ {w} : stage'[v] = stage[v]
                  /\ mu' = IF st \in InWrite THEN w ELSE None
    <2>1. PICK st \in {"rebase", "error"} :
             /\ stage' = [stage EXCEPT ![w].at = st]
             /\ mu' = IF st = "rebase" THEN w ELSE None
      BY <1>7 DEF FailPush, AfterFailedPush
    <2>2. /\ stage' \in [Writers -> [at : Stages, attempt : Nat]] /\ stage'[w].at = st
          /\ \A v \in Writers \ {w} : stage'[v] = stage[v]
      BY <1>2, <1>5, <2>1, StageMoves
    <2> QED
      BY <2>1, <2>2 DEF InWrite
  <1>8. CASE PushRejected(w)
    <2>1. stage[w].at = "push" /\ FailPush(w) /\ UNCHANGED <<log, draft>>
      BY <1>8 DEF PushRejected
    <2>2. PICK st \in {"rebase", "error"} :
             /\ stage' \in [Writers -> [at : Stages, attempt : Nat]] /\ stage'[w].at = st
             /\ \A v \in Writers \ {w} : stage'[v] = stage[v]
             /\ mu' = IF st \in InWrite THEN w ELSE None
      BY <1>7, <2>1
    <2>3. Durable(calls[w].rec) \/ Committed(calls[w].rec)
      BY <1>4, <2>1 DEF CallOK
    <2> QED
      BY <1>1, <1>3, <2>1, <2>2, <2>3, WriteStays
  <1>9. CASE PushUnanswered(w)
    <2>1. stage[w].at = "push" /\ FailPush(w) /\ Publish
      BY <1>9 DEF PushUnanswered
    <2>2. PICK st \in {"rebase", "error"} :
             /\ stage' \in [Writers -> [at : Stages, attempt : Nat]] /\ stage'[w].at = st
             /\ \A v \in Writers \ {w} : stage'[v] = stage[v]
             /\ mu' = IF st \in InWrite THEN w ELSE None
      BY <1>7, <2>1
    <2> QED
      BY <1>1, <2>1, <2>2, WriteLands
  <1>10. CASE Rebase(w)
    <2>1. /\ stage[w].at = "rebase" /\ UNCHANGED <<log, draft, mu>>
          /\ stage' = [stage EXCEPT ![w] = Write("push", stage[w].attempt + 1)]
      BY <1>10 DEF Rebase
    <2>2. /\ stage' \in [Writers -> [at : Stages, attempt : Nat]] /\ stage'[w].at = "push"
          /\ \A v \in Writers \ {w} : stage'[v] = stage[v]
      BY <1>2, <1>5, <2>1, StageMoves
    <2>3. mu' = IF "push" \in InWrite THEN w ELSE None
      BY <1>3, <2>1 DEF InWrite
    <2>4. Durable(calls[w].rec) \/ Committed(calls[w].rec)
      BY <1>4, <2>1 DEF CallOK
    <2> QED
      BY <1>1, <1>3, <2>1, <2>2, <2>3, <2>4, WriteStays
  <1>11. ASSUME stage' = [stage EXCEPT ![w].at = "error"], mu' = None, UNCHANGED <<log, draft>>
         PROVE  IInv'
    <2>1. /\ stage' \in [Writers -> [at : Stages, attempt : Nat]] /\ stage'[w].at = "error"
          /\ \A v \in Writers \ {w} : stage'[v] = stage[v]
      BY <1>2, <1>5, <1>11, StageMoves
    <2>2. mu' = IF "error" \in InWrite THEN w ELSE None
      BY <1>11 DEF InWrite
    <2> QED
      BY <1>1, <1>3, <1>11, <2>1, <2>2, WriteStays
  <1>12. CASE RebaseFails(w) \/ SyncUnanswered(w)
    BY <1>11, <1>12 DEF RebaseFails, SyncUnanswered
  <1>13. CASE ConfirmSync(w)
    <2>1. CASE Synchronized
      <3>1. /\ stage[w].at = "sync" /\ UNCHANGED <<log, draft>>
            /\ stage' = [stage EXCEPT ![w].at = "ok"] /\ mu' = None
        BY <1>13, <2>1 DEF ConfirmSync
      <3>2. /\ stage' \in [Writers -> [at : Stages, attempt : Nat]] /\ stage'[w].at = "ok"
            /\ \A v \in Writers \ {w} : stage'[v] = stage[v]
        BY <1>2, <1>5, <3>1, StageMoves
      <3>3. mu' = IF "ok" \in InWrite THEN w ELSE None
        BY <3>1 DEF InWrite
      <3>4. Durable(calls[w].rec)
        BY <1>4, <3>1 DEF CallOK
      <3> QED
        BY <1>1, <1>3, <3>1, <3>2, <3>3, <3>4, WriteStays
    <2>2. CASE ~Synchronized
      <3>1. /\ UNCHANGED <<log, draft>>
            /\ stage' = [stage EXCEPT ![w].at = "error"] /\ mu' = None
        BY <1>13, <2>2 DEF ConfirmSync
      <3> QED
        BY <1>11, <3>1
    <2> QED
      BY <2>1, <2>2
  <1> QED
    BY <1>1, <1>6, <1>8, <1>9, <1>10, <1>12, <1>13 DEF WriteStep

\* AppendEvidence has returned: the slot has no write any more.
LEMMA AppendedStep ==
    ASSUME EvidenceAssumption, IInv, NEW w \in Writers, Appended(w)
    PROVE  IInv'
  <1>1. /\ calls[w].at = "writing" /\ stage[w].at \in {"ok", "error"}
        /\ stage' = [stage EXCEPT ![w] = Write("idle", 0)]
        /\ UNCHANGED <<log, draft, mu, published, projection, accepted>>
    BY DEF Appended, At, KeepBranch
  <1>2. Types /\ Turns /\ calls[w] \in Call /\ CallOK(calls[w], stage[w].at)
    BY DEF IInv, Types, Calls
  <1>3. "list" \in Points /\ "done" \in Points /\ FALSE \in BOOLEAN
    BY DEF Points
  <1>4. PICK c \in Call : /\ calls' = [calls EXCEPT ![w] = c] /\ CallOK(c, "idle")
    <2>1. CASE stage[w].at = "ok"
      <3> DEFINE c == [calls[w] EXCEPT !.at = "list"]
      <3>1. calls' = [calls EXCEPT ![w] = c]
        BY <2>1 DEF Appended, Goto
      <3>2. c \in Call
        BY <1>2, <1>3, CallMoves
      <3>3. c.op = calls[w].op /\ c.rec = calls[w].rec /\ c.at = "list"
        BY <1>2 DEF Call
      <3> HIDE DEF c
      <3>4. CallOK(c, "idle")
        BY <1>2, <2>1, <3>3 DEF CallOK
      <3> QED
        BY <3>1, <3>2, <3>4
    <2>2. CASE stage[w].at # "ok"
      <3> DEFINE c == [calls[w] EXCEPT !.at = "done", !.ok = FALSE]
      <3>1. calls' = [calls EXCEPT ![w] = c]
        BY <2>2 DEF Appended, Answer
      <3>2. c \in Call
        BY <1>2, <1>3, CallMoves
      <3>3. c.op = calls[w].op /\ c.rec = calls[w].rec /\ c.at = "done" /\ ~c.ok
        BY <1>2 DEF Call
      <3> HIDE DEF c
      <3>4. CallOK(c, "idle")
        BY <1>2, <3>3 DEF CallOK
      <3> QED
        BY <3>1, <3>2, <3>4
    <2> QED
      BY <2>1, <2>2
  <1>5. /\ calls' \in [Writers -> Call] /\ calls'[w] = c
        /\ \A v \in Writers \ {w} : calls'[v] = calls[v]
    BY <1>2, <1>4 DEF Types
  <1>6. /\ stage' \in [Writers -> [at : Stages, attempt : Nat]] /\ stage'[w].at = "idle"
        /\ \A v \in Writers \ {w} : stage'[v] = stage[v]
    <2>1. Write("idle", 0) \in [at : Stages, attempt : Nat] /\ Write("idle", 0).at = "idle"
      BY DEF Write, Stages
    <2> QED
      BY <1>1, <1>2, <2>1 DEF Types
  <1>7. Grows /\ Evidence' = Evidence
    BY <1>1, BranchGrows DEF SameBranch
  <1>8. Types'
    BY <1>1, <1>2, <1>5, <1>6 DEF Types
  <1>9. Turns'
    BY <1>1, <1>2, <1>5, <1>6 DEF Turns, InWrite
  <1>10. FileOK' /\ DraftOK'
    BY <1>1, <1>7 DEF IInv, FileOK, DraftOK
  <1>11. CallOK(calls[w], stage[w].at)'
    <2>1. CallOK(c, "idle")'
      BY <1>4, <1>7, KnowledgeKept DEF InWrite
    <2> QED
      BY <1>5, <1>6, <2>1
  <1>12. NothingInvented'
    BY <1>1 DEF IInv, NothingInvented
  <1> QED
    BY <1>1, <1>5, <1>6, <1>7, <1>8, <1>9, <1>10, <1>11, <1>12, OneCall

-----------------------------------------------------------------------------
(* Around the service.                                                      *)

\* A crash forgets the requests and their writes, not what the branch has.
LEMMA RestartStep ==
    ASSUME EvidenceAssumption, IInv, NEW left \in {None, Dirty}, Restart(left)
    PROVE  IInv'
  <1>1. /\ calls' = [w \in Writers |-> Free] /\ stage' = [w \in Writers |-> Write("idle", 0)]
        /\ mu' = None /\ draft' \in {draft, Dirty}
        /\ projection' \in {projection, <<>>}
        /\ UNCHANGED <<log, accepted, published>>
    BY DEF Restart
  <1>2. Types /\ FileOK /\ DraftOK /\ Accepted /\ NothingInvented
    BY DEF IInv
  <1>3. Grows /\ Evidence' = Evidence
    BY <1>1 DEF Grows, Evidence, Slots
  <1>4. Free \in Call /\ Write("idle", 0) \in [at : Stages, attempt : Nat]
    BY DEF Free, Call, Points, Write, Stages
  <1>5. Types'
    BY <1>1, <1>2, <1>4 DEF Types
  <1>6. Turns'
    BY <1>1 DEF Turns, Write, InWrite
  <1>7. FileOK'
    BY <1>1, <1>2, <1>3 DEF FileOK
  <1>8. DraftOK'
    BY <1>1, <1>2, <1>3 DEF DraftOK, EvidenceAssumption, Drafts
  <1>9. Calls'
    <2>1. CallOK(Free, "idle")'
      BY DEF CallOK, Free
    <2>2. \A w \in Writers : calls'[w] = Free /\ stage'[w].at = "idle"
      BY <1>1 DEF Write
    <2> QED
      BY <2>1, <2>2 DEF Calls
  <1>10. Accepted'
    BY <1>1, <1>2, <1>3, DurableKept DEF Accepted
  <1>11. NothingInvented'
    BY <1>1, <1>2 DEF NothingInvented
  <1> QED
    BY <1>5, <1>6, <1>7, <1>8, <1>9, <1>10, <1>11 DEF IInv

\* What others do never touches the evidence, and drops a commit only when no
\* write is under way.
LEMMA AroundStep ==
    ASSUME EvidenceAssumption, IInv, ProjectionLost \/ Outside \/ UNCHANGED serviceVars
    PROVE  IInv'
  <1>1. /\ UNCHANGED <<log, stage, mu, calls, accepted, published>>
        /\ projection' \in {projection, None}
        /\ draft' = draft \/ (mu = None /\ draft' = None)
    BY DEF ProjectionLost, Outside, KeepDocs, KeepBranch, AgentPush, OperatorReset,
           serviceVars, docsVars, evidenceVars
  <1>2. Types /\ Turns /\ FileOK /\ DraftOK /\ Calls /\ Accepted /\ NothingInvented
    BY DEF IInv
  <1>3. Grows /\ Evidence' = Evidence
    BY <1>1 DEF Grows, Evidence, Slots
  <1>4. Types'
    BY <1>1, <1>2 DEF Types
  <1>5. Turns'
    BY <1>1, <1>2 DEF Turns, EvidenceAssumption
  <1>6. FileOK'
    BY <1>1, <1>2, <1>3 DEF FileOK
  <1>7. DraftOK'
    BY <1>1, <1>2, <1>3 DEF DraftOK, EvidenceAssumption, Drafts
  <1>8. Calls'
    <2>1. SUFFICES ASSUME NEW v \in Writers PROVE CallOK(calls[v], stage[v].at)'
      BY DEF Calls
    <2>2. UNCHANGED <<log, draft>> \/ stage[v].at \notin InWrite
      BY <1>1, <1>2 DEF Turns, EvidenceAssumption
    <2> QED
      BY <1>1, <1>3, <2>2, OthersKept
  <1>9. Accepted'
    BY <1>1, <1>2, <1>3, DurableKept DEF Accepted
  <1>10. NothingInvented'
    BY <1>1, <1>2 DEF NothingInvented
  <1> QED
    BY <1>4, <1>5, <1>6, <1>7, <1>8, <1>9, <1>10 DEF IInv

-----------------------------------------------------------------------------
(* The theorem.                                                             *)

LEMMA InitIInv ==
    ASSUME EvidenceAssumption, EvidenceInit
    PROVE  IInv
  <1>1. /\ log = [f \in Files |-> <<>>] /\ draft = None /\ mu = None
        /\ stage = [w \in Writers |-> Write("idle", 0)]
        /\ calls = [w \in Writers |-> Free]
        /\ projection = <<>> /\ accepted = {} /\ published = {<<>>}
    BY DEF EvidenceInit, DocsInit
  <1>2. TheFile \in Files /\ <<>> \in Seq(Records)
    BY FileOfService
  <1>3. Evidence = <<>>
    BY <1>1, <1>2 DEF Evidence
  <1>4. Free \in Call /\ Write("idle", 0) \in [at : Stages, attempt : Nat]
    BY DEF Free, Call, Points, Write, Stages
  <1>5. Types
    BY <1>1, <1>2, <1>4 DEF Types
  <1>6. Turns
    BY <1>1 DEF Turns, Write, InWrite
  <1>7. FileOK
    BY <1>1, <1>3 DEF FileOK, Single
  <1>8. DraftOK
    BY <1>1 DEF DraftOK, EvidenceAssumption, Drafts
  <1>9. Calls
    <2>1. CallOK(Free, "idle")
      BY DEF CallOK, Free
    <2>2. \A w \in Writers : calls[w] = Free /\ stage[w].at = "idle"
      BY <1>1 DEF Write
    <2> QED
      BY <2>1, <2>2 DEF Calls
  <1>10. Accepted /\ NothingInvented
    BY <1>1 DEF Accepted, NothingInvented
  <1> QED
    BY <1>5, <1>6, <1>7, <1>8, <1>9, <1>10 DEF IInv

LEMMA NextIInv ==
    ASSUME EvidenceAssumption, IInv, [EvidenceNext]_serviceVars
    PROVE  IInv'
  <1>1. ASSUME NEW w \in Writers,
               \/ Arrive(w) \/ Appended(w) \/ RefreshRepository(w) \/ ListEvidence(w)
               \/ ReplaceEvidence(w) \/ ReadProjection(w) \/ Unavailable(w) \/ Leave(w)
        PROVE  IInv'
    BY <1>1, ArriveStep, AppendedStep, RefreshStep, ListEvidenceStep, ReplaceEvidenceStep,
       ReadProjectionStep, UnavailableStep, LeaveStep
  <1>2. ASSUME NEW w \in Writers, AppendEvidence(w) \/ Publishing(w),
               published' = published \cup {log'[TheFile]}
        PROVE  IInv'
    BY <1>2, AppendEvidenceStep, PublishingStep
  <1> QED
    BY <1>1, <1>2, RestartStep, AroundStep DEF EvidenceNext

\* What the invariant says of the answers.
LEMMA IInvExact ==
    ASSUME IInv
    PROVE  EvidenceExact
  <1>1. OnePerSlot
    BY DEF IInv, FileOK, Single, OnePerSlot
  <1>2. AcceptedIsDurable
    BY DEF IInv, Accepted, Durable, Slots, AcceptedIsDurable
  <1>3. AcceptedIsProjected
    BY DEF IInv, Calls, CallOK, Slots, AcceptedIsProjected, At
  <1> QED
    BY <1>1, <1>2, <1>3 DEF IInv, EvidenceExact

\* Evidence has one conclusion for each slot; what was acknowledged was pushed,
\* and its slot is on the branch for good; an acknowledged ingestion has put its
\* slot in the projection; and a projection is evidence as the branch once had
\* it: for any requests at once, pushes that are refused or unanswered, agents
\* that push, resets and crashes (internal/evidence/service.go and
\* adapter/ndjson/store.go over docsrepo's publishOwnedFile).
THEOREM EvidenceSafe == EvidenceAssumption => (EvidenceSpec => []EvidenceExact)
  <1> SUFFICES ASSUME EvidenceAssumption PROVE EvidenceSpec => []EvidenceExact
    OBVIOUS
  <1>1. EvidenceInit => IInv
    BY InitIInv
  <1>2. IInv /\ [EvidenceNext]_serviceVars => IInv'
    BY NextIInv
  <1>3. IInv => EvidenceExact
    BY IInvExact
  <1> QED
    BY <1>1, <1>2, <1>3, PTL DEF EvidenceSpec
=============================================================================
