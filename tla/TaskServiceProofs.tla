--------------------------- MODULE TaskServiceProofs ---------------------------
(***************************************************************************)
(* Theorems about TaskService for any number of tasks, proposals, agents,  *)
(* requests at once, leases and push attempts, in remote and in local      *)
(* mode.  The invariant says what every request knows between two of its   *)
(* store calls (ReqOK), what the commit that is not on the branch yet      *)
(* holds (DraftOK) and what the streams on the branch are (Streams).  Its  *)
(* parts about a request and about a stream survive any growth of the      *)
(* branch, of the leases granted and of the streams (Grows), which is all  *)
(* that other requests, agents and crashes do: those lemmas carry the      *)
(* proof, and each action is left with what it changes itself.             *)
(***************************************************************************)
EXTENDS TaskService, TLAPS

Prefix(s, t) == Len(s) <= Len(t) /\ \A i \in 1..Len(s) : s[i] = t[i]

Pcs == {"refresh", "proposal", "graph", "events", "lifecycle", "match", "deps",
        "streams", "decide", "lease", "append", "writing", "reread"}
Request == [pc : Pcs, op : Ops, task : Tasks, by : Agents \cup {NoHash},
            sha : Versions \cup {NoHash}, head : (1..MaxHeads) \cup {NoHash},
            key : Targets \cup {NoHash}, lease : LeaseIds \cup {NoHash},
            events : Seq(Recorded), deps : SUBSET Tasks]
Drafts == [file : Tasks, content : Seq(Recorded)]
Grants == [owner : Agents, id : LeaseIds]

Types ==
    /\ heads \in Seq([Docs -> Versions \cup {NoHash}]) /\ Len(heads) \in 1..MaxHeads
    /\ log \in [Tasks -> Seq(Recorded)]
    /\ local \in 1..Len(heads)
    /\ draft \in {None, Dirty} \cup Drafts
    /\ mu \in Writers \cup {None}
    /\ stage \in [Writers -> [at : Stages, attempt : 0..PushAttempts]]
    /\ req \in [Writers -> {Idle} \cup Request]
    /\ holder \in [Targets -> {None} \cup Grants]
    /\ spent \subseteq LeaseIds

InWrite == {"push", "rebase", "sync"}

\* The mutex is its writer's, and only a writing request has a write.
Turns ==
    /\ \A w \in Writers :
        /\ stage[w].at \in InWrite => mu = w
        /\ stage[w].at # "idle" => req[w].pc = "writing"
        /\ stage[w].at = "rebase" => stage[w].attempt < PushAttempts
    /\ mu # None => stage[mu].at \in InWrite /\ draft # Dirty

\* A lease id is granted once: what is bound to it stays bound.
LeasesUnique ==
    \A k, m \in Targets :
        holder[k] # None =>
            /\ holder[k].id \in spent
            /\ holder[m] # None /\ holder[m].id = holder[k].id => k = m

LeaseSafe(l, a) ==
    /\ l \in spent
    /\ \A k \in Targets : holder[k] # None /\ holder[k].id = l => holder[k].owner = a

\* Seen(t, v, n): proposal v of t was on the branch at commit n or later.
Seen(t, v, n) == \E h \in n..Len(heads) : heads[h][t] = v

\* What holds of a stream of task t, on the branch or about to be.
StreamOK(t, s) ==
    /\ ValidateLifecycleChain(s)
    /\ \A i, j \in 2..Len(s) : s[i].by = s[j].by
    /\ s # <<>> => s[1].by = NoHash /\ Seen(t, s[1].sha, s[1].head)
    /\ \A i \in 3..Len(s) : s[i].lease # NoHash => LeaseSafe(s[i].lease, s[i].by)

Streams == \A t \in Tasks : StreamOK(t, log[t])

\* The service's commit adds one event to the stream that is on the branch.
DraftOK ==
    draft \in Drafts =>
        /\ StreamOK(draft.file, draft.content)
        /\ Prefix(log[draft.file], draft.content)

\* The event that request q, or answer q, is about.
HasEvent(s, q) ==
    \E i \in 1..Len(s) :
        s[i].type = q.op /\ s[i].by = q.by /\ s[i].sha = q.sha /\ s[i].head = q.head

\* Where the event of a submission is while it is written.
Writes ==
    \A w \in Writers :
        req[w] # Idle /\ req[w].op = "verified" =>
            /\ stage[w].at \in {"sync", "ok"} => HasEvent(log[req[w].task], req[w])
            /\ stage[w].at \in {"push", "rebase"} =>
                  \/ HasEvent(log[req[w].task], req[w])
                  \/ /\ draft \in Drafts /\ draft.file = req[w].task
                     /\ HasEvent(draft.content, req[w])

Submission(q) ==
    /\ q.pc \in {"refresh", "proposal", "graph", "events", "append", "writing"}
    /\ q.by = NoHash /\ q.lease = NoHash /\ q.events = <<>>
    /\ q.head \in 1..Len(heads)
    /\ q.pc \notin {"refresh", "proposal"} =>
          q.sha \in Versions /\ Seen(q.task, q.sha, q.head)

\* The events a request decides on are the beginning of the stream.
KnowsStream(q) ==
    /\ q.events # <<>>
    /\ Prefix(q.events, log[q.task])
    /\ q.events[1].sha = q.sha /\ q.events[1].head = q.head

\* The request's event may follow the events it read.
MayFollow(q) ==
    \/ q.op = "claimed" /\ Len(q.events) = 1
    \/ q.op = "completed_local" /\ Len(q.events) = 2 /\ q.events[2].by = q.by
    \/ q.op = "completed" /\ Len(q.events) = 3 /\ q.events[3].by = q.by

Execution(q) ==
    /\ q.pc \in {"lifecycle", "match", "deps", "streams", "decide", "lease",
                 "append", "writing", "reread"}
    /\ q.by \in Agents /\ q.sha \in Versions
    /\ q.op # "claimed" => q.lease \in spent /\ q.key \in Targets
    /\ q.pc # "lifecycle" => KnowsStream(q)
    /\ q.pc \in {"lease", "append", "writing", "reread"} => MayFollow(q)
    /\ q.pc \in {"append", "writing", "reread"} /\ q.op # "claimed" =>
          LeaseSafe(q.lease, q.by)

ReqOK(q) == IF q.op = "verified" THEN Submission(q) ELSE Execution(q)

Requests == \A w \in Writers : req[w] # Idle => ReqOK(req[w])

Acks ==
    /\ \A a \in acks : a.task \in Tasks
    /\ \A a \in acks : HasEvent(log[a.task], a)

IInv ==
    /\ Types /\ Turns /\ LeasesUnique /\ Streams /\ DraftOK
    /\ Requests /\ Writes /\ Acks

-----------------------------------------------------------------------------
(* Streams.                                                                 *)

\* The events of a legal stream are the first of the four types, in order.
LEMMA LegalTypes ==
    ASSUME NEW s \in Seq(Recorded), ValidateLifecycleChain(s)
    PROVE  /\ Len(s) <= 4
           /\ \A i \in 1..Len(s) : s[i].type = EventTypes[i]
  <1>1. Len(EventTypes) = 4
    BY DEF EventTypes
  <1>2. \A i \in 1..Len(s) : i <= 4 /\ s[i].type = EventTypes[i]
    BY <1>1 DEF ValidateLifecycleChain, LegalType
  <1>3. Len(s) \in Nat /\ (Len(s) > 4 => 5 \in 1..Len(s))
    OBVIOUS
  <1> QED
    BY <1>2, <1>3

\* ... so only one of them has each type.
LEMMA TypeAt ==
    /\ EventTypes[1] = "verified" /\ EventTypes[2] = "claimed"
    /\ EventTypes[3] = "completed_local" /\ EventTypes[4] = "completed"
    /\ \A n \in 1..4 :
        /\ EventTypes[n] = "verified" <=> n = 1
        /\ EventTypes[n] = "claimed" <=> n = 2
        /\ EventTypes[n] = "completed_local" <=> n = 3
        /\ EventTypes[n] = "completed" <=> n = 4
  <1>1. \A n \in 1..4 : n = 1 \/ n = 2 \/ n = 3 \/ n = 4
    OBVIOUS
  <1> QED
    BY <1>1 DEF EventTypes

\* What TaskStatusOf rebuilds from a legal stream.
LEMMA StatusOfLegal ==
    ASSUME NEW s \in Seq(Recorded), ValidateLifecycleChain(s), s # <<>>
    PROVE  /\ Len(s) \in 1..4
           /\ TaskStatusOf(s).state = EventTypes[Len(s)]
           /\ TaskStatusOf(s).sha = s[1].sha /\ TaskStatusOf(s).head = s[1].head
           /\ Len(s) >= 2 => TaskStatusOf(s).claimedBy = s[2].by
           /\ Len(s) >= 3 => TaskStatusOf(s).completedBy = s[Len(s)].by
  <1>1. Len(s) \in 1..4 /\ \A i \in 1..Len(s) : s[i].type = EventTypes[i]
    <2>1. Len(s) \in Nat /\ Len(s) # 0
      OBVIOUS
    <2>2. Len(s) <= 4 /\ \A i \in 1..Len(s) : s[i].type = EventTypes[i]
      BY LegalTypes
    <2>3. Len(s) \in 1..4
      <3>1. \A n \in Nat : n # 0 /\ n <= 4 => n \in 1..4
        OBVIOUS
      <3> QED
        BY <2>1, <2>2, <3>1
    <2> QED
      BY <2>2, <2>3
  <1>2. /\ TaskStatusOf(s).state = EventTypes[Len(s)]
        /\ TaskStatusOf(s).sha = s[1].sha /\ TaskStatusOf(s).head = s[1].head
    BY <1>1 DEF TaskStatusOf
  <1>3. ASSUME Len(s) >= 2
        PROVE  ByOf(s, {"claimed"}) = s[2].by
    <2> DEFINE idx == {i \in 1..Len(s) : s[i].type \in {"claimed"}}
    <2>1. idx = {2}
      BY <1>1, <1>3, TypeAt
    <2>2. (CHOOSE i \in idx : \A j \in idx : j <= i) = 2
      BY <2>1
    <2> QED
      BY <2>1, <2>2 DEF ByOf
  <1>4. ASSUME Len(s) >= 3
        PROVE  ByOf(s, {"completed_local", "completed"}) = s[Len(s)].by
    <2> DEFINE idx == {i \in 1..Len(s) : s[i].type \in {"completed_local", "completed"}}
    <2>1. idx = 3..Len(s)
      <3>1. \A i \in 1..Len(s) : i \in {1, 2, 3, 4}
        BY <1>1
      <3> QED
        BY <1>1, <1>4, <3>1, TypeAt
    <2>2. Len(s) \in idx /\ \A j \in idx : j <= Len(s)
      BY <1>1, <1>4, <2>1
    <2>3. \A i \in idx : (\A j \in idx : j <= i) => i = Len(s)
      BY <2>2, <1>1, <2>1
    <2>4. (CHOOSE i \in idx : \A j \in idx : j <= i) = Len(s)
      BY <2>2, <2>3
    <2>5. idx # {}
      BY <2>2
    <2> QED
      BY <2>4, <2>5 DEF ByOf
  <1> QED
    BY <1>1, <1>2, <1>3, <1>4 DEF TaskStatusOf

\* The beginning of a legal stream is one.
LEMMA PrefixLegal ==
    ASSUME NEW s \in Seq(Recorded), NEW t \in Seq(Recorded),
           Prefix(s, t), ValidateLifecycleChain(t)
    PROVE  ValidateLifecycleChain(s)
  <1>1. Len(s) \in Nat /\ Len(t) \in Nat /\ Len(s) <= Len(t)
    BY DEF Prefix
  <1>2. \A i \in 1..Len(s) : i \in 1..Len(t) /\ s[i] = t[i]
    BY <1>1 DEF Prefix
  <1>3. \A i \in 1..Len(s) : 1 \in 1..Len(s) /\ (i # 1 => i - 1 \in 1..Len(s))
    BY <1>1
  <1>4. SUFFICES ASSUME NEW i \in 1..Len(s)
                 PROVE  /\ s[i].seq = i
                        /\ s[i].prev = IF i = 1 THEN NoHash ELSE Hash(s[i - 1])
                        /\ LegalType(s, i)
                        /\ s[i].sha = s[1].sha /\ s[i].head = s[1].head
    BY DEF ValidateLifecycleChain
  <1>5. /\ i \in 1..Len(t) /\ s[i] = t[i] /\ s[1] = t[1]
        /\ i # 1 => s[i - 1] = t[i - 1]
    BY <1>2, <1>3
  <1> QED
    BY <1>5 DEF ValidateLifecycleChain, LegalType

\* A stream begins itself ...
LEMMA PrefixReflexive == \A s : Prefix(s, s)
  BY DEF Prefix

\* ... and what begins a beginning of a stream begins the stream.
LEMMA PrefixTransitive ==
    \A s, t, u : /\ Len(s) \in Nat /\ Len(t) \in Nat /\ Len(u) \in Nat
                 /\ Prefix(s, t) /\ Prefix(t, u) => Prefix(s, u)
  BY DEF Prefix

\* A sequence begins what comes of appending to it.
LEMMA AppendPrefix ==
    ASSUME NEW S, NEW s \in Seq(S), NEW e \in S
    PROVE  /\ Append(s, e) \in Seq(S) /\ Len(Append(s, e)) = Len(s) + 1
           /\ Append(s, e)[Len(s) + 1] = e
           /\ Prefix(s, Append(s, e))
  BY DEF Prefix

\* An event of a stream is one of every stream it begins.
LEMMA HasEventKept ==
    ASSUME NEW s \in Seq(Recorded), NEW t \in Seq(Recorded), Prefix(s, t),
           NEW q, HasEvent(s, q)
    PROVE  HasEvent(t, q)
  <1>1. \A i \in 1..Len(s) : i \in 1..Len(t) /\ s[i] = t[i]
    BY DEF Prefix
  <1> QED
    BY <1>1 DEF HasEvent

\* What the transition functions accept: the op that is next in the stream, by
\* the executor of the last event, or the claim that is there already.
LEMMA TransitionMeans ==
    ASSUME NEW s \in Seq(Recorded), ValidateLifecycleChain(s), s # <<>>,
           NEW op \in {"claimed", "completed_local", "completed"}, NEW a
    PROVE  LET verdict == Transition(op, TaskStatusOf(s), a)
           IN  /\ verdict = "proceed" =>
                     \/ op = "claimed" /\ Len(s) = 1
                     \/ op = "completed_local" /\ Len(s) = 2 /\ s[2].by = a
                     \/ op = "completed" /\ Len(s) = 3 /\ s[3].by = a
               /\ verdict = "existing" => op = "claimed" /\ Len(s) = 2 /\ s[2].by = a
  <1> DEFINE st == TaskStatusOf(s)
  <1>1. /\ Len(s) \in 1..4
        /\ Len(s) >= 2 => st.claimedBy = s[2].by
        /\ Len(s) >= 3 => st.completedBy = s[Len(s)].by
        /\ st.state = EventTypes[Len(s)]
    BY StatusOfLegal
  <1>2. /\ st.state = "verified" => Len(s) = 1
        /\ st.state = "claimed" => Len(s) = 2 /\ st.claimedBy = s[2].by
        /\ st.state = "completed_local" => Len(s) = 3 /\ st.completedBy = s[3].by
    <2> HIDE DEF st
    <2>1. EventTypes[Len(s)] = "verified" => Len(s) = 1
      BY <1>1, TypeAt
    <2>2. EventTypes[Len(s)] = "claimed" => Len(s) = 2
      BY <1>1, TypeAt
    <2>3. EventTypes[Len(s)] = "completed_local" => Len(s) = 3
      BY <1>1, TypeAt
    <2> QED
      BY <1>1, <2>1, <2>2, <2>3
  <1> HIDE DEF st
  <1>3. CASE op = "claimed"
    BY <1>2, <1>3 DEF Transition, ClaimTransition, st
  <1>4. CASE op = "completed_local"
    BY <1>2, <1>4 DEF Transition, CompleteLocalTransition, st
  <1>5. CASE op = "completed"
    BY <1>2, <1>5 DEF Transition, CompleteTransition, st
  <1> QED
    BY <1>3, <1>4, <1>5

\* What the re-read status confirms: the last event is the op's and the caller's.
LEMMA ConfirmedMeans ==
    ASSUME NEW s \in Seq(Recorded), ValidateLifecycleChain(s), s # <<>>,
           NEW op \in {"claimed", "completed_local", "completed"}, NEW a,
           Confirmed(op, TaskStatusOf(s), a)
    PROVE  s[Len(s)].type = op /\ s[Len(s)].by = a
  <1> DEFINE st == TaskStatusOf(s)
  <1>1. /\ Len(s) \in 1..4
        /\ Len(s) >= 2 => st.claimedBy = s[2].by
        /\ Len(s) >= 3 => st.completedBy = s[Len(s)].by
        /\ st.state = EventTypes[Len(s)]
    BY StatusOfLegal
  <1> HIDE DEF st
  <1>2. /\ op = EventTypes[Len(s)]
        /\ a = IF op = "claimed" THEN st.claimedBy ELSE st.completedBy
    BY <1>1 DEF Confirmed, st
  <1>3. s[Len(s)].by = a
    <2>1. CASE op = "claimed"
      <3>1. Len(s) = 2
        BY <1>1, <1>2, <2>1, TypeAt
      <3> QED
        BY <1>1, <1>2, <2>1, <3>1
    <2>2. CASE op # "claimed"
      <3>1. Len(s) # 1 /\ Len(s) # 2
        BY <1>2, <2>2, TypeAt
      <3>2. \A n \in 1..4 : n # 1 /\ n # 2 => n >= 3
        OBVIOUS
      <3>3. Len(s) >= 3
        BY <1>1, <3>1, <3>2
      <3> QED
        BY <1>1, <1>2, <2>2, <3>3
    <2> QED
      BY <2>1, <2>2
  <1>4. s[Len(s)].type = EventTypes[Len(s)]
    <2>1. \A i \in 1..Len(s) : s[i].type = EventTypes[i]
      BY LegalTypes
    <2>2. Len(s) \in 1..Len(s)
      BY <1>1
    <2> QED
      BY <2>1, <2>2
  <1> QED
    BY <1>2, <1>3, <1>4

-----------------------------------------------------------------------------
(* Growth of the branch, the leases and the streams.                        *)

\* What a step does to what a request knows: commits and leases are added, a
\* lease ends, a stream grows.
HeadsGrow == Prefix(heads, heads')
LeasesMove ==
    /\ spent \subseteq spent'
    /\ \A k \in Targets :
          holder'[k] = None \/ holder'[k] = holder[k] \/ holder'[k].id \notin spent
LogGrows == \A t \in Tasks : Prefix(log[t], log'[t])
Grows == HeadsGrow /\ LeasesMove /\ LogGrows

\* What was on the branch stays in its history.
LEMMA SeenKept ==
    ASSUME Types, Types', HeadsGrow, NEW t \in Tasks, NEW v, NEW n \in 1..MaxHeads,
           Seen(t, v, n)
    PROVE  Seen(t, v, n)'
  <1>1. PICK h \in n..Len(heads) : heads[h][t] = v
    BY DEF Seen
  <1>2. Len(heads) \in Nat /\ Len(heads') \in Nat /\ Len(heads) <= Len(heads') /\ n \in Nat
    BY DEF Types, HeadsGrow, Prefix
  <1>3. h \in 1..Len(heads) /\ h \in n..Len(heads')
    BY <1>2
  <1>4. heads'[h] = heads[h]
    BY <1>3 DEF HeadsGrow, Prefix
  <1> QED
    BY <1>1, <1>3, <1>4 DEF Seen

\* A lease id that is an agent's does not become another's.
LEMMA LeaseSafeKept ==
    ASSUME LeasesMove, NEW l, NEW a, LeaseSafe(l, a)
    PROVE  LeaseSafe(l, a)'
  BY DEF LeasesMove, LeaseSafe

\* What a stream says of the branch and of leases stays true.
LEMMA StreamKept ==
    ASSUME Types, Types', HeadsGrow, LeasesMove, NEW t \in Tasks,
           NEW s \in Seq(Recorded), StreamOK(t, s)
    PROVE  StreamOK(t, s)'
  <1>1. ASSUME s # <<>> PROVE Seen(t, s[1].sha, s[1].head)'
    <2>1. s[1] \in Recorded
      BY <1>1
    <2> QED
      BY <1>1, <2>1, SeenKept DEF StreamOK, Recorded
  <1>2. \A i \in 3..Len(s) :
           s[i].lease # NoHash => LeaseSafe(s[i].lease, s[i].by)'
    BY LeaseSafeKept DEF StreamOK
  <1> QED
    BY <1>1, <1>2 DEF StreamOK

\* What a request knows stays true while the branch, the leases and the
\* streams move on.
LEMMA RequestKept ==
    ASSUME Types, Types', Grows, NEW q \in Request, ReqOK(q)
    PROVE  ReqOK(q)'
  <1>1. CASE q.op = "verified"
    <2>1. Submission(q)
      BY <1>1 DEF ReqOK
    <2>2. q.head \in 1..MaxHeads /\ q.head \in 1..Len(heads') /\ q.task \in Tasks
      <3>1. Len(heads) \in 1..MaxHeads /\ Len(heads') \in Nat /\ Len(heads) <= Len(heads')
        BY DEF Types, Grows, HeadsGrow, Prefix
      <3>2. q.head \in 1..Len(heads) /\ MaxHeads \in Nat
        BY <2>1, DocsAssumption DEF Submission
      <3>3. q.task \in Tasks
        BY DEF Request
      <3> QED
        BY <3>1, <3>2, <3>3
    <2>3. Seen(q.task, q.sha, q.head) => Seen(q.task, q.sha, q.head)'
      BY <2>2, SeenKept DEF Grows
    <2>4. Submission(q)'
      BY <2>1, <2>2, <2>3 DEF Submission
    <2> QED
      BY <1>1, <2>4 DEF ReqOK
  <1>2. CASE q.op # "verified"
    <2>1. Execution(q)
      BY <1>2 DEF ReqOK
    <2>2. KnowsStream(q) => KnowsStream(q)'
      <3>1. Len(q.events) \in Nat /\ Len(log[q.task]) \in Nat /\ Len(log'[q.task]) \in Nat
        BY DEF Types, Request
      <3>2. Prefix(log[q.task], log'[q.task])
        BY DEF Grows, LogGrows, Request
      <3> QED
        BY <3>1, <3>2, PrefixTransitive DEF KnowsStream
    <2>3. LeaseSafe(q.lease, q.by) => LeaseSafe(q.lease, q.by)'
      BY LeaseSafeKept DEF Grows
    <2>4. Execution(q)'
      BY <2>1, <2>2, <2>3 DEF Execution, MayFollow, Grows, LeasesMove
    <2> QED
      BY <1>2, <2>4 DEF ReqOK
  <1> QED
    BY <1>1, <1>2

\* An event that was answered for is still in its stream.
LEMMA AcksKept ==
    ASSUME Types, Types', LogGrows, Acks, NEW a \in acks
    PROVE  a.task \in Tasks /\ HasEvent(log'[a.task], a)
  <1>1. a.task \in Tasks /\ HasEvent(log[a.task], a)
    BY DEF Acks
  <1>2. log[a.task] \in Seq(Recorded) /\ log'[a.task] \in Seq(Recorded)
    BY <1>1 DEF Types
  <1> QED
    BY <1>1, <1>2, HasEventKept DEF LogGrows

\* A step that leaves a write's request, stage and commit alone keeps it.
LEMMA WriteKept ==
    ASSUME Types, Types', LogGrows, Writes, NEW w \in Writers,
           req'[w] = req[w], stage'[w] = stage[w],
           stage[w].at \in {"push", "rebase"} => draft' = draft,
           req[w] # Idle, req[w].op = "verified"
    PROVE  /\ stage'[w].at \in {"sync", "ok"} => HasEvent(log'[req'[w].task], req'[w])
           /\ stage'[w].at \in {"push", "rebase"} =>
                 \/ HasEvent(log'[req'[w].task], req'[w])
                 \/ /\ draft' \in Drafts /\ draft'.file = req'[w].task
                    /\ HasEvent(draft'.content, req'[w])
  <1>1. req[w] \in Request /\ req[w].task \in Tasks
    BY DEF Types, Request
  <1>2. log[req[w].task] \in Seq(Recorded) /\ log'[req[w].task] \in Seq(Recorded)
    BY <1>1 DEF Types
  <1>3. HasEvent(log[req[w].task], req[w]) => HasEvent(log'[req[w].task], req[w])
    BY <1>1, <1>2, HasEventKept DEF LogGrows
  <1> QED
    BY <1>3 DEF Writes

-----------------------------------------------------------------------------
(* Requests between their store calls.                                      *)

\* A step that touches neither branch nor leases is one that grows nothing.
LEMMA GrowsNothing ==
    ASSUME UNCHANGED <<heads, log, holder, spent>>
    PROVE  Grows
  BY PrefixReflexive DEF Grows, HeadsGrow, LeasesMove, LogGrows

\* A step that changes one request, which is not writing, and answers it at
\* most keeps the invariant if it keeps what that request knows.
LEMMA RequestStep ==
    ASSUME IInv, NEW r \in Writers, NEW q \in {Idle} \cup Request,
           req' = [req EXCEPT ![r] = q], q # Idle => ReqOK(q),
           req[r].pc # "writing", q.pc # "writing",
           local' \in 1..Len(heads),
           UNCHANGED <<heads, log, draft, mu, stage, holder, spent>>,
           \A a \in acks' : a \in acks \/ (a.task \in Tasks /\ HasEvent(log[a.task], a))
    PROVE  IInv'
  <1>1. Grows
    BY GrowsNothing
  <1>2. Types /\ Types'
    BY DEF IInv, Types
  <1>3. stage[r].at = "idle"
    BY DEF IInv, Turns
  <1>4. req'[r] = q /\ \A w \in Writers \ {r} : req'[w] = req[w]
    BY <1>2 DEF Types
  <1>5. Turns'
    BY <1>2, <1>3, <1>4 DEF IInv, Turns, Types
  <1>6. LeasesUnique' /\ Streams' /\ DraftOK'
    BY <1>1, <1>2, StreamKept
       DEF IInv, LeasesUnique, Streams, DraftOK, StreamOK, Seen, LeaseSafe
  <1>7. Requests'
    <2>1. ASSUME NEW w \in Writers, NEW x, x = req'[w], x # Idle
          PROVE  ReqOK(x)'
      <3>1. x \in Request /\ ReqOK(x)
        BY <1>2, <1>4, <2>1 DEF IInv, Requests, Types
      <3> QED
        BY <1>1, <1>2, <3>1, RequestKept
    <2> QED
      BY <2>1
         DEF Requests, ReqOK, Submission, Execution, KnowsStream, MayFollow,
                  LeaseSafe, Seen
  <1>8. Writes'
    <2> SUFFICES ASSUME NEW w \in Writers, req'[w] # Idle, req'[w].op = "verified"
                 PROVE  /\ stage'[w].at \in {"sync", "ok"}
                              => HasEvent(log'[req'[w].task], req'[w])
                        /\ stage'[w].at \in {"push", "rebase"} =>
                              \/ HasEvent(log'[req'[w].task], req'[w])
                              \/ /\ draft' \in Drafts /\ draft'.file = req'[w].task
                                 /\ HasEvent(draft'.content, req'[w])
      BY DEF Writes
    <2>1. CASE w = r
      BY <1>3, <2>1
    <2>2. CASE w # r
      <3>1. req'[w] = req[w]
        BY <1>4, <2>2
      <3> QED
        BY <1>1, <1>2, <3>1, WriteKept DEF IInv, Grows
    <2> QED
      BY <2>1, <2>2
  <1>9. Acks'
    BY DEF IInv, Acks
  <1> QED
    BY <1>2, <1>5, <1>6, <1>7, <1>8, <1>9 DEF IInv

\* A request that is under way is well typed and knows what ReqOK says.
LEMMA Working ==
    ASSUME IInv, NEW r \in Writers, req[r].pc # "idle"
    PROVE  req[r] \in Request /\ req[r] # Idle /\ ReqOK(req[r])
  BY DEF IInv, Types, Requests, Idle

\* A request that only goes on to another point.
LEMMA GotoStep ==
    ASSUME IInv, NEW r \in Writers, NEW p \in Pcs \ {"writing"},
           req[r].pc \notin {"idle", "writing"}, Goto(r, p),
           ReqOK([req[r] EXCEPT !.pc = p]),
           local' \in 1..Len(heads),
           UNCHANGED <<heads, log, draft, mu, stage, holder, spent, acks>>
    PROVE  IInv'
  <1> DEFINE q == [req[r] EXCEPT !.pc = p]
  <1>1. req[r] \in Request
    BY Working
  <1>2. q \in Request /\ q.pc = p
    BY <1>1 DEF Request
  <1>3. req' = [req EXCEPT ![r] = q]
    BY <1>1 DEF Goto, IInv, Types
  <1> HIDE DEF q
  <1>4. ReqOK(q)
    BY DEF q
  <1> QED
    BY <1>2, <1>3, <1>4, RequestStep

\* A request that ends, with an answer or without.
LEMMA EndStep ==
    ASSUME IInv, NEW r \in Writers, req[r].pc \notin {"idle", "writing"}, End(r),
           UNCHANGED <<docsVars, holder, spent>>,
           acks' = acks \/ (acks' = acks \cup {Ack(r)} /\ HasEvent(log[req[r].task], Ack(r)))
    PROVE  IInv'
  <1>1. req[r].task \in Tasks /\ Ack(r).task = req[r].task
    BY Working DEF Request, Ack
  <1>2. local' \in 1..Len(heads) /\ Idle.pc # "writing"
    BY DEF IInv, Types, docsVars, Idle
  <1>3. UNCHANGED <<heads, log, draft, mu, stage, holder, spent>>
    BY DEF docsVars
  <1>4. \A a \in acks' : a \in acks \/ (a.task \in Tasks /\ HasEvent(log[a.task], a))
    BY <1>1
  <1> QED
    BY <1>2, <1>3, <1>4, RequestStep DEF End

\* A submission arrives: the commit that it names is on the branch.
LEMMA SubmitStep ==
    ASSUME IInv, NEW r \in Writers, NEW t \in Tasks, NEW head \in 1..Len(heads),
           Submit(r, t, head)
    PROVE  IInv'
  <1> DEFINE q == [pc |-> "refresh", op |-> "verified", task |-> t, by |-> NoHash,
                   sha |-> NoHash, head |-> head, key |-> NoHash, lease |-> NoHash,
                   events |-> <<>>, deps |-> {}]
  <1>1. head \in 1..MaxHeads
    BY DocsAssumption DEF IInv, Types
  <1>2. q \in Request
    BY <1>1 DEF Request, Ops, Pcs
  <1>3. ReqOK(q)
    BY DEF ReqOK, Submission
  <1>4. req' = [req EXCEPT ![r] = q] /\ req[r].pc # "writing" /\ q.pc # "writing"
    BY DEF Submit, At
  <1>5. local' \in 1..Len(heads) /\ acks' = acks
        /\ UNCHANGED <<heads, log, draft, mu, stage, holder, spent>>
    BY DEF Submit, docsVars, IInv, Types
  <1> HIDE DEF q
  <1> QED
    BY <1>2, <1>3, <1>4, <1>5, RequestStep

\* A claim or completion arrives: its lease was granted at some time.
LEMMA ExecuteStep ==
    ASSUME IInv, NEW r \in Writers, NEW op \in Ops \ {"verified"}, NEW t \in Tasks,
           NEW v \in Versions, NEW by \in Agents, NEW k \in Targets \cup {NoHash},
           NEW l \in LeaseIds \cup {NoHash}, Execute(r, op, t, v, by, k, l)
    PROVE  IInv'
  <1> DEFINE q == [pc |-> "lifecycle", op |-> op, task |-> t, by |-> by,
                   sha |-> v, head |-> NoHash, key |-> k, lease |-> l,
                   events |-> <<>>, deps |-> {}]
  <1>1. q \in Request
    BY DEF Request, Ops, Pcs
  <1>2. ReqOK(q)
    BY DEF ReqOK, Execution, Execute
  <1>3. req' = [req EXCEPT ![r] = q] /\ req[r].pc # "writing" /\ q.pc # "writing"
    BY DEF Execute, At
  <1>4. local' \in 1..Len(heads) /\ acks' = acks
        /\ UNCHANGED <<heads, log, draft, mu, stage, holder, spent>>
    BY DEF Execute, docsVars, IInv, Types
  <1> HIDE DEF q
  <1> QED
    BY <1>1, <1>2, <1>3, <1>4, RequestStep

\* An error before the write ends the request and changes nothing.
LEMMA RefusedStep == ASSUME IInv, NEW r \in Writers, Refused(r) PROVE IInv'
  BY EndStep DEF Refused

\* The refresh moves the worktree to the end of the branch.
LEMMA SubmitRefreshStep == ASSUME IInv, NEW r \in Writers, SubmitRefresh(r) PROVE IInv'
  <1>1. req[r] \in Request /\ ReqOK(req[r]) /\ req[r].pc = "refresh"
    BY Working DEF SubmitRefresh, At
  <1>2. ReqOK([req[r] EXCEPT !.pc = "proposal"])
    BY <1>1 DEF ReqOK, Submission, Execution, Request
  <1>3. local' \in 1..Len(heads)
    BY DEF SubmitRefresh, Refresh, FastForward, IInv, Types
  <1> QED
    BY <1>1, <1>2, <1>3, GotoStep DEF SubmitRefresh, Refresh, Pcs

\* The proposal is read from a commit that is not before the advertised one.
LEMMA SubmitProposalStep ==
    ASSUME IInv, NEW r \in Writers, SubmitProposal(r) PROVE IInv'
  <1> DEFINE q == [req[r] EXCEPT !.pc = "graph", !.sha = DocAt(req[r].task)]
  <1>1. req[r] \in Request /\ ReqOK(req[r]) /\ req[r].pc = "proposal"
    BY Working DEF SubmitProposal, At
  <1>2. req[r].op = "verified" /\ Submission(req[r]) /\ req[r].task \in Tasks
    BY <1>1 DEF ReqOK, Execution, Request
  <1>3. Len(heads) \in req[r].head..Len(heads) /\ DocAt(req[r].task) \in Versions
    BY <1>2, TaskAssumption DEF Submission, IInv, Types, DocAt, SubmitProposal
  <1>4. q \in Request /\ q.pc = "graph"
    BY <1>1, <1>3 DEF Request, Pcs
  <1>5. Seen(q.task, q.sha, q.head)
    BY <1>1, <1>3 DEF Seen, DocAt, Request
  <1>6. ReqOK(q)
    BY <1>1, <1>2, <1>3, <1>5 DEF ReqOK, Submission, Request
  <1>7. req' = [req EXCEPT ![r] = q]
    BY <1>1 DEF SubmitProposal, IInv, Types
  <1>8. local' \in 1..Len(heads) /\ acks' = acks
        /\ UNCHANGED <<heads, log, draft, mu, stage, holder, spent>>
    BY DEF SubmitProposal, docsVars, IInv, Types
  <1> HIDE DEF q
  <1> QED
    BY <1>1, <1>4, <1>6, <1>7, <1>8, RequestStep

\* The dependency graph is only looked at.
LEMMA SubmitGraphStep == ASSUME IInv, NEW r \in Writers, SubmitGraph(r) PROVE IInv'
  <1>1. req[r] \in Request /\ ReqOK(req[r]) /\ req[r].pc = "graph"
    BY Working DEF SubmitGraph, At
  <1>2. ReqOK([req[r] EXCEPT !.pc = "events"])
    BY <1>1 DEF ReqOK, Submission, Execution, Request
  <1>3. local' \in 1..Len(heads)
    BY DEF SubmitGraph, docsVars, IInv, Types
  <1> QED
    BY <1>1, <1>2, <1>3, GotoStep DEF SubmitGraph, docsVars, Pcs

\* A submission is answered at once only from the verified event of its task.
LEMMA SubmitEventsStep == ASSUME IInv, NEW r \in Writers, SubmitEvents(r) PROVE IInv'
  <1> DEFINE s == log[req[r].task]
  <1>1. req[r] \in Request /\ ReqOK(req[r]) /\ req[r].pc = "events"
    BY Working DEF SubmitEvents, At
  <1>2. req[r].op = "verified" /\ Submission(req[r]) /\ req[r].task \in Tasks
    BY <1>1 DEF ReqOK, Execution, Request
  <1>3. local' \in 1..Len(heads)
    BY DEF SubmitEvents, docsVars, IInv, Types
  <1>4. CASE s = <<>>
    <2>1. ReqOK([req[r] EXCEPT !.pc = "append"])
      BY <1>1, <1>2 DEF ReqOK, Submission, Request
    <2>2. Goto(r, "append") /\ acks' = acks
      BY <1>4 DEF SubmitEvents
    <2> QED
      BY <1>1, <1>3, <2>1, <2>2, GotoStep DEF SubmitEvents, docsVars, Pcs
  <1>5. CASE s # <<>>
    <2>1. /\ s[1].sha = req[r].sha /\ s[1].head = req[r].head
          /\ acks' = acks \cup {Ack(r)} /\ End(r)
      BY <1>5 DEF SubmitEvents
    <2>2. s \in Seq(Recorded) /\ StreamOK(req[r].task, s)
      BY <1>2 DEF IInv, Types, Streams
    <2>3. s[1].type = "verified" /\ s[1].by = NoHash /\ 1 \in 1..Len(s)
      BY <1>5, <2>2, LegalTypes, TypeAt DEF StreamOK
    <2>4. HasEvent(s, Ack(r))
      BY <1>2, <2>1, <2>3 DEF HasEvent, Ack, Submission
    <2> QED
      BY <1>1, <2>1, <2>4, EndStep DEF SubmitEvents
  <1> QED
    BY <1>4, <1>5

\* A request for an execution keeps the events it read: they are a beginning of
\* the stream from now on.
LEMMA ReadLifecycleStep ==
    ASSUME IInv, NEW r \in Writers, ReadLifecycle(r) PROVE IInv'
  <1> DEFINE s == log[req[r].task]
             q == [req[r] EXCEPT !.pc = "match", !.events = s,
                                 !.head = TaskStatusOf(s).head]
  <1>1. req[r] \in Request /\ ReqOK(req[r]) /\ req[r].pc = "lifecycle"
    BY Working DEF ReadLifecycle, At
  <1>2. req[r].op # "verified" /\ Execution(req[r]) /\ req[r].task \in Tasks
    BY <1>1 DEF ReqOK, Submission, Request
  <1>3. s \in Seq(Recorded) /\ StreamOK(req[r].task, s)
    BY <1>2 DEF IInv, Types, Streams
  <1>4. s # <<>>
    BY <1>2, ValuesAssumption DEF ReadLifecycle, TaskStatusOf, Execution
  <1>5. TaskStatusOf(s).sha = s[1].sha /\ TaskStatusOf(s).head = s[1].head
    BY <1>4 DEF TaskStatusOf
  <1>6. s[1] \in Recorded
    BY <1>3, <1>4
  <1> HIDE DEF s
  <1>7. q \in Request /\ q.pc = "match"
    BY <1>1, <1>3, <1>5, <1>6 DEF Request, Pcs, Recorded
  <1>8. KnowsStream(q)
    BY <1>1, <1>4, <1>5, PrefixReflexive
       DEF KnowsStream, Request, ReadLifecycle, s
  <1>9. ReqOK(q)
    BY <1>1, <1>2, <1>8 DEF ReqOK, Execution, Request
  <1>10. req' = [req EXCEPT ![r] = q]
    BY <1>1 DEF ReadLifecycle, IInv, Types, s
  <1>11. local' \in 1..Len(heads) /\ acks' = acks
         /\ UNCHANGED <<heads, log, draft, mu, stage, holder, spent>>
    BY DEF ReadLifecycle, docsVars, IInv, Types
  <1> HIDE DEF q
  <1> QED
    BY <1>1, <1>7, <1>9, <1>10, <1>11, RequestStep

\* The proposal is only compared.
LEMMA ProposalMatchesStep ==
    ASSUME IInv, NEW r \in Writers, ProposalMatches(r) PROVE IInv'
  <1>1. req[r] \in Request /\ ReqOK(req[r]) /\ req[r].pc = "match"
    BY Working DEF ProposalMatches, At
  <1>2. ReqOK([req[r] EXCEPT !.pc = "deps"])
    BY <1>1 DEF ReqOK, Submission, Execution, KnowsStream, MayFollow, Request
  <1>3. local' \in 1..Len(heads)
    BY DEF ProposalMatches, docsVars, IInv, Types
  <1> QED
    BY <1>1, <1>2, <1>3, GotoStep DEF ProposalMatches, docsVars, Pcs

\* The dependencies read are tasks.
LEMMA ReadDependenciesStep ==
    ASSUME IInv, NEW r \in Writers, ReadDependencies(r)
    PROVE  IInv'
  <1> DEFINE D == DepsAt(req[r].task)
             q == [req[r] EXCEPT !.deps = D,
                                 !.pc = IF D = {} THEN "decide" ELSE "streams"]
  <1>1. req[r] \in Request /\ ReqOK(req[r]) /\ req[r].pc = "deps"
    BY Working DEF ReadDependencies, At
  <1>2. req[r].op # "verified" /\ Execution(req[r]) /\ req[r].task \in Tasks
    BY <1>1 DEF ReqOK, Submission, Request
  <1>3. D \in SUBSET Tasks
    <2>1. heads[Len(heads)] \in [Docs -> Versions \cup {NoHash}]
      BY DEF IInv, Types
    <2> QED
      BY <1>2, <2>1, TaskAssumption DEF DepsAt, DocAt
  <1> HIDE DEF D
  <1>4. q \in Request /\ q.pc \in {"decide", "streams"}
    <2>1. ASSUME NEW p \in {"decide", "streams"}
          PROVE  [req[r] EXCEPT !.deps = D, !.pc = p] \in Request
      BY <1>1, <1>3 DEF Request, Pcs
    <2> QED
      BY <1>1, <2>1 DEF Request
  <1>5. ReqOK(q)
    BY <1>1, <1>2, <1>4 DEF ReqOK, Execution, KnowsStream, MayFollow, Request
  <1>6. req' = [req EXCEPT ![r] = q]
    BY <1>1 DEF ReadDependencies, IInv, Types, D
  <1>7. local' \in 1..Len(heads) /\ acks' = acks
        /\ UNCHANGED <<heads, log, draft, mu, stage, holder, spent>>
    BY DEF ReadDependencies, docsVars, IInv, Types
  <1> HIDE DEF q
  <1> QED
    BY <1>1, <1>4, <1>5, <1>6, <1>7, RequestStep

\* The streams of the dependencies are only looked at.
LEMMA CheckDependenciesStep ==
    ASSUME IInv, NEW r \in Writers, CheckDependencies(r) PROVE IInv'
  <1>1. req[r] \in Request /\ ReqOK(req[r]) /\ req[r].pc = "streams"
    BY Working DEF CheckDependencies, At
  <1>2. ReqOK([req[r] EXCEPT !.pc = "decide"])
    BY <1>1 DEF ReqOK, Submission, Execution, KnowsStream, MayFollow, Request
  <1>3. local' \in 1..Len(heads)
    BY DEF CheckDependencies, docsVars, IInv, Types
  <1> QED
    BY <1>1, <1>2, <1>3, GotoStep DEF CheckDependencies, docsVars, Pcs

\* The events that a request read are a legal stream.
LEMMA EventsRead ==
    ASSUME IInv, NEW q \in Request, KnowsStream(q)
    PROVE  /\ q.events \in Seq(Recorded) /\ q.events # <<>>
           /\ ValidateLifecycleChain(q.events)
  <1>1. q.events \in Seq(Recorded) /\ q.task \in Tasks
    BY DEF Request
  <1>2. log[q.task] \in Seq(Recorded) /\ ValidateLifecycleChain(log[q.task])
    BY <1>1 DEF IInv, Types, Streams, StreamOK
  <1>3. q.events # <<>> /\ Prefix(q.events, log[q.task])
    BY DEF KnowsStream
  <1> QED
    BY <1>1, <1>2, <1>3, PrefixLegal

\* The decision rests on the events read at the start; an executor that is
\* answered at once has its event on the branch.
LEMMA DecideStep == ASSUME IInv, NEW r \in Writers, Decide(r) PROVE IInv'
  <1> DEFINE e == req[r].events
             verdict == Transition(req[r].op, TaskStatusOf(e), req[r].by)
  <1>1. req[r] \in Request /\ ReqOK(req[r]) /\ req[r].pc = "decide"
    BY Working DEF Decide, At
  <1>2. /\ req[r].op \in {"claimed", "completed_local", "completed"}
        /\ Execution(req[r]) /\ KnowsStream(req[r]) /\ req[r].task \in Tasks
    BY <1>1 DEF ReqOK, Submission, Execution, Request, Ops
  <1>3. e \in Seq(Recorded) /\ e # <<>> /\ ValidateLifecycleChain(e)
    BY <1>1, <1>2, EventsRead
  <1>4. local' \in 1..Len(heads)
    BY DEF Decide, docsVars, IInv, Types
  <1>5. CASE verdict = "proceed"
    <2>1. MayFollow(req[r])
      BY <1>2, <1>3, <1>5, TransitionMeans DEF MayFollow
    <2>2. req[r].op # "claimed" => ReqOK([req[r] EXCEPT !.pc = "lease"])
      BY <1>1, <1>2, <2>1 DEF ReqOK, Execution, KnowsStream, MayFollow, Request
    <2>3. req[r].op = "claimed" => ReqOK([req[r] EXCEPT !.pc = "append"])
      BY <1>1, <1>2, <2>1 DEF ReqOK, Execution, KnowsStream, MayFollow, Request
    <2>4. Goto(r, IF req[r].op = "claimed" THEN "append" ELSE "lease") /\ acks' = acks
      BY <1>5 DEF Decide
    <2>5. UNCHANGED <<heads, log, draft, mu, stage, holder, spent, acks>>
      BY <2>4 DEF Decide, docsVars
    <2>6. CASE req[r].op = "claimed"
      BY <1>1, <1>4, <2>3, <2>4, <2>5, <2>6, GotoStep DEF Pcs
    <2>7. CASE req[r].op # "claimed"
      BY <1>1, <1>4, <2>2, <2>4, <2>5, <2>7, GotoStep DEF Pcs
    <2> QED
      BY <2>6, <2>7
  <1>6. CASE verdict # "proceed"
    <2>1. verdict = "existing" /\ acks' = acks \cup {Ack(r)} /\ End(r)
      BY <1>6 DEF Decide
    <2>2. req[r].op = "claimed" /\ Len(e) = 2 /\ e[2].by = req[r].by
      BY <1>2, <1>3, <2>1, TransitionMeans
    <2>3. /\ e[2].type = "claimed" /\ e[2].sha = e[1].sha /\ e[2].head = e[1].head
      <3>1. 2 \in 1..Len(e) /\ \A i \in 1..Len(e) : e[i].type = EventTypes[i]
        BY <1>3, <2>2, LegalTypes
      <3>2. e[2].sha = e[1].sha /\ e[2].head = e[1].head
        BY <1>3, <3>1 DEF ValidateLifecycleChain
      <3> QED
        BY <3>1, <3>2, TypeAt
    <2>4. 2 \in 1..Len(log[req[r].task]) /\ log[req[r].task][2] = e[2]
      <3>1. Len(log[req[r].task]) \in Nat
        BY <1>2 DEF IInv, Types
      <3> QED
        BY <1>2, <2>2, <3>1 DEF KnowsStream, Prefix
    <2>5. HasEvent(log[req[r].task], Ack(r))
      BY <1>2, <2>2, <2>3, <2>4 DEF HasEvent, Ack, KnowsStream
    <2> QED
      BY <1>1, <2>1, <2>5, EndStep DEF Decide
  <1> QED
    BY <1>5, <1>6

\* The lease a completion names is the executor's, and its id is nobody else's
\* from now on.
LEMMA CheckLeaseStep == ASSUME IInv, NEW r \in Writers, CheckLease(r) PROVE IInv'
  <1>1. req[r] \in Request /\ ReqOK(req[r]) /\ req[r].pc = "lease"
    BY Working DEF CheckLease, At
  <1>2. Execution(req[r]) /\ req[r].op # "verified"
    BY <1>1 DEF ReqOK, Submission
  <1>3. ASSUME req[r].op # "claimed" PROVE LeaseSafe(req[r].lease, req[r].by)
    <2> DEFINE h == holder[req[r].key]
    <2>1. /\ h = [owner |-> req[r].by, id |-> req[r].lease]
          /\ req[r].lease \in spent /\ req[r].key \in Targets /\ req[r].by \in Agents
      BY <1>2, <1>3 DEF CheckLease, LeaseHeld, Execution
    <2>2. h \in [owner : Agents, id : LeaseIds]
      BY <2>1 DEF IInv, Types
    <2>3. h # None /\ h.owner = req[r].by /\ h.id = req[r].lease
      BY <2>1, <2>2, ValuesAssumption
    <2>4. \A k \in Targets : holder[k] # None /\ holder[k].id = h.id => k = req[r].key
      BY <2>1, <2>3 DEF IInv, LeasesUnique
    <2> QED
      BY <2>1, <2>3, <2>4 DEF LeaseSafe
  <1>4. ReqOK([req[r] EXCEPT !.pc = "append"])
    BY <1>1, <1>2, <1>3 DEF ReqOK, Execution, KnowsStream, MayFollow, Request
  <1>5. local' \in 1..Len(heads)
    BY DEF CheckLease, docsVars, IInv, Types
  <1> QED
    BY <1>1, <1>4, <1>5, GotoStep DEF CheckLease, docsVars, Pcs

\* Whoever is told that it has the task is the one the stream names.
LEMMA RereadStep == ASSUME IInv, NEW r \in Writers, Reread(r) PROVE IInv'
  <1> DEFINE s == log[req[r].task]
  <1>1. req[r] \in Request /\ ReqOK(req[r]) /\ req[r].pc = "reread"
    BY Working DEF Reread, At
  <1>2. /\ req[r].op \in {"claimed", "completed_local", "completed"}
        /\ Execution(req[r]) /\ KnowsStream(req[r]) /\ req[r].task \in Tasks
    BY <1>1 DEF ReqOK, Submission, Execution, Request, Ops
  <1>3. s \in Seq(Recorded) /\ ValidateLifecycleChain(s)
    BY <1>2 DEF IInv, Types, Streams, StreamOK
  <1>4. s # <<>> /\ s[1] = req[r].events[1] /\ 1 \in 1..Len(s)
    <2>1. req[r].events \in Seq(Recorded) /\ req[r].events # <<>>
      BY <1>1, <1>2 DEF Request, KnowsStream
    <2>2. 1 \in 1..Len(req[r].events) /\ Len(req[r].events) <= Len(s)
      BY <1>2, <2>1 DEF KnowsStream, Prefix
    <2> QED
      BY <1>2, <1>3, <2>2 DEF KnowsStream, Prefix
  <1>5. s[Len(s)].type = req[r].op /\ s[Len(s)].by = req[r].by
    BY <1>2, <1>3, <1>4, ConfirmedMeans DEF Reread
  <1>6. Len(s) \in 1..Len(s)
    BY <1>3, <1>4
  <1>7. s[Len(s)].sha = s[1].sha /\ s[Len(s)].head = s[1].head
    BY <1>3, <1>6 DEF ValidateLifecycleChain
  <1>8. HasEvent(s, Ack(r))
    BY <1>2, <1>4, <1>5, <1>6, <1>7 DEF HasEvent, Ack, KnowsStream
  <1> QED
    BY <1>1, <1>8, EndStep DEF Reread

-----------------------------------------------------------------------------
(* Leases, agents, the operator, crashes.                                   *)

\* Requests that go on as they are, or with what they know, keep Requests.
LEMMA RequestsKept ==
    ASSUME Types, Types', Requests, Grows,
           \A w \in Writers : \A x :
              x = req'[w] /\ x # Idle /\ x # req[w] => x \in Request /\ ReqOK(x)
    PROVE  Requests'
  <1>1. ASSUME NEW w \in Writers, NEW x, x = req'[w], x # Idle
        PROVE  ReqOK(x)'
    <2>1. x \in Request /\ ReqOK(x)
      BY <1>1 DEF Requests, Types
    <2> QED
      BY <2>1, RequestKept
  <1> QED
    BY <1>1 DEF Requests, ReqOK, Submission, Execution, KnowsStream, MayFollow,
                LeaseSafe, Seen

\* The streams that a step leaves alone stay what they are.
LEMMA StreamsKept ==
    ASSUME Types, Types', Streams, HeadsGrow, LeasesMove, log' = log
    PROVE  Streams'
  <1>1. ASSUME NEW t \in Tasks, NEW s, s = log[t] PROVE StreamOK(t, s)'
    BY <1>1, StreamKept DEF Types, Streams
  <1> QED
    BY <1>1 DEF Streams, StreamOK, Seen, LeaseSafe

\* So does the commit that is not on the branch yet.
LEMMA DraftKept ==
    ASSUME Types, Types', DraftOK, HeadsGrow, LeasesMove, log' = log, draft' = draft
    PROVE  DraftOK'
  <1>1. ASSUME draft \in Drafts PROVE StreamOK(draft.file, draft.content)'
    <2>1. ASSUME NEW t, t = draft.file, NEW s, s = draft.content
          PROVE  StreamOK(t, s)'
      BY <1>1, <2>1, StreamKept DEF DraftOK, Drafts
    <2> QED
      BY <2>1 DEF StreamOK, Seen, LeaseSafe
  <1> QED
    BY <1>1 DEF DraftOK

\* What happens around the requests adds commits and moves leases; the
\* service's commit goes only while nobody writes.
LEMMA AroundStep ==
    ASSUME IInv, Types', LeasesUnique', HeadsGrow, LeasesMove,
           UNCHANGED <<log, mu, stage, req, acks>>,
           draft' = draft \/ (draft' \notin Drafts /\ mu = None)
    PROVE  IInv'
  <1>1. Types /\ Grows
    BY PrefixReflexive DEF IInv, Grows, LogGrows
  <1>2. Turns'
    BY DEF IInv, Turns
  <1>3. Streams'
    BY <1>1, StreamsKept DEF IInv
  <1>4. DraftOK'
    <2>1. CASE draft' = draft
      BY <1>1, <2>1, DraftKept DEF IInv
    <2>2. CASE draft' \notin Drafts
      BY <2>2 DEF DraftOK
    <2> QED
      BY <2>1, <2>2
  <1>5. Requests'
    BY <1>1, RequestsKept DEF IInv
  <1>6. Writes'
    <2>1. ASSUME NEW w \in Writers, stage[w].at \in {"push", "rebase"}
          PROVE  draft' = draft
      BY <2>1, ValuesAssumption DEF IInv, Turns, InWrite
    <2> QED
      BY <2>1 DEF IInv, Writes
  <1>7. Acks'
    BY DEF IInv, Acks
  <1> QED
    BY <1>2, <1>3, <1>4, <1>5, <1>6, <1>7 DEF IInv

\* A lease is granted under an id that was not.
LEMMA GrantLeaseStep ==
    ASSUME IInv, NEW k \in Targets, NEW a \in Agents, NEW l \in LeaseIds,
           GrantLease(k, a, l)
    PROVE  IInv'
  <1> DEFINE g == [owner |-> a, id |-> l]
  <1>1. /\ holder' = [holder EXCEPT ![k] = g] /\ spent' = spent \cup {l}
        /\ l \notin spent
        /\ UNCHANGED <<heads, log, local, draft, mu, stage, req, acks>>
    BY DEF GrantLease, Leases!Grant, docsVars
  <1>2. g \in Grants /\ g.id = l
    BY DEF Grants
  <1> HIDE DEF g
  <1>3. Types'
    BY <1>1, <1>2 DEF IInv, Types
  <1>4. holder'[k] = g /\ \A m \in Targets \ {k} : holder'[m] = holder[m]
    BY <1>1 DEF IInv, Types
  <1>5. LeasesUnique'
    BY <1>1, <1>2, <1>4 DEF IInv, LeasesUnique
  <1>6. LeasesMove
    BY <1>1, <1>2, <1>4 DEF LeasesMove
  <1> QED
    BY <1>1, <1>3, <1>5, <1>6, AroundStep, PrefixReflexive DEF HeadsGrow

\* A lease that ends takes nothing from what was bound to its id.
LEMMA LapseLeaseStep ==
    ASSUME IInv, NEW k \in Targets, LapseLease(k) PROVE IInv'
  <1>1. /\ holder' = [m \in Targets |-> IF m \in {k} THEN None ELSE holder[m]]
        /\ UNCHANGED <<heads, log, local, draft, mu, stage, req, acks, spent>>
    BY DEF LapseLease, Leases!Lapse, docsVars
  <1>2. Types'
    BY <1>1 DEF IInv, Types
  <1>3. LeasesUnique' /\ LeasesMove
    BY <1>1 DEF IInv, LeasesUnique, LeasesMove
  <1> QED
    BY <1>1, <1>2, <1>3, AroundStep, PrefixReflexive DEF HeadsGrow

\* Agents add commits and never touch a stream of the service.
LEMMA AgentStep == ASSUME IInv, Agent PROVE IInv'
  <1>1. PICK d \in Editable, v \in Versions : AgentPush(d, v) /\ UNCHANGED taskVars
    BY DEF Agent
  <1> DEFINE h == [Last(heads) EXCEPT ![d] = v]
  <1>2. Last(heads) \in [Docs -> Versions \cup {NoHash}] /\ Len(heads) \in 1..MaxHeads
    BY DEF IInv, Types, Last
  <1>3. h \in [Docs -> Versions \cup {NoHash}]
    BY <1>2
  <1>4. heads' = Append(heads, h) /\ Len(heads) < MaxHeads
        /\ local' \in {local, Len(heads) + 1}
        /\ UNCHANGED <<log, draft, mu, stage, req, acks, holder, spent>>
    BY <1>1 DEF AgentPush, taskVars
  <1> HIDE DEF h
  <1>5. heads' \in Seq([Docs -> Versions \cup {NoHash}]) /\ Len(heads') = Len(heads) + 1
        /\ HeadsGrow
    BY <1>3, <1>4, AppendPrefix DEF HeadsGrow, IInv, Types
  <1>6. Types'
    BY <1>2, <1>4, <1>5, DocsAssumption DEF IInv, Types
  <1>7. LeasesUnique' /\ LeasesMove
    BY <1>4 DEF IInv, LeasesUnique, LeasesMove
  <1> QED
    BY <1>4, <1>5, <1>6, <1>7, AroundStep

\* A reset of the worktree drops a commit that nobody is writing any more.
LEMMA OperatorStep == ASSUME IInv, Operator PROVE IInv'
  <1>1. /\ mu = None /\ draft' = None /\ local' = Len(heads)
        /\ UNCHANGED <<heads, log, mu, stage, req, acks, holder, spent>>
    BY DEF Operator, OperatorReset, FastForward, taskVars
  <1>2. Types'
    BY <1>1 DEF IInv, Types
  <1>3. LeasesUnique' /\ LeasesMove /\ HeadsGrow
    BY <1>1, PrefixReflexive DEF IInv, LeasesUnique, LeasesMove, HeadsGrow
  <1>4. draft' \notin Drafts
    BY <1>1, ValuesAssumption DEF Drafts
  <1> QED
    BY <1>1, <1>2, <1>3, <1>4, AroundStep

\* A crash takes requests, leases and the mutex with it; the commit that was
\* not pushed still extends the stream on the branch.
LEMMA CrashStep ==
    ASSUME IInv, NEW left \in {None, Dirty}, Crash(left) PROVE IInv'
  <1>1. /\ draft' \in {draft, Dirty} /\ mu' = None /\ acks' = acks
        /\ stage' = [w \in Writers |-> Write("idle", 0)]
        /\ req' = [w \in Writers |-> Idle]
        /\ UNCHANGED <<heads, log, local, spent>>
    BY DEF Crash, Leases!Lapse
  <1>2. holder' = [k \in Targets |-> None]
    BY DEF Crash, Leases!Lapse
  <1>3. Write("idle", 0) \in [at : Stages, attempt : 0..PushAttempts]
    BY DocsAssumption DEF Write, Stages
  <1>4. Types /\ Types'
    BY <1>1, <1>2, <1>3 DEF IInv, Types
  <1>5. LeasesUnique' /\ LeasesMove /\ HeadsGrow /\ LogGrows
    BY <1>1, <1>2, PrefixReflexive
       DEF LeasesUnique, LeasesMove, HeadsGrow, LogGrows
  <1>6. Streams'
    BY <1>1, <1>4, <1>5, StreamsKept DEF IInv
  <1>7. DraftOK'
    <2>1. CASE draft' = draft
      BY <1>1, <1>4, <1>5, <2>1, DraftKept DEF IInv
    <2>2. CASE draft' = Dirty
      BY <2>2, ValuesAssumption DEF DraftOK, Drafts
    <2> QED
      BY <1>1, <2>1, <2>2
  <1>8. Turns' /\ Requests' /\ Writes'
    BY <1>1 DEF Turns, Requests, Writes, Write, InWrite
  <1>9. Acks'
    BY <1>1 DEF IInv, Acks
  <1> QED
    BY <1>4, <1>5, <1>6, <1>7, <1>8, <1>9 DEF IInv

-----------------------------------------------------------------------------
(* Owned writes.                                                            *)

\* The event that a request appends is well typed and says what the request says.
LEMMA RecordedEvent ==
    ASSUME IInv, NEW r \in Writers, At(r, "append"),
           EventOf(r).seq \in 1..4
    PROVE  /\ EventOf(r) \in Recorded
           /\ EventOf(r).type = req[r].op /\ EventOf(r).by = req[r].by
           /\ EventOf(r).sha = req[r].sha /\ EventOf(r).head = req[r].head
           /\ EventOf(r).lease = req[r].lease
           /\ EventOf(r).seq = Len(req[r].events) + 1
  <1> DEFINE q == req[r]
             e == EventOf(r)
  <1>1. q \in Request /\ ReqOK(q) /\ q.pc = "append"
    BY Working DEF At
  <1>2. /\ e = [type |-> q.op, sha |-> q.sha, head |-> q.head, by |-> q.by,
                lease |-> q.lease, seq |-> Len(q.events) + 1,
                prev |-> IF q.events = <<>> THEN NoHash
                         ELSE Hash(q.events[Len(q.events)])]
    BY DEF EventOf, Link
  <1>3. q.sha \in Versions
    BY <1>1 DEF ReqOK, Submission, Execution
  <1>4. q.head \in 1..MaxHeads
    <2>1. CASE q.op = "verified"
      <3>1. q.head \in 1..Len(heads) /\ Len(heads) \in 1..MaxHeads
        BY <1>1, <2>1 DEF ReqOK, Submission, IInv, Types
      <3> QED
        BY <3>1, DocsAssumption
    <2>2. CASE q.op # "verified"
      <3>1. q.events # <<>> /\ q.events[1].head = q.head
        BY <1>1, <2>2 DEF ReqOK, Execution, KnowsStream
      <3>2. q.events \in Seq(Recorded) /\ q.events[1] \in Recorded
        BY <1>1, <3>1 DEF Request
      <3> QED
        BY <3>1, <3>2 DEF Recorded
    <2> QED
      BY <2>1, <2>2
  <1>5. ASSUME q.events # <<>> PROVE Hash(q.events[Len(q.events)]) \in Event
    <2>1. q.events \in Seq(Recorded)
      BY <1>1 DEF Request
    <2>2. q.events[Len(q.events)] \in Recorded
      BY <1>5, <2>1
    <2> QED
      BY <2>2 DEF Hash, Event, Recorded
  <1>6. e.prev \in Event \cup {NoHash} /\ e.seq \in 1..4
    BY <1>2, <1>5
  <1>7. /\ q.op \in Ops /\ q.by \in Agents \cup {NoHash}
        /\ q.lease \in LeaseIds \cup {NoHash}
    BY <1>1 DEF Request
  <1> HIDE DEF q, e
  <1>8. e \in Recorded
    BY <1>2, <1>3, <1>4, <1>6, <1>7 DEF Recorded
  <1> QED
    BY <1>2, <1>8 DEF e, q

\* The event a request appends belongs where it goes: it is by the agent of the
\* events before it, under a lease that is the agent's, about a proposal that
\* was on the branch.
LEMMA EventFollows ==
    ASSUME IInv, NEW r \in Writers, At(r, "append"),
           NEW t \in Tasks, t = req[r].task, NEW c, c = Append(log[t], EventOf(r)),
           ValidateLifecycleChain(c)
    PROVE  /\ c \in Seq(Recorded) /\ Prefix(log[t], c)
           /\ StreamOK(t, c) /\ HasEvent(c, req[r])
  <1> DEFINE q == req[r]
             e == EventOf(r)
             s == log[t]
  <1>1. q \in Request /\ ReqOK(q) /\ q.pc = "append"
    BY Working DEF At
  <1>2. s \in Seq(Recorded) /\ StreamOK(t, s) /\ Len(s) \in Nat
    BY DEF IInv, Types, Streams
  <1>3. /\ Len(c) = Len(s) + 1 /\ c[Len(s) + 1] = e
        /\ \A i \in 1..Len(s) : c[i] = s[i]
    BY <1>2
  <1>4. Len(c) \in 1..Len(c) /\ Len(c) \in Nat
    BY <1>2, <1>3
  <1>5. /\ e.seq = Len(c) /\ Len(c) \in 1..4 /\ e.type = EventTypes[Len(c)]
    <2>1. c[Len(c)].seq = Len(c) /\ LegalType(c, Len(c)) /\ c[Len(c)] = e
      BY <1>3, <1>4 DEF ValidateLifecycleChain
    <2>2. Len(c) <= 4 /\ e.type = EventTypes[Len(c)]
      BY <2>1 DEF LegalType, EventTypes
    <2> QED
      BY <1>4, <2>1, <2>2
  <1>6. /\ e \in Recorded /\ e.type = q.op /\ e.by = q.by /\ e.sha = q.sha
        /\ e.head = q.head /\ e.lease = q.lease /\ e.seq = Len(q.events) + 1
    BY <1>5, RecordedEvent
  <1>7. c \in Seq(Recorded) /\ Prefix(s, c)
    BY <1>2, <1>6, AppendPrefix
  <1>8. Len(q.events) = Len(s) /\ q.events \in Seq(Recorded)
    <2>1. q.events \in Seq(Recorded) /\ Len(q.events) \in Nat
      BY <1>1 DEF Request
    <2> QED
      BY <1>2, <1>3, <1>5, <1>6, <2>1
  <1> HIDE DEF q, e, s
  <1>9. CASE q.op = "verified"
    <2>1. Submission(q) /\ Len(c) = 1 /\ Len(s) = 0
      <3>1. Len(c) = 1
        <4>1. EventTypes[Len(c)] = "verified" => Len(c) = 1
          BY <1>5, TypeAt
        <4> QED
          BY <1>5, <1>6, <1>9, <4>1
      <3>2. Len(s) = 0
        BY <1>2, <1>3, <3>1
      <3> QED
        BY <1>1, <1>9, <3>1, <3>2 DEF ReqOK
    <2>2. c[1] = e /\ e.by = NoHash /\ Seen(t, e.sha, e.head)
      BY <1>1, <1>3, <1>6, <2>1 DEF Submission, q
    <2> QED
      BY <1>3, <1>4, <1>6, <1>7, <2>1, <2>2 DEF StreamOK, HasEvent, q, s
  <1>10. CASE q.op # "verified"
    <2>1. Execution(q) /\ KnowsStream(q) /\ MayFollow(q)
      BY <1>1, <1>10 DEF ReqOK, Execution
    <2>2. \A i \in 1..Len(s) : q.events[i] = s[i]
      BY <1>8, <2>1 DEF KnowsStream, Prefix, q, s
    <2>3. Len(s) >= 1 /\ (Len(s) >= 2 => s[Len(s)].by = e.by /\ q.op # "claimed")
      <3>1. CASE q.op = "claimed"
        <4>1. Len(s) = 1
          BY <1>8, <2>1, <3>1 DEF MayFollow
        <4> QED
          BY <4>1
      <3>2. CASE q.op = "completed_local"
        <4>1. Len(s) = 2 /\ q.events[2].by = q.by
          BY <1>8, <2>1, <3>2 DEF MayFollow
        <4> QED
          BY <1>6, <2>2, <3>2, <4>1
      <3>3. CASE q.op = "completed"
        <4>1. Len(s) = 3 /\ q.events[3].by = q.by
          BY <1>8, <2>1, <3>3 DEF MayFollow
        <4> QED
          BY <1>6, <2>2, <3>3, <4>1
      <3> QED
        BY <2>1, <3>1, <3>2, <3>3 DEF MayFollow
    <2>4. \A i, j \in 2..Len(c) : c[i].by = c[j].by
      <3>1. \A i \in 2..Len(c) : c[i].by = e.by
        <4>1. ASSUME NEW i \in 2..Len(c), i # Len(c) PROVE c[i].by = e.by
          <5>1. i \in 1..Len(s) /\ i \in 2..Len(s) /\ Len(s) \in 2..Len(s)
            BY <1>2, <1>3, <4>1
          <5>2. s[i].by = s[Len(s)].by
            BY <1>2, <5>1 DEF StreamOK
          <5> QED
            BY <1>3, <2>3, <5>1, <5>2
        <4> QED
          BY <1>3, <4>1
      <3>2. ASSUME NEW i \in 2..Len(c), NEW j \in 2..Len(c)
            PROVE  c[i].by = c[j].by
        <4>1. c[i].by = e.by /\ c[j].by = e.by
          BY <3>1
        <4> QED
          BY <4>1
      <3> QED
        BY <3>2
    <2>5. c # <<>> /\ c[1] = s[1] /\ s # <<>>
      BY <1>2, <1>3, <2>3
    <2>6. \A i \in 3..Len(c) : c[i].lease # NoHash => LeaseSafe(c[i].lease, c[i].by)
      <3>1. ASSUME NEW i \in 3..Len(c), i # Len(c), c[i].lease # NoHash
            PROVE  LeaseSafe(c[i].lease, c[i].by)
        <4>1. i \in 3..Len(s) /\ c[i] = s[i]
          BY <1>2, <1>3, <3>1
        <4> QED
          BY <1>2, <3>1, <4>1 DEF StreamOK
      <3>2. ASSUME Len(c) >= 3 PROVE LeaseSafe(e.lease, e.by)
        <4>1. q.op # "claimed"
          BY <1>2, <1>3, <2>3, <3>2
        <4> QED
          BY <1>1, <1>6, <2>1, <4>1 DEF Execution
      <3> QED
        BY <1>3, <1>4, <3>1, <3>2
    <2>7. StreamOK(t, c)
      BY <1>2, <2>4, <2>5, <2>6 DEF StreamOK
    <2> QED
      BY <1>3, <1>4, <1>6, <1>7, <2>7 DEF HasEvent, q, s
  <1> QED
    BY <1>9, <1>10

\* The write of a request begins: its commit is made on top of the branch, or
\* in local mode on the branch itself.
LEMMA AppendEventStep == ASSUME IInv, NEW r \in Writers, AppendEvent(r) PROVE IInv'
  <1> DEFINE q == req[r]
             t == req[r].task
             c == Append(log[t], EventOf(r))
             q2 == [req[r] EXCEPT !.pc = "writing"]
  <1>1. q \in Request /\ ReqOK(q) /\ q.pc = "append" /\ q # Idle /\ t \in Tasks
    BY Working DEF AppendEvent, At, Request
  <1>2. ValidateLifecycleChain(c)
    BY DEF AppendEvent
  <1>3. /\ c \in Seq(Recorded) /\ Prefix(log[t], c)
        /\ StreamOK(t, c) /\ HasEvent(c, q)
    BY <1>1, <1>2, EventFollows DEF AppendEvent
  <1>4. /\ mu = None /\ draft = None /\ Len(heads) < MaxHeads
        /\ Commit(r, t, c) /\ req' = [req EXCEPT ![r] = q2]
        /\ UNCHANGED <<holder, spent, acks>>
    <2>1. req' = [req EXCEPT ![r] = q2]
      BY <1>1 DEF AppendEvent, Goto, IInv, Types
    <2> QED
      BY <2>1 DEF AppendEvent, NextEvents, Commit
  <1>5. q2 \in Request /\ q2.pc = "writing" /\ q2.task = t /\ q2.op = q.op
        /\ q2.by = q.by /\ q2.sha = q.sha /\ q2.head = q.head
        /\ q2.events = q.events /\ q2.lease = q.lease /\ q2.key = q.key
    BY <1>1 DEF Request, Pcs
  <1> HIDE DEF c, q2
  <1>6. ReqOK(q2) /\ HasEvent(c, q2)
    BY <1>1, <1>3, <1>5
       DEF ReqOK, Submission, Execution, KnowsStream, MayFollow, HasEvent
  <1> HIDE DEF q, t
  <1>7. Types /\ Streams /\ LeasesUnique /\ Turns /\ Acks /\ Writes /\ Requests
    BY DEF IInv
  <1>8. \A w \in Writers : stage[w].at \notin InWrite
    BY <1>4, <1>7, ValuesAssumption DEF Turns
  <1>9. req'[r] = q2 /\ \A w \in Writers \ {r} : req'[w] = req[w]
    BY <1>4, <1>7 DEF Types
  <1>10. LeasesUnique' /\ LeasesMove
    BY <1>4, <1>7 DEF LeasesUnique, LeasesMove
  <1>11. CASE Local
    <2>1. /\ heads' = Append(heads, Last(heads)) /\ log' = [log EXCEPT ![t] = c]
          /\ local' = Len(heads) + 1 /\ stage' = [stage EXCEPT ![r] = Write("ok", 0)]
          /\ draft' = draft /\ mu' = mu
      BY <1>4, <1>11 DEF Commit
    <2>2. Last(heads) \in [Docs -> Versions \cup {NoHash}] /\ Len(heads) \in 1..MaxHeads
      BY <1>7 DEF Types, Last
    <2>3. /\ heads' \in Seq([Docs -> Versions \cup {NoHash}])
          /\ Len(heads') = Len(heads) + 1 /\ HeadsGrow
      BY <1>7, <2>1, <2>2, AppendPrefix DEF HeadsGrow, Types
    <2>4. log' \in [Tasks -> Seq(Recorded)] /\ log'[t] = c
          /\ \A u \in Tasks \ {t} : log'[u] = log[u]
      BY <1>1, <1>3, <1>7, <2>1 DEF Types, t
    <2>5. Write("ok", 0) \in [at : Stages, attempt : 0..PushAttempts]
      BY DocsAssumption DEF Write, Stages
    <2>6. Types'
      BY <1>4, <1>5, <1>7, <2>1, <2>2, <2>3, <2>4, <2>5, DocsAssumption
         DEF Types
    <2>7. LogGrows
      BY <1>3, <2>4, PrefixReflexive DEF LogGrows
    <2>8. Streams'
      <3>1. ASSUME NEW u \in Tasks, NEW s, s = log'[u] PROVE StreamOK(u, s)'
        <4>1. s \in Seq(Recorded) /\ StreamOK(u, s)
          BY <1>3, <1>7, <2>4, <3>1 DEF Types, Streams
        <4> QED
          BY <1>7, <1>10, <2>3, <2>6, <4>1, StreamKept
      <3> QED
        BY <3>1 DEF Streams, StreamOK, Seen, LeaseSafe
    <2>9. DraftOK'
      BY <1>4, <2>1, ValuesAssumption DEF DraftOK, Drafts
    <2>10. stage'[r].at = "ok" /\ \A w \in Writers \ {r} : stage'[w] = stage[w]
      BY <1>7, <2>1 DEF Types, Write
    <2>11. Turns'
      BY <1>4, <1>5, <1>7, <1>9, <2>1, <2>10 DEF Turns, InWrite
    <2>12. Requests'
      BY <1>5, <1>6, <1>7, <1>9, <1>10, <2>3, <2>6, <2>7, RequestsKept DEF Grows
    <2>13. Writes'
      <3>1. ASSUME NEW w \in Writers, w # r, req[w] # Idle, req[w].op = "verified",
                   stage[w].at \in {"sync", "ok"}
            PROVE  HasEvent(log'[req[w].task], req[w])
        BY <1>7, <1>8, <1>9, <2>6, <2>7, <2>10, <3>1, WriteKept DEF InWrite
      <3> QED
        BY <1>5, <1>6, <1>8, <1>9, <2>4, <2>10, <3>1 DEF Writes, InWrite
    <2>14. Acks'
      BY <1>4, <1>7, <2>6, <2>7, AcksKept DEF Acks
    <2> QED
      BY <1>10, <2>6, <2>8, <2>9, <2>11, <2>12, <2>13, <2>14 DEF IInv
  <1>12. CASE ~Local
    <2>1. /\ draft' = [file |-> t, content |-> c] /\ mu' = r /\ local' = Len(heads)
          /\ stage' = [stage EXCEPT ![r] = Write("push", 1)]
          /\ UNCHANGED <<heads, log, holder, spent>>
      BY <1>4, <1>12 DEF Commit, FastForward
    <2>2. draft' \in Drafts /\ draft'.file = t /\ draft'.content = c
      BY <1>1, <1>3, <2>1 DEF Drafts
    <2>3. Write("push", 1) \in [at : Stages, attempt : 0..PushAttempts]
      BY DocsAssumption DEF Write, Stages
    <2>4. Types'
      BY <1>4, <1>5, <1>7, <2>1, <2>2, <2>3, DocsAssumption DEF Types
    <2>5. Grows
      BY <2>1, GrowsNothing
    <2>6. Streams'
      BY <1>7, <2>1, <2>4, <2>5, StreamsKept DEF Grows
    <2>7. DraftOK'
      BY <1>3, <2>1, <2>2 DEF DraftOK, StreamOK, Seen, LeaseSafe
    <2>8. stage'[r] = Write("push", 1) /\ \A w \in Writers \ {r} : stage'[w] = stage[w]
      BY <1>7, <2>1 DEF Types
    <2>9. Turns'
      BY <1>4, <1>5, <1>7, <1>8, <1>9, <2>1, <2>2, <2>8, ValuesAssumption
         DEF Turns, InWrite, Write, Drafts
    <2>10. Requests'
      BY <1>5, <1>6, <1>7, <1>9, <2>4, <2>5, RequestsKept
    <2>11. Writes'
      BY <1>5, <1>6, <1>7, <1>8, <1>9, <2>1, <2>2, <2>8
         DEF Writes, InWrite, Write
    <2>12. Acks'
      BY <1>4, <1>7, <2>1 DEF Acks
    <2> QED
      BY <1>10, <2>4, <2>6, <2>7, <2>9, <2>10, <2>11, <2>12 DEF IInv
  <1> QED
    BY <1>11, <1>12

\* A retry finds its event: a submission is the verified event of its stream.
LEMMA AppendExistingStep ==
    ASSUME IInv, NEW r \in Writers, AppendExisting(r) PROVE IInv'
  <1> DEFINE q == req[r]
             s == log[req[r].task]
             q2 == [req[r] EXCEPT !.pc = "writing"]
  <1>1. q \in Request /\ ReqOK(q) /\ q.pc = "append" /\ q.task \in Tasks
    BY Working DEF AppendExisting, At, Request
  <1>2. /\ mu = None /\ draft = None /\ req' = [req EXCEPT ![r] = q2]
        /\ stage' = [stage EXCEPT ![r] = Write("ok", 0)]
        /\ local' = Len(heads)
        /\ UNCHANGED <<heads, log, draft, mu, holder, spent, acks>>
    BY <1>1 DEF AppendExisting, NothingToCommit, FastForward, Goto, IInv, Types
  <1>3. q2 \in Request /\ q2.pc = "writing" /\ q2.task = q.task /\ q2.op = q.op
        /\ q2.by = q.by /\ q2.sha = q.sha /\ q2.head = q.head
        /\ q2.events = q.events /\ q2.lease = q.lease /\ q2.key = q.key
    BY <1>1 DEF Request, Pcs
  <1> HIDE DEF q2
  <1>4. ReqOK(q2)
    BY <1>1, <1>3 DEF ReqOK, Submission, Execution, KnowsStream, MayFollow
  <1>5. Types /\ Streams /\ Turns /\ Acks /\ Writes /\ Requests
    BY DEF IInv
  <1>6. ASSUME q.op = "verified" PROVE HasEvent(s, q2)
    <2>1. PICK i \in 1..Len(s) : SameIdentity(s[i], EventOf(r))
      BY DEF AppendExisting
    <2>2. s \in Seq(Recorded) /\ StreamOK(q.task, s)
      BY <1>1, <1>5 DEF Types, Streams
    <2>3. /\ s[i].type = "verified" /\ s[i].sha = q.sha /\ s[i].head = q.head
      BY <1>6, <2>1 DEF SameIdentity, EventOf, Link
    <2>4. i = 1
      <3>1. i \in 1..4 /\ s[i].type = EventTypes[i]
        <4>1. Len(s) <= 4 /\ \A j \in 1..Len(s) : s[j].type = EventTypes[j]
          BY <2>2, LegalTypes DEF StreamOK
        <4>2. Len(s) \in Nat
          BY <2>2
        <4> QED
          BY <4>1, <4>2
      <3> QED
        BY <2>3, <3>1, TypeAt
    <2>5. s # <<>> /\ s[1].by = NoHash
      BY <2>2, <2>4 DEF StreamOK
    <2>6. q.by = NoHash
      BY <1>1, <1>6 DEF ReqOK, Submission
    <2> QED
      BY <1>3, <1>6, <2>3, <2>4, <2>5, <2>6 DEF HasEvent
  <1> HIDE DEF q
  <1>7. \A w \in Writers : stage[w].at \notin InWrite
    BY <1>2, <1>5, ValuesAssumption DEF Turns
  <1>8. req'[r] = q2 /\ \A w \in Writers \ {r} : req'[w] = req[w]
    BY <1>2, <1>5 DEF Types
  <1>9. Write("ok", 0) \in [at : Stages, attempt : 0..PushAttempts]
    BY DocsAssumption DEF Write, Stages
  <1>10. stage'[r].at = "ok" /\ \A w \in Writers \ {r} : stage'[w] = stage[w]
    BY <1>2, <1>5 DEF Types, Write
  <1>11. Types'
    BY <1>2, <1>3, <1>5, <1>9 DEF Types
  <1>12. Grows
    BY <1>2, GrowsNothing
  <1>13. Streams' /\ LeasesUnique'
    BY <1>2, <1>5, <1>11, <1>12, StreamsKept DEF Grows, IInv, LeasesUnique
  <1>14. DraftOK'
    BY <1>2, ValuesAssumption DEF DraftOK, Drafts
  <1>15. Turns'
    BY <1>2, <1>3, <1>5, <1>8, <1>10 DEF Turns, InWrite
  <1>16. Requests'
    BY <1>3, <1>4, <1>5, <1>8, <1>11, <1>12, RequestsKept
  <1>17. Writes'
    BY <1>2, <1>3, <1>5, <1>6, <1>7, <1>8, <1>10 DEF Writes, InWrite, q
  <1>18. Acks'
    BY <1>2, <1>5 DEF Acks
  <1> QED
    BY <1>11, <1>13, <1>14, <1>15, <1>16, <1>17, <1>18 DEF IInv

\* A push that the remote takes puts the service's commit on the branch: the
\* stream that was there is a beginning of the one that is there now.
LEMMA PublishStep ==
    ASSUME IInv, NEW r \in Writers, stage[r].at = "push", mu = r, Publish,
           UNCHANGED <<req, holder, spent, acks>>,
           stage' \in [Writers -> [at : Stages, attempt : 0..PushAttempts]],
           mu' \in Writers \cup {None}, Turns',
           \A w \in Writers \ {r} : stage'[w] = stage[w]
    PROVE  IInv'
  <1>1. Types /\ Streams /\ LeasesUnique /\ Turns /\ Acks /\ Writes /\ Requests /\ DraftOK
    BY DEF IInv
  <1>2. draft \in {None} \cup Drafts
    BY <1>1, ValuesAssumption DEF Turns, Types
  <1>3. local = Len(heads) /\ draft' = None
    BY DEF Publish
  <1>4. LeasesUnique' /\ LeasesMove
    BY <1>1 DEF LeasesUnique, LeasesMove
  <1>5. /\ heads' \in Seq([Docs -> Versions \cup {NoHash}]) /\ HeadsGrow
        /\ Len(heads') \in 1..MaxHeads /\ local' \in 1..Len(heads')
    <2>1. CASE draft = None
      BY <1>1, <2>1, PrefixReflexive DEF Publish, Types, HeadsGrow
    <2>2. CASE draft # None
      <3>1. Last(heads) \in [Docs -> Versions \cup {NoHash}] /\ Len(heads) \in 1..MaxHeads
        BY <1>1 DEF Types, Last
      <3>2. heads' = Append(heads, Last(heads)) /\ local' = Len(heads) + 1
            /\ Len(heads) < MaxHeads
        BY <2>2 DEF Publish
      <3>3. heads' \in Seq([Docs -> Versions \cup {NoHash}])
            /\ Len(heads') = Len(heads) + 1 /\ HeadsGrow
        BY <1>1, <3>1, <3>2, AppendPrefix DEF HeadsGrow, Types
      <3> QED
        BY <3>1, <3>2, <3>3, DocsAssumption
    <2> QED
      BY <2>1, <2>2
  <1>6. \/ draft = None /\ log' = log
        \/ /\ draft \in Drafts /\ draft.file \in Tasks /\ draft.content \in Seq(Recorded)
           /\ log' = [log EXCEPT ![draft.file] = draft.content]
           /\ StreamOK(draft.file, draft.content)
           /\ Prefix(log[draft.file], draft.content)
    BY <1>1, <1>2, ValuesAssumption DEF Publish, Drafts, DraftOK
  <1>7. log' \in [Tasks -> Seq(Recorded)] /\ LogGrows
    BY <1>1, <1>6, PrefixReflexive DEF Types, LogGrows
  <1>8. Types'
    BY <1>1, <1>3, <1>5, <1>7 DEF Types
  <1>9. Streams'
    <2>1. ASSUME NEW u \in Tasks, NEW s, s = log'[u] PROVE StreamOK(u, s)'
      <3>1. s \in Seq(Recorded) /\ StreamOK(u, s)
        BY <1>1, <1>6, <2>1 DEF Types, Streams
      <3> QED
        BY <1>1, <1>4, <1>5, <1>8, <3>1, StreamKept
    <2> QED
      BY <2>1 DEF Streams, StreamOK, Seen, LeaseSafe
  <1>10. DraftOK'
    BY <1>3, ValuesAssumption DEF DraftOK, Drafts
  <1>11. Requests'
    BY <1>1, <1>4, <1>5, <1>7, <1>8, RequestsKept DEF Grows
  <1>12. Acks'
    BY <1>1, <1>7, <1>8, AcksKept DEF Acks
  <1>13. Writes'
    <2>1. ASSUME NEW w \in Writers, req[w] # Idle, req[w].op = "verified", w # r
          PROVE  /\ stage'[w].at \in {"sync", "ok"} => HasEvent(log'[req[w].task], req[w])
                 /\ stage'[w].at \notin {"push", "rebase"}
      <3>1. stage[w].at \notin InWrite /\ stage'[w] = stage[w]
        BY <1>1, <2>1 DEF Turns
      <3> QED
        BY <1>1, <1>7, <1>8, <2>1, <3>1, WriteKept DEF InWrite
    <2>2. ASSUME req[r] # Idle, req[r].op = "verified"
          PROVE  HasEvent(log'[req[r].task], req[r])
      <3>1. req[r].task \in Tasks
        BY <1>1, <2>2 DEF Types, Request
      <3>2. CASE HasEvent(log[req[r].task], req[r])
        BY <1>1, <1>7, <1>8, <3>1, <3>2, HasEventKept DEF Types, LogGrows
      <3>3. CASE /\ draft \in Drafts /\ draft.file = req[r].task
                 /\ HasEvent(draft.content, req[r])
        BY <1>1, <1>6, <3>1, <3>3, ValuesAssumption DEF Types, Drafts
      <3> QED
        BY <1>1, <2>2, <3>2, <3>3 DEF Writes
    <2> QED
      BY <2>1, <2>2 DEF Writes
  <1> QED
    BY <1>4, <1>8, <1>9, <1>10, <1>11, <1>12, <1>13 DEF IInv

\* Who holds the mutex after a step of its holder.
LEMMA TurnsStep ==
    ASSUME IInv, NEW r \in Writers, stage[r].at \in InWrite,
           stage' \in [Writers -> [at : Stages, attempt : 0..PushAttempts]],
           \A w \in Writers \ {r} : stage'[w] = stage[w],
           req' = req, draft' \in {draft, None},
           \/ stage'[r].at \in InWrite /\ mu' = r
           \/ stage'[r].at \notin InWrite /\ mu' = None,
           stage'[r].at = "rebase" => stage'[r].attempt < PushAttempts
    PROVE  Turns' /\ mu = r /\ mu' \in Writers \cup {None}
  <1>1. Turns /\ mu = r /\ r # None /\ req[r].pc = "writing"
    BY ValuesAssumption DEF IInv, Turns, InWrite
  <1>2. \A w \in Writers \ {r} : stage'[w].at \notin InWrite
    BY <1>1 DEF Turns
  <1> QED
    BY <1>1, <1>2, ValuesAssumption DEF Turns, InWrite

\* A step of a write that leaves the branch and the commit alone.
LEMMA WaitStep ==
    ASSUME IInv, NEW r \in Writers, Turns',
           stage' \in [Writers -> [at : Stages, attempt : 0..PushAttempts]],
           \A w \in Writers \ {r} : stage'[w] = stage[w],
           mu' \in Writers \cup {None}, local' \in 1..Len(heads),
           UNCHANGED <<heads, log, draft, req, holder, spent, acks>>,
           \/ stage[r].at \in {"push", "rebase"} /\ stage'[r].at \in {"push", "rebase", "error"}
           \/ stage[r].at = "sync" /\ stage'[r].at \in {"ok", "error"}
    PROVE  IInv'
  <1>1. Types /\ Streams /\ DraftOK /\ Requests /\ Writes /\ Acks
    BY DEF IInv
  <1>2. Types'
    BY <1>1 DEF Types
  <1>3. Grows
    BY GrowsNothing
  <1>4. Streams' /\ DraftOK' /\ Requests'
    BY <1>1, <1>2, <1>3, StreamsKept, DraftKept, RequestsKept DEF Grows
  <1>5. LeasesUnique' /\ Acks'
    BY <1>1 DEF IInv, LeasesUnique, Acks
  <1>6. Writes'
    BY <1>1 DEF Writes
  <1> QED
    BY <1>2, <1>4, <1>5, <1>6 DEF IInv

\* A step of a write keeps the invariant: a push that the remote took, answered or
\* not, publishes the commit; everything else leaves the branch alone.
LEMMA WritingStep == ASSUME IInv, NEW r \in Writers, Writing(r) PROVE IInv'
  <1> DEFINE St == [at : Stages, attempt : 0..PushAttempts]
  <1>1. WriteStep(r) /\ UNCHANGED <<req, holder, spent, acks>>
    BY DEF Writing, taskVars
  <1>2. stage \in [Writers -> St] /\ local \in 1..Len(heads) /\ Len(heads) \in 1..Len(heads)
        /\ mu \in Writers \cup {None}
    BY DEF IInv, Types
  <1>3. stage[r] \in St /\ stage[r].attempt \in 0..PushAttempts /\ PushAttempts \in Nat
    BY <1>2, DocsAssumption
  <1>4. ASSUME FailPush(r), stage[r].at = "push"
        PROVE  /\ stage' \in [Writers -> St] /\ \A w \in Writers \ {r} : stage'[w] = stage[w]
               /\ stage'[r].at \in {"rebase", "error"}
               /\ stage'[r].at = "rebase" => stage'[r].attempt < PushAttempts
               /\ IF stage'[r].at = "rebase" THEN mu' = r ELSE mu' = None
    <2> DEFINE next == AfterFailedPush(stage[r].attempt)
    <2>1. /\ next \in {"rebase", "error"}
          /\ next = "rebase" => stage[r].attempt < PushAttempts
      BY DEF AfterFailedPush
    <2>2. stage' = [stage EXCEPT ![r].at = next] /\ mu' = IF next = "rebase" THEN r ELSE None
      BY <1>4 DEF FailPush
    <2> HIDE DEF next
    <2>3. /\ stage'[r].at = next /\ stage'[r].attempt = stage[r].attempt
          /\ \A w \in Writers \ {r} : stage'[w] = stage[w]
      BY <1>2, <1>3, <2>2
    <2>4. stage' \in [Writers -> St]
      BY <1>2, <1>3, <2>1, <2>2 DEF Stages
    <2> QED
      BY <2>1, <2>2, <2>3, <2>4
  <1>5. ASSUME NEW a \in Stages, stage' = [stage EXCEPT ![r].at = a]
        PROVE  /\ stage' \in [Writers -> St] /\ \A w \in Writers \ {r} : stage'[w] = stage[w]
               /\ stage'[r].at = a
    BY <1>2, <1>3, <1>5
  <1>6. CASE PushOk(r)
    <2>1. /\ stage' = [stage EXCEPT ![r].at = "sync"] /\ stage[r].at = "push"
          /\ mu' = mu /\ Publish /\ draft' = None
      BY <1>6 DEF PushOk, Publish
    <2>2. /\ stage' \in [Writers -> St] /\ \A w \in Writers \ {r} : stage'[w] = stage[w]
          /\ stage'[r].at = "sync"
      BY <1>5, <2>1 DEF Stages
    <2>3. mu = r
      BY <2>1 DEF IInv, Turns, InWrite
    <2>4. Turns'
      BY <1>1, <2>1, <2>2, <2>3, TurnsStep DEF InWrite
    <2> QED
      BY <1>1, <1>2, <2>1, <2>2, <2>3, <2>4, PublishStep
  <1>7. CASE PushUnanswered(r)
    <2>1. stage[r].at = "push" /\ Publish /\ FailPush(r) /\ draft' = None
      BY <1>7 DEF PushUnanswered, Publish
    <2>2. Turns' /\ mu = r /\ mu' \in Writers \cup {None}
      BY <1>1, <1>4, <2>1, TurnsStep DEF InWrite
    <2> QED
      BY <1>1, <1>4, <2>1, <2>2, PublishStep
  <1>8. CASE PushRejected(r)
    <2>1. stage[r].at = "push" /\ FailPush(r) /\ UNCHANGED <<heads, log, local, draft>>
      BY <1>8 DEF PushRejected
    <2>2. Turns' /\ mu' \in Writers \cup {None}
      BY <1>1, <1>4, <2>1, TurnsStep DEF InWrite
    <2> QED
      BY <1>1, <1>2, <1>4, <2>1, <2>2, WaitStep
  <1>9. CASE Rebase(r)
    <2>1. /\ stage[r].at = "rebase" /\ local' = Len(heads)
          /\ stage' = [stage EXCEPT ![r] = Write("push", stage[r].attempt + 1)]
          /\ UNCHANGED <<heads, log, draft, mu>>
      BY <1>9 DEF Rebase, FastForward
    <2>2. stage[r].attempt < PushAttempts /\ mu = r
      BY <2>1 DEF IInv, Turns, InWrite
    <2>3. Write("push", stage[r].attempt + 1) \in St
      BY <1>3, <2>2 DEF Write, Stages
    <2>4. /\ stage' \in [Writers -> St] /\ \A w \in Writers \ {r} : stage'[w] = stage[w]
          /\ stage'[r].at = "push"
      BY <1>2, <2>1, <2>3 DEF Write
    <2>5. Turns'
      BY <1>1, <2>1, <2>2, <2>4, TurnsStep DEF InWrite
    <2> QED
      BY <1>1, <1>2, <2>1, <2>4, <2>5, WaitStep
  <1>10. CASE RebaseFails(r)
    <2>1. /\ stage[r].at = "rebase" /\ stage' = [stage EXCEPT ![r].at = "error"]
          /\ mu' = None /\ UNCHANGED <<heads, log, local, draft>>
      BY <1>10 DEF RebaseFails
    <2>2. /\ stage' \in [Writers -> St] /\ \A w \in Writers \ {r} : stage'[w] = stage[w]
          /\ stage'[r].at = "error"
      BY <1>5, <2>1 DEF Stages
    <2>3. Turns'
      BY <1>1, <2>1, <2>2, TurnsStep DEF InWrite
    <2> QED
      BY <1>1, <1>2, <2>1, <2>2, <2>3, WaitStep
  <1>11. CASE ConfirmSync(r) \/ SyncUnanswered(r)
    <2>1. PICK a \in {"ok", "error"} :
            /\ stage[r].at = "sync" /\ stage' = [stage EXCEPT ![r].at = a]
            /\ mu' = None /\ UNCHANGED <<heads, log, local, draft>>
      BY <1>11 DEF ConfirmSync, SyncUnanswered
    <2>2. /\ stage' \in [Writers -> St] /\ \A w \in Writers \ {r} : stage'[w] = stage[w]
          /\ stage'[r].at = a
      BY <1>5, <2>1 DEF Stages
    <2>3. Turns'
      BY <1>1, <2>1, <2>2, TurnsStep DEF InWrite
    <2> QED
      BY <1>1, <1>2, <2>1, <2>2, <2>3, WaitStep
  <1> QED
    BY <1>1, <1>6, <1>7, <1>8, <1>9, <1>10, <1>11 DEF WriteStep

\* A write is over: a submission is answered from its outcome.
LEMMA WrittenStep == ASSUME IInv, NEW r \in Writers, Written(r) PROVE IInv'
  <1> DEFINE q2 == [req[r] EXCEPT !.pc = "reread"]
  <1>1. req[r] \in Request /\ ReqOK(req[r]) /\ req[r].pc = "writing" /\ req[r] # Idle
    BY Working DEF Written, At
  <1>2. Types /\ Turns /\ Streams /\ DraftOK /\ Requests /\ Writes /\ Acks
    BY DEF IInv
  <1>3. /\ stage' = [stage EXCEPT ![r] = Write("idle", 0)]
        /\ stage[r].at \in {"ok", "error"}
        /\ UNCHANGED <<heads, log, local, draft, mu, holder, spent>>
    BY DEF Written
  <1>4. \/ /\ req' = [req EXCEPT ![r] = Idle]
           /\ \/ acks' = acks
              \/ /\ acks' = acks \cup {Ack(r)}
                 /\ stage[r].at = "ok" /\ req[r].op = "verified"
        \/ /\ req[r].op # "verified" /\ acks' = acks
           /\ req' = [req EXCEPT ![r] = q2]
    BY <1>1, <1>2 DEF Written, End, Goto, Types
  <1>5. Write("idle", 0) \in [at : Stages, attempt : 0..PushAttempts]
    BY DocsAssumption DEF Write, Stages
  <1>6. stage'[r].at = "idle" /\ \A w \in Writers \ {r} : stage'[w] = stage[w]
    BY <1>2, <1>3 DEF Types, Write
  <1>7. q2 \in Request /\ (req[r].op # "verified" => ReqOK(q2))
    BY <1>1 DEF Request, Pcs, ReqOK, Execution, KnowsStream, MayFollow
  <1> HIDE DEF q2
  <1>8. req'[r] \in {Idle, q2} /\ \A w \in Writers \ {r} : req'[w] = req[w]
    BY <1>2, <1>4 DEF Types
  <1>9. Types'
    BY <1>2, <1>3, <1>4, <1>5, <1>7 DEF Types
  <1>10. Turns'
    BY <1>2, <1>3, <1>6, <1>8, ValuesAssumption DEF Turns, InWrite, Types
  <1>11. Grows
    BY <1>3, GrowsNothing
  <1>12. Streams' /\ DraftOK' /\ LeasesUnique'
    BY <1>2, <1>3, <1>9, <1>11, StreamsKept, DraftKept
       DEF Grows, IInv, LeasesUnique
  <1>13. \A w \in Writers : \A x : x = req'[w] /\ x # Idle /\ x # req[w] => x \in Request /\ ReqOK(x)
    BY <1>2, <1>4, <1>7, <1>8 DEF Types
  <1>14. Requests'
    BY <1>2, <1>9, <1>11, <1>13, RequestsKept
  <1>15. Writes'
    BY <1>2, <1>3, <1>6, <1>8 DEF Writes
  <1>16. Acks'
    <2>1. stage[r].at = "ok" /\ req[r].op = "verified" => HasEvent(log[req[r].task], req[r])
      BY <1>1, <1>2 DEF Writes
    <2>2. HasEvent(log[req[r].task], req[r]) => HasEvent(log[req[r].task], Ack(r))
      BY DEF HasEvent, Ack
    <2>3. Ack(r).task = req[r].task /\ req[r].task \in Tasks
      BY <1>1 DEF Ack, Request
    <2> QED
      BY <1>2, <1>3, <1>4, <2>1, <2>2, <2>3 DEF Acks
  <1> QED
    BY <1>9, <1>10, <1>12, <1>14, <1>15, <1>16 DEF IInv

-----------------------------------------------------------------------------
(* The invariant.                                                           *)

\* The streams a run starts with are legal, nobody asks and nothing is held.
LEMMA InvInit == Init => IInv
  <1> SUFFICES ASSUME Init PROVE IInv
    OBVIOUS
  <1>1. /\ heads = SeedHeads /\ log \in SeedLogs /\ local = Len(heads)
        /\ draft = None /\ mu = None /\ acks = {} /\ spent = {}
        /\ stage = [w \in Writers |-> Write("idle", 0)]
        /\ req = [w \in Writers |-> Idle]
        /\ holder = [k \in Targets |-> None]
    BY DEF Init, DocsInit, Leases!AbsInit
  <1>2. Write("idle", 0) \in [at : Stages, attempt : 0..PushAttempts]
    BY DocsAssumption DEF Write, Stages
  <1>3. Types
    BY <1>1, <1>2, SeedAssumption DEF Types
  <1>4. Turns /\ LeasesUnique /\ DraftOK /\ Requests /\ Writes /\ Acks
    BY <1>1, ValuesAssumption
       DEF Turns, LeasesUnique, DraftOK, Drafts, Requests, Writes, Acks, Write, InWrite
  <1>5. Streams
    BY <1>1, SeedAssumption DEF Streams, StreamOK, Seen
  <1> QED
    BY <1>3, <1>4, <1>5 DEF IInv

\* The invariant is inductive: every action of Next keeps it.
LEMMA InvStep == IInv /\ [Next]_allVars => IInv'
  <1> SUFFICES ASSUME IInv, [Next]_allVars PROVE IInv'
    OBVIOUS
  <1>1. ASSUME Arrive PROVE IInv'
    BY <1>1, SubmitStep, ExecuteStep DEF Arrive
  <1>2. ASSUME NEW r \in Writers, Step(r) PROVE IInv'
    BY <1>2, SubmitRefreshStep, SubmitProposalStep, SubmitGraphStep,
       SubmitEventsStep, ReadLifecycleStep, ProposalMatchesStep,
       ReadDependenciesStep, CheckDependenciesStep, DecideStep, CheckLeaseStep,
       AppendEventStep, AppendExistingStep, WritingStep, WrittenStep, RereadStep
       DEF Step
  <1>3. ASSUME NEW r \in Writers, Refused(r) PROVE IInv'
    BY <1>3, RefusedStep
  <1>4. ASSUME NEW k \in Targets, NEW a \in Agents, NEW l \in LeaseIds,
               GrantLease(k, a, l)
        PROVE  IInv'
    BY <1>4, GrantLeaseStep
  <1>5. ASSUME NEW k \in Targets, LapseLease(k) PROVE IInv'
    BY <1>5, LapseLeaseStep
  <1>6. ASSUME NEW left \in {None, Dirty}, Crash(left) PROVE IInv'
    BY <1>6, CrashStep
  <1>7. CASE Agent \/ Operator
    BY <1>7, AgentStep, OperatorStep
  <1>8. CASE UNCHANGED allVars
    BY <1>8
       DEF allVars, docsVars, taskVars, IInv, Types, Turns, LeasesUnique, Streams,
           StreamOK, Seen, LeaseSafe, DraftOK, Requests, ReqOK, Submission,
           Execution, KnowsStream, MayFollow, Writes, Acks
  <1> QED
    BY <1>1, <1>2, <1>3, <1>4, <1>5, <1>6, <1>7, <1>8 DEF Next

\* The types hold, and no way out of a write leaves the docs-repo mutex to a
\* request that is over.
THEOREM TypeCorrect == Spec => []TypeOK
  <1>1. IInv => TypeOK
    <2> SUFFICES ASSUME IInv PROVE TypeOK
      OBVIOUS
    <2>1. MutexOwned
      BY DEF IInv, Types, Turns, MutexOwned, At, InWrite, Stages
    <2>2. \A t \in Tasks : \A i \in 1..Len(log[t]) : Hash(log[t][i]) \in Event
      <3>1. ASSUME NEW t \in Tasks, NEW i \in 1..Len(log[t])
            PROVE  Hash(log[t][i]) \in Event
        <4>1. log[t][i] \in Recorded
          BY DEF IInv, Types
        <4> QED
          BY <4>1 DEF Recorded, Event, Hash
      <3> QED
        BY <3>1
    <2>3. draft \in {None, Dirty} \/ draft.file \in Tasks
      BY DEF IInv, Types, Drafts
    <2>4. local \in 1..Len(heads) /\ Len(heads) <= MaxHeads /\ mu \in Writers \cup {None}
      BY DocsAssumption DEF IInv, Types
    <2>5. \A w \in Writers : stage[w].at \in Stages /\ stage[w].attempt \in 0..PushAttempts
      BY DEF IInv, Types
    <2>6. \A w \in Writers : req[w] = Idle \/ (req[w].op \in Ops /\ req[w].task \in Tasks)
      BY DEF IInv, Types, Request
    <2> QED
      BY <2>1, <2>2, <2>3, <2>4, <2>5, <2>6 DEF TypeOK
  <1> QED
    BY <1>1, InvInit, InvStep, PTL DEF Spec

\* Whatever requests race, push attempts fail and processes crash, the stream of
\* every task on the branch is a hash chain of the four types, in order, for one
\* proposal and one head.
THEOREM StreamsLegal == Spec => []ChainsLegal
  <1>1. IInv => ChainsLegal
    <2> SUFFICES ASSUME IInv, NEW t \in Tasks, NEW i \in 1..Len(log[t])
                 PROVE  /\ log[t][i].type = EventTypes[i] /\ log[t][i].seq = i
                        /\ log[t][i].sha = log[t][1].sha
                        /\ log[t][i].head = log[t][1].head
                        /\ i > 1 => log[t][i].prev = Hash(log[t][i - 1])
      BY DEF ChainsLegal
    <2>1. log[t] \in Seq(Recorded) /\ ValidateLifecycleChain(log[t])
      BY DEF IInv, Types, Streams, StreamOK
    <2>2. log[t][i].type = EventTypes[i]
      BY <2>1, LegalTypes
    <2> QED
      BY <2>1, <2>2 DEF ValidateLifecycleChain
  <1> QED
    BY <1>1, InvInit, InvStep, PTL DEF Spec

\* Of two agents that claim a task at once at most one is told it has it, and no
\* answer rests on a commit that was not pushed: every success answered is an
\* event on the branch, as that agent's own.
THEOREM AcksDurable == Spec => []AckedIsDurable
  <1>1. IInv => AckedIsDurable
    BY DEF IInv, Acks, HasEvent, AckedIsDurable
  <1> QED
    BY <1>1, InvInit, InvStep, PTL DEF Spec

\* What an event says of its proposal stays true: the version that was verified
\* was on the branch at the advertised commit or later.
THEOREM VerifiedOnBranch == Spec => []VerifiedSeen
  <1>1. IInv => VerifiedSeen
    BY DEF IInv, Streams, StreamOK, Seen, VerifiedSeen
  <1> QED
    BY <1>1, InvInit, InvStep, PTL DEF Spec

\* ... and so does what it says of its executor, who claimed the task, and of
\* its lease, which is never another agent's, although the service read them
\* several store calls before the event was committed and pushed.
THEOREM EventsStayBound == Spec => []EventsBound
  <1>1. IInv => ExecutorContinuity
    BY DEF IInv, Streams, StreamOK, ExecutorContinuity
  <1>2. IInv => VerifiedSeen
    BY DEF IInv, Streams, StreamOK, Seen, VerifiedSeen
  <1>3. IInv => CompletionLeased
    BY DEF IInv, Streams, StreamOK, LeaseSafe, CompletionLeased
  <1>4. IInv => EventsBound
    BY <1>1, <1>2, <1>3 DEF EventsBound
  <1> QED
    BY <1>4, InvInit, InvStep, PTL DEF Spec

-----------------------------------------------------------------------------
(* Streams only grow.                                                       *)

\* What happens around the requests leaves the streams alone; only agents add
\* commits.
LEMMA AroundKeeps ==
    ASSUME [Next]_allVars, ~\E r \in Writers : Step(r) \/ Refused(r)
    PROVE  /\ log' = log /\ draft' \in {draft, None, Dirty}
           /\ heads' = heads \/ Agent
  <1>1. CASE Arrive
    BY <1>1 DEF Arrive, Submit, Execute, docsVars
  <1>2. CASE \E k \in Targets, a \in Agents, l \in LeaseIds : GrantLease(k, a, l)
    BY <1>2 DEF GrantLease, docsVars
  <1>3. CASE \E k \in Targets : LapseLease(k)
    BY <1>3 DEF LapseLease, docsVars
  <1>4. CASE \E left \in {None, Dirty} : Crash(left)
    BY <1>4 DEF Crash
  <1>5. CASE Agent
    BY <1>5 DEF Agent, AgentPush
  <1>6. CASE Operator
    BY <1>6 DEF Operator, OperatorReset
  <1>7. CASE UNCHANGED allVars
    BY <1>7 DEF allVars, docsVars
  <1> QED
    BY <1>1, <1>2, <1>3, <1>4, <1>5, <1>6, <1>7 DEF Next

\* Every stream is a beginning of what it is after any step.
LEMMA LogStep == ASSUME IInv, [Next]_allVars PROVE LogGrows
  <1>1. CASE log' = log
    BY <1>1, PrefixReflexive DEF LogGrows
  <1>2. ASSUME NEW r \in Writers, AppendEvent(r), log' # log PROVE LogGrows
    <2> DEFINE t == req[r].task
               c == Append(log[t], EventOf(r))
    <2>1. t \in Tasks /\ At(r, "append")
      BY <1>2, Working DEF AppendEvent, At, Request
    <2>2. Prefix(log[t], c)
      BY <1>2, <2>1, EventFollows DEF AppendEvent
    <2>3. log' = [log EXCEPT ![t] = c]
      BY <1>2 DEF AppendEvent, Commit, NextEvents
    <2> QED
      BY <2>1, <2>2, <2>3, PrefixReflexive DEF LogGrows, IInv, Types
  <1>3. ASSUME NEW r \in Writers, stage[r].at = "push", Publish, log' # log
        PROVE  LogGrows
    <2>1. mu = r /\ r # None /\ draft # None /\ draft # Dirty
      BY <1>3, ValuesAssumption DEF IInv, Turns, InWrite, Publish
    <2>2. draft \in Drafts /\ Prefix(log[draft.file], draft.content)
      BY <2>1 DEF IInv, Types, DraftOK
    <2>3. log' = [log EXCEPT ![draft.file] = draft.content]
      BY <2>1, <1>3 DEF Publish
    <2> QED
      BY <2>2, <2>3, PrefixReflexive DEF LogGrows, IInv, Types, Drafts
  <1>4. ASSUME NEW r \in Writers, Step(r) \/ Refused(r), log' # log PROVE LogGrows
    <2>1. CASE AppendEvent(r)
      BY <1>2, <1>4, <2>1
    <2>2. CASE Writing(r)
      BY <1>3, <1>4, <2>2
         DEF Writing, WriteStep, PushOk, PushRejected, PushUnanswered, Rebase,
             RebaseFails, ConfirmSync, SyncUnanswered
    <2>3. CASE ~AppendEvent(r) /\ ~Writing(r)
      BY <1>4, <2>3
         DEF Step, Refused, SubmitRefresh, Refresh, SubmitProposal, SubmitGraph,
             SubmitEvents, ReadLifecycle, ProposalMatches, ReadDependencies,
             CheckDependencies, Decide, CheckLease, AppendExisting,
             NothingToCommit, Written, Reread, docsVars
    <2> QED
      BY <2>1, <2>2, <2>3
  <1> QED
    BY <1>1, <1>4, AroundKeeps

\* The events on the branch are never rewritten or dropped: not by a rebase, a
\* retry, a crash, a reset of the worktree or an agent.
THEOREM StreamsAppendOnly == Spec => LogAppendOnly
  <1>1. ASSUME IInv, IInv', [Next]_allVars, NEW t \in Tasks
        PROVE  /\ Len(log[t]) <= Len(log'[t])
               /\ SubSeq(log'[t], 1, Len(log[t])) = log[t]
    <2>1. log[t] \in Seq(Recorded) /\ log'[t] \in Seq(Recorded) /\ Prefix(log[t], log'[t])
      BY <1>1, LogStep DEF IInv, Types, LogGrows
    <2>2. ASSUME NEW s \in Seq(Recorded), NEW u \in Seq(Recorded), Prefix(s, u)
          PROVE  SubSeq(u, 1, Len(s)) = s
      <3>1. Len(s) \in Nat /\ Len(s) <= Len(u) /\ \A i \in 1..Len(s) : u[i] = s[i]
        BY <2>2 DEF Prefix
      <3>2. SubSeq(u, 1, Len(s)) \in Seq(Recorded) /\ Len(SubSeq(u, 1, Len(s))) = Len(s)
        BY <3>1
      <3>3. \A i \in 1..Len(s) : SubSeq(u, 1, Len(s))[i] = s[i]
        BY <3>1
      <3> QED
        BY <3>2, <3>3
    <2> QED
      BY <2>1, <2>2 DEF Prefix
  <1>2. IInv /\ IInv' /\ [Next]_allVars
        => [\A t \in Tasks : /\ Len(log[t]) <= Len(log'[t])
                             /\ SubSeq(log'[t], 1, Len(log[t])) = log[t]]_allVars
    BY <1>1
  <1> QED
    BY <1>2, InvInit, InvStep, PTL DEF Spec, LogAppendOnly

-----------------------------------------------------------------------------
(* Dependencies.                                                            *)

\* The dependencies are read once more after the proposal was compared: what
\* follows is about proposals that agents do not change in between, and about
\* streams that were within the rules when the run started.
FixedProposals ==
    \A t \in Tasks : t \in Editable => \A v \in Versions : DependsOn[t][v] = {}
SeedsMet ==
    \A logs \in SeedLogs : \A t \in Tasks :
        Len(logs[t]) >= 2 =>
        \A d \in DependsOn[t][logs[t][1].sha] : Len(logs[d]) = 4

\* The tasks that proposal v of t depends on are completed, which is final.
Met(t, v) == \A d \in DependsOn[t][v] : Len(log[d]) = 4

\* What a request for an execution knows of the dependencies.
KnowsMet(q) ==
    q.op # "verified" =>
        /\ q.pc = "deps" /\ q.task \notin Editable => DocAt(q.task) = q.sha
        /\ q.pc = "streams" => DependsOn[q.task][q.sha] \subseteq q.deps
        /\ q.pc \in {"decide", "lease", "append", "writing", "reread"}
              => Met(q.task, q.sha)

StreamMet(t, s) == Len(s) >= 2 => Met(t, s[1].sha)

DepsInv ==
    /\ \A w \in Writers : req[w] # Idle => KnowsMet(req[w])
    /\ \A t \in Tasks : StreamMet(t, log[t])
    /\ draft \in Drafts => StreamMet(draft.file, draft.content)

\* A step does not change the documents that agents leave alone.
DocsStay == \A t \in Tasks \ Editable : DocAt(t)' = DocAt(t)

\* Only an agent that changes its document appends a commit that differs.
LEMMA DocsStep == ASSUME IInv, [Next]_allVars PROVE DocsStay
  <1>1. /\ Len(heads) \in 1..MaxHeads
        /\ heads \in Seq([Docs -> Versions \cup {NoHash}])
    BY DEF IInv, Types
  <1>2. Last(heads) \in [Docs -> Versions \cup {NoHash}]
    BY <1>1 DEF Last
  <1>3. ASSUME NEW h, heads' = Append(heads, h),
               \A t \in Tasks \ Editable : h[t] = Last(heads)[t]
        PROVE  DocsStay
    <2>1. Len(heads') = Len(heads) + 1 /\ heads'[Len(heads) + 1] = h
      BY <1>1, <1>3
    <2> QED
      BY <1>3, <2>1 DEF DocsStay, DocAt, Last
  <1>4. ASSUME heads' = heads PROVE DocsStay
    BY <1>4 DEF DocsStay, DocAt
  <1>5. ASSUME NEW d \in Editable, NEW v \in Versions, AgentPush(d, v)
        PROVE  DocsStay
    <2> DEFINE h == [Last(heads) EXCEPT ![d] = v]
    <2>1. \A t \in Tasks \ Editable : h[t] = Last(heads)[t]
      BY <1>2, <1>5
    <2>2. heads' = Append(heads, h)
      BY <1>5 DEF AgentPush
    <2> QED
      BY <1>3, <2>1, <2>2
  <1>6. ASSUME NEW r \in Writers, Step(r) \/ Refused(r) PROVE DocsStay
    <2>1. heads' = heads \/ heads' = Append(heads, Last(heads))
      BY <1>6
         DEF Step, Refused, SubmitRefresh, Refresh, SubmitProposal, SubmitGraph,
             SubmitEvents, ReadLifecycle, ProposalMatches, ReadDependencies,
             CheckDependencies, Decide, CheckLease, AppendEvent, Commit,
             AppendExisting, NothingToCommit, Writing, WriteStep, PushOk,
             Publish, PushRejected, PushUnanswered, Rebase, RebaseFails,
             ConfirmSync, SyncUnanswered, Written, Reread, docsVars
    <2> QED
      BY <1>3, <1>4, <2>1
  <1>7. CASE Agent
    BY <1>5, <1>7 DEF Agent
  <1>8. CASE ~Agent /\ ~\E r \in Writers : Step(r) \/ Refused(r)
    <2>1. heads' = heads
      BY <1>8, AroundKeeps
    <2> QED
      BY <1>4, <2>1
  <1> QED
    BY <1>6, <1>7, <1>8

\* A legal stream has no room for an event after the completion.
LEMMA MetKept ==
    ASSUME IInv, IInv', LogGrows, NEW t \in Tasks, NEW v \in Versions, Met(t, v)
    PROVE  Met(t, v)'
  <1>1. ASSUME NEW d \in DependsOn[t][v] PROVE Len(log'[d]) = 4
    <2>1. d \in Tasks /\ Len(log[d]) = 4
      BY TaskAssumption DEF Met
    <2>2. \A s : s \in Seq(Recorded) /\ ValidateLifecycleChain(s)
                   => Len(s) <= 4 /\ Len(s) \in Nat
      BY LegalTypes
    <2>3. log'[d] \in Seq(Recorded) /\ ValidateLifecycleChain(log'[d])
      BY <2>1 DEF IInv, Types, Streams, StreamOK
    <2>4. Len(log'[d]) <= 4 /\ Len(log'[d]) \in Nat
      BY <2>2, <2>3
    <2>5. Len(log[d]) <= Len(log'[d])
      BY <2>1 DEF LogGrows, Prefix
    <2>6. \A m, n \in Nat : m = 4 /\ m <= n /\ n <= 4 => n = 4
      OBVIOUS
    <2>7. Len(log[d]) \in Nat
      BY <2>1
    <2> QED
      BY <2>1, <2>4, <2>5, <2>6, <2>7
  <1> QED
    BY <1>1 DEF Met

\* A completed task is one whose stream has all four events.
LEMMA CompletedMeans ==
    ASSUME IInv, NEW d \in Tasks
    PROVE  TaskStatusOf(log[d]).state = "completed" <=> Len(log[d]) = 4
  <1>1. log[d] \in Seq(Recorded) /\ ValidateLifecycleChain(log[d])
    BY DEF IInv, Types, Streams, StreamOK
  <1>2. CASE log[d] = <<>>
    BY <1>2 DEF TaskStatusOf
  <1>3. CASE log[d] # <<>>
    <2>1. Len(log[d]) \in 1..4 /\ TaskStatusOf(log[d]).state = EventTypes[Len(log[d])]
      BY <1>1, <1>3, StatusOfLegal
    <2> QED
      BY <2>1, TypeAt
  <1> QED
    BY <1>2, <1>3

\* What a request knows of the dependencies stays true.
LEMMA KnowsMetKept ==
    ASSUME IInv, IInv', LogGrows, DocsStay, NEW q \in Request, KnowsMet(q),
           q.op # "verified" => q.sha \in Versions
    PROVE  KnowsMet(q)'
  <1>1. q.task \in Tasks
    BY DEF Request
  <1>2. q.op # "verified" /\ Met(q.task, q.sha) => Met(q.task, q.sha)'
    BY <1>1, MetKept
  <1>3. q.task \notin Editable => DocAt(q.task)' = DocAt(q.task)
    BY <1>1 DEF DocsStay
  <1> QED
    BY <1>2, <1>3 DEF KnowsMet

\* So does what is known of the dependencies of a stream.
LEMMA StreamMetKept ==
    ASSUME IInv, IInv', LogGrows, NEW t \in Tasks, NEW s \in Seq(Recorded),
           StreamMet(t, s)
    PROVE  StreamMet(t, s)'
  <1>1. ASSUME Len(s) >= 2 PROVE Met(t, s[1].sha)'
    <2>1. s[1] \in Recorded
      BY <1>1
    <2> QED
      BY <1>1, <2>1, MetKept DEF StreamMet, Recorded
  <1> QED
    BY <1>1 DEF StreamMet

\* The dependencies that a request reads are those of the proposal it is about.
LEMMA ReadDependenciesMet ==
    ASSUME IInv, DepsInv, FixedProposals, NEW r \in Writers, ReadDependencies(r),
           NEW q, q = req'[r]
    PROVE  KnowsMet(q)
  <1> DEFINE t == req[r].task
             D == DepsAt(t)
  <1>1. req[r] \in Request /\ ReqOK(req[r]) /\ req[r].pc = "deps" /\ KnowsMet(req[r])
    BY Working DEF ReadDependencies, At, DepsInv
  <1>2. /\ req[r].op # "verified" /\ t \in Tasks /\ req[r].sha \in Versions
        /\ DocAt(t) # NoHash
    BY <1>1 DEF ReqOK, Submission, Execution, Request, ReadDependencies
  <1>3. q = [req[r] EXCEPT !.deps = D, !.pc = IF D = {} THEN "decide" ELSE "streams"]
    BY <1>1 DEF ReadDependencies, IInv, Types
  <1>4. DependsOn[t][req[r].sha] \subseteq D
    <2>1. CASE t \in Editable
      BY <1>2, <2>1 DEF FixedProposals
    <2>2. CASE t \notin Editable
      BY <1>1, <1>2, <2>2 DEF KnowsMet, DepsAt
    <2> QED
      BY <2>1, <2>2
  <1> HIDE DEF D
  <1>5. /\ q.deps = D /\ q.task = t /\ q.sha = req[r].sha /\ q.op = req[r].op
        /\ q.pc = IF D = {} THEN "decide" ELSE "streams"
    BY <1>1, <1>3 DEF Request
  <1> QED
    BY <1>4, <1>5 DEF KnowsMet, Met

\* When every stream it reads is at its end, its dependencies are completed.
LEMMA CheckDependenciesMet ==
    ASSUME IInv, DepsInv, NEW r \in Writers, CheckDependencies(r), NEW q, q = req'[r]
    PROVE  KnowsMet(q)
  <1>1. req[r] \in Request /\ ReqOK(req[r]) /\ req[r].pc = "streams" /\ KnowsMet(req[r])
    BY Working DEF CheckDependencies, At, DepsInv
  <1>2. req[r].op # "verified" /\ req[r].deps \subseteq Tasks
    BY <1>1 DEF ReqOK, Submission, Request
  <1>3. \A d \in req[r].deps : Len(log[d]) = 4
    BY <1>2, CompletedMeans DEF CheckDependencies, DependencyMet
  <1>4. Met(req[r].task, req[r].sha)
    BY <1>1, <1>2, <1>3 DEF KnowsMet, Met
  <1>5. q.task = req[r].task /\ q.sha = req[r].sha /\ q.pc = "decide"
    BY <1>1 DEF CheckDependencies, Goto, IInv, Types, Request
  <1> QED
    BY <1>4, <1>5 DEF KnowsMet

\* A request that changes knows of its dependencies what it has to.
LEMMA RequestMet ==
    ASSUME IInv, DepsInv, FixedProposals, [Next]_allVars, NEW w \in Writers,
           NEW q, q = req'[w], q # Idle, q # req[w]
    PROVE  KnowsMet(q)
  <1>1. CASE Arrive
    BY <1>1 DEF Arrive, Submit, Execute, KnowsMet, IInv, Types
  <1>2. ASSUME NEW r \in Writers, Step(r) \/ Refused(r) PROVE KnowsMet(q)
    <2>1. r = w /\ req[r].pc # "idle"
      BY <1>2
         DEF Step, Refused, SubmitRefresh, SubmitProposal, SubmitGraph, SubmitEvents,
             ReadLifecycle, ProposalMatches, ReadDependencies, CheckDependencies,
             Decide, CheckLease, AppendEvent, AppendExisting, Writing, Written,
             Reread, Goto, End, At, IInv, Types, taskVars
    <2>2. /\ req[w] \in Request /\ ReqOK(req[w]) /\ KnowsMet(req[w])
      BY <2>1, Working DEF DepsInv
    <2>3. CASE SubmitRefresh(w) \/ SubmitProposal(w) \/ SubmitGraph(w) \/ SubmitEvents(w)
      <3>1. req[w].op = "verified"
        BY <2>2, <2>3
           DEF SubmitRefresh, SubmitProposal, SubmitGraph, SubmitEvents, At,
               ReqOK, Execution
      <3>2. q.op = req[w].op
        BY <2>2, <2>3
           DEF SubmitRefresh, SubmitProposal, SubmitGraph, SubmitEvents, Goto, End,
               IInv, Types, Request
      <3> QED
        BY <3>1, <3>2 DEF KnowsMet
    <2>4. CASE ReadLifecycle(w) \/ ProposalMatches(w)
      <3>1. q.pc = "match" \/ (q.pc = "deps" /\ q.task = req[w].task
                               /\ q.sha = req[w].sha /\ DocAt(req[w].task) = req[w].sha)
        BY <2>2, <2>4
           DEF ReadLifecycle, ProposalMatches, Goto, IInv, Types, Request
      <3> QED
        BY <3>1 DEF KnowsMet
    <2>5. CASE ReadDependencies(w)
      BY <2>5, ReadDependenciesMet
    <2>6. CASE CheckDependencies(w)
      BY <2>6, CheckDependenciesMet
    <2>7. CASE \/ Decide(w) \/ CheckLease(w) \/ AppendEvent(w)
               \/ AppendExisting(w) \/ Written(w)
      <3>1. /\ req[w].pc \in {"decide", "lease", "append", "writing"}
            /\ q.pc \in {"lease", "append", "writing", "reread"}
            /\ q.op = req[w].op /\ q.task = req[w].task /\ q.sha = req[w].sha
        BY <2>2, <2>7
           DEF Decide, CheckLease, AppendEvent, AppendExisting, Written, Goto, End,
               At, IInv, Types, Request
      <3> QED
        BY <2>2, <3>1 DEF KnowsMet
    <2>8. CASE Writing(w) \/ Reread(w) \/ Refused(w)
      BY <2>8 DEF Writing, Reread, Refused, End, taskVars, IInv, Types
    <2> QED
      BY <1>2, <2>1, <2>3, <2>4, <2>5, <2>6, <2>7, <2>8 DEF Step
  <1>3. CASE ~Arrive /\ ~\E r \in Writers : Step(r) \/ Refused(r)
    BY <1>3 DEF Next, GrantLease, LapseLease, Crash, Agent, Operator, taskVars,
                allVars, IInv, Types
  <1> QED
    BY <1>1, <1>2, <1>3

\* An event after the first is appended when the dependencies are completed.
LEMMA AppendMet ==
    ASSUME IInv, DepsInv, NEW r \in Writers, AppendEvent(r),
           NEW t \in Tasks, t = req[r].task, NEW c, c = Append(log[t], EventOf(r))
    PROVE  StreamMet(t, c)
  <1>1. req[r] \in Request /\ ReqOK(req[r]) /\ req[r].pc = "append" /\ KnowsMet(req[r])
    BY Working DEF AppendEvent, At, DepsInv
  <1>2. log[t] \in Seq(Recorded) /\ Len(log[t]) \in Nat
    BY DEF IInv, Types
  <1>3. Len(c) = Len(log[t]) + 1 /\ c[Len(c)] = EventOf(r) /\ Len(c) \in 1..Len(c)
    BY <1>2
  <1>4. ValidateLifecycleChain(c)
    BY DEF AppendEvent
  <1>5. /\ EventOf(r).type = EventTypes[Len(c)] /\ Len(c) \in 1..4
        /\ EventOf(r).sha = c[1].sha
    <2>1. LegalType(c, Len(c)) /\ c[Len(c)].sha = c[1].sha
      BY <1>3, <1>4 DEF ValidateLifecycleChain
    <2>2. Len(c) <= 4 /\ c[Len(c)].type = EventTypes[Len(c)]
      BY <2>1 DEF LegalType, EventTypes
    <2> QED
      BY <1>3, <2>1, <2>2
  <1>6. EventOf(r).type = req[r].op /\ EventOf(r).sha = req[r].sha
    BY DEF EventOf, Link
  <1>7. Len(c) >= 2 => req[r].op # "verified"
    <2>1. EventTypes[Len(c)] = "verified" => Len(c) = 1
      BY <1>5, TypeAt
    <2> QED
      BY <1>5, <1>6, <2>1
  <1> QED
    BY <1>1, <1>5, <1>6, <1>7 DEF KnowsMet, StreamMet

\* A stream changes by an append on the branch itself, or by the push of the
\* service's commit, which is made by an append.
LEMMA StreamsChange ==
    ASSUME IInv, [Next]_allVars
    PROVE  /\ \/ log' = log
              \/ \E r \in Writers :
                    /\ AppendEvent(r) /\ req[r].task \in Tasks
                    /\ log' = [log EXCEPT ![req[r].task] =
                                 Append(log[req[r].task], EventOf(r))]
              \/ draft \in Drafts /\ log' = [log EXCEPT ![draft.file] = draft.content]
           /\ \/ draft' = draft
              \/ draft' \notin Drafts
              \/ \E r \in Writers :
                    /\ AppendEvent(r) /\ req[r].task \in Tasks
                    /\ draft' = [file |-> req[r].task,
                                 content |-> Append(log[req[r].task], EventOf(r))]
  <1>1. Types /\ None \notin Drafts /\ Dirty \notin Drafts /\ None # Dirty
    BY ValuesAssumption DEF IInv, Drafts
  <1>2. ASSUME NEW r \in Writers, AppendEvent(r)
        PROVE  /\ req[r].task \in Tasks
               /\ \/ /\ draft' = draft
                     /\ log' = [log EXCEPT ![req[r].task] =
                                  Append(log[req[r].task], EventOf(r))]
                  \/ /\ log' = log
                     /\ draft' = [file |-> req[r].task,
                                  content |-> Append(log[req[r].task], EventOf(r))]
    BY <1>2, Working DEF AppendEvent, Commit, NextEvents, At, Request
  <1>3. ASSUME NEW r \in Writers, Writing(r)
        PROVE  /\ draft' \in {draft, None}
               /\ \/ log' = log
                  \/ /\ draft \in Drafts
                     /\ log' = [log EXCEPT ![draft.file] = draft.content]
    <2>1. ASSUME stage[r].at = "push", Publish
          PROVE  \/ log' = log
                 \/ draft \in Drafts /\ log' = [log EXCEPT ![draft.file] = draft.content]
      <3>1. mu = r /\ r # None
        BY <2>1, ValuesAssumption DEF IInv, Turns, InWrite
      <3>2. draft # Dirty
        BY <3>1 DEF IInv, Turns
      <3> QED
        BY <1>1, <2>1, <3>2 DEF Publish, Types
    <2> QED
      BY <1>3, <2>1
         DEF Writing, WriteStep, PushOk, Publish, PushRejected, PushUnanswered,
             Rebase, RebaseFails, ConfirmSync, SyncUnanswered
  <1>4. ASSUME NEW r \in Writers, Step(r) \/ Refused(r), ~AppendEvent(r), ~Writing(r)
        PROVE  log' = log /\ draft' = draft
    BY <1>4
       DEF Step, Refused, SubmitRefresh, Refresh, SubmitProposal, SubmitGraph,
           SubmitEvents, ReadLifecycle, ProposalMatches, ReadDependencies,
           CheckDependencies, Decide, CheckLease, AppendExisting, NothingToCommit,
           Written, Reread, docsVars
  <1>5. CASE ~\E r \in Writers : Step(r) \/ Refused(r)
    <2>1. log' = log /\ draft' \in {draft, None, Dirty}
      BY <1>5, AroundKeeps
    <2> QED
      BY <1>1, <2>1
  <1>6. CASE \E r \in Writers : Step(r) \/ Refused(r)
    <2>1. PICK r \in Writers : Step(r) \/ Refused(r)
      BY <1>6
    <2>2. CASE AppendEvent(r)
      BY <1>2, <2>2
    <2>3. CASE Writing(r)
      BY <1>1, <1>3, <2>3
    <2>4. CASE ~AppendEvent(r) /\ ~Writing(r)
      BY <1>4, <2>1, <2>4
    <2> QED
      BY <2>2, <2>3, <2>4
  <1> QED
    BY <1>5, <1>6

\* The dependencies of a stream that is written are completed when it is.
LEMMA NewStreamMet ==
    ASSUME IInv, DepsInv, [Next]_allVars, NEW t \in Tasks, NEW s, s = log'[t]
    PROVE  StreamMet(t, s)
  <1>1. CASE s = log[t]
    BY <1>1 DEF DepsInv
  <1>2. ASSUME NEW r \in Writers, AppendEvent(r), t = req[r].task,
               s = Append(log[t], EventOf(r))
        PROVE  StreamMet(t, s)
    BY <1>2, AppendMet
  <1>3. CASE draft \in Drafts /\ t = draft.file /\ s = draft.content
    BY <1>3 DEF DepsInv
  <1> QED
    BY <1>1, <1>2, <1>3, StreamsChange DEF IInv, Types

\* What is known of the dependencies is kept by every action.
LEMMA DepsStep ==
    ASSUME IInv, IInv', DepsInv, FixedProposals, [Next]_allVars
    PROVE  DepsInv'
  <1>1. LogGrows /\ DocsStay
    BY LogStep, DocsStep
  <1>2. ASSUME NEW w \in Writers, NEW q, q = req'[w], q # Idle PROVE KnowsMet(q)'
    <2>1. q \in Request /\ ReqOK(q)'
      BY <1>2
         DEF IInv, Types, Requests, ReqOK, Submission, Execution, KnowsStream,
                  MayFollow, LeaseSafe, Seen
    <2>2. KnowsMet(q)
      BY <1>2, RequestMet DEF DepsInv
    <2>3. q.op # "verified" => q.sha \in Versions
      BY <2>1 DEF ReqOK, Execution
    <2> QED
      BY <1>1, <2>1, <2>2, <2>3, KnowsMetKept
  <1>3. ASSUME NEW t \in Tasks, NEW s, s = log'[t] PROVE StreamMet(t, s)'
    <2>1. s \in Seq(Recorded)
      BY <1>3 DEF IInv, Types
    <2>2. StreamMet(t, s)
      BY <1>3, NewStreamMet
    <2> QED
      BY <1>1, <2>1, <2>2, StreamMetKept
  <1>4. ASSUME draft' \in Drafts, NEW t, t = draft'.file, NEW s, s = draft'.content
        PROVE  StreamMet(t, s)'
    <2>1. t \in Tasks /\ s \in Seq(Recorded)
      BY <1>4 DEF Drafts
    <2>2. StreamMet(t, s)
      BY <1>4, StreamsChange, AppendMet DEF DepsInv
    <2> QED
      BY <1>1, <2>1, <2>2, StreamMetKept
  <1> QED
    BY <1>2, <1>3, <1>4 DEF DepsInv, KnowsMet, StreamMet, Met, DocAt

\* It holds of the streams that a run starts with.
LEMMA DepsInit == ASSUME Init, SeedsMet PROVE DepsInv
  <1>1. /\ log \in SeedLogs /\ draft = None /\ req = [w \in Writers |-> Idle]
    BY DEF Init, DocsInit
  <1> QED
    BY <1>1, ValuesAssumption DEF DepsInv, SeedsMet, StreamMet, Met, Drafts

\* A task is claimed and completed only when the tasks its verified proposal
\* depends on are completed, as long as agents leave proposals that have
\* dependencies alone.
THEOREM ClaimsWait ==
    FixedProposals /\ SeedsMet => (Spec => []DependenciesCompleted)
  <1> SUFFICES ASSUME FixedProposals, SeedsMet PROVE Spec => []DependenciesCompleted
    OBVIOUS
  <1>1. Init => IInv /\ DepsInv
    BY InvInit, DepsInit
  <1>2. IInv /\ DepsInv /\ [Next]_allVars => IInv' /\ DepsInv'
    BY InvStep, DepsStep
  <1>3. IInv /\ DepsInv => DependenciesCompleted
    <2> SUFFICES ASSUME IInv, DepsInv, NEW t \in Tasks, Len(log[t]) >= 2,
                        NEW d \in DependsOn[t][log[t][1].sha]
                 PROVE  TaskStatusOf(log[d]).state = "completed"
      BY DEF DependenciesCompleted
    <2>1. log[t] \in Seq(Recorded) /\ log[t][1] \in Recorded
      BY DEF IInv, Types
    <2>2. d \in Tasks /\ Len(log[d]) = 4
      BY <2>1, TaskAssumption DEF DepsInv, StreamMet, Met, Recorded
    <2> QED
      BY <2>2, CompletedMeans
  <1> QED
    BY <1>1, <1>2, <1>3, PTL DEF Spec
-----------------------------------------------------------------------------
(* The abstract tasks.                                                      *)

\* The same promise without its requirements, which needs no assumption about
\* what agents edit.
NoRequirements == [t \in Tasks |-> [v \in Versions |-> {}]]
Bare == INSTANCE TaskAbs
          WITH Proposals <- Versions, Executors <- Agents, Requires <- NoRequirements,
               Nobody <- NoHash, status <- shown

\* A stream that comes from s by one event, an agent's one unless it is the first.
OneMore(s, c) ==
    /\ Len(c) <= Len(s) + 1
    /\ Len(c) = Len(s) + 1 /\ Len(c) >= 2 => c[Len(c)].by \in Agents

\* The commit that is not on the branch yet adds at most one event to it, however
\* often its push was repeated.
DraftInv == draft \in Drafts => OneMore(log[draft.file], draft.content)

\* What is shown of a stream within the rules.
LEMMA ShownLegal ==
    ASSUME NEW s \in Seq(Recorded), ValidateLifecycleChain(s)
    PROVE  /\ Len(s) \in 0..4
           /\ Shown(s).state = IF Len(s) = 0 THEN "none" ELSE EventTypes[Len(s)]
           /\ Shown(s).proposal = IF Len(s) = 0 THEN NoHash ELSE s[1].sha
           /\ Shown(s).executor = IF Len(s) >= 2 THEN s[2].by ELSE NoHash
  <1>1. Len(s) \in Nat /\ Len(s) <= 4 /\ \A i \in 1..Len(s) : s[i].type = EventTypes[i]
    BY LegalTypes
  <1>2. Len(s) \in 0..4 /\ (s = <<>> <=> Len(s) = 0)
    <2>1. \A n \in Nat : n <= 4 => n \in 0..4
      OBVIOUS
    <2>2. s = <<>> <=> Len(s) = 0
      OBVIOUS
    <2> QED
      BY <1>1, <2>1, <2>2
  <1>3. ASSUME Len(s) >= 2 PROVE ByOf(s, {"claimed"}) = s[2].by
    <2>1. s # <<>>
      BY <1>2, <1>3
    <2> QED
      BY <1>3, <2>1, StatusOfLegal DEF TaskStatusOf
  <1>4. ASSUME ~(Len(s) >= 2) PROVE ByOf(s, {"claimed"}) = NoHash
    <2>1. \A i \in 1..Len(s) : i = 1
      BY <1>1, <1>4
    <2>2. {i \in 1..Len(s) : s[i].type \in {"claimed"}} = {}
      BY <1>1, <2>1, TypeAt
    <2> QED
      BY <2>2 DEF ByOf
  <1>5. Len(s) # 0 => s[Len(s)].type = EventTypes[Len(s)]
    BY <1>1, <1>2
  <1> QED
    BY <1>2, <1>3, <1>4, <1>5 DEF Shown

\* What one more event does to what is shown: the next transition of the task.
Move(s, c) ==
    \/ /\ Shown(s) = [state |-> "none", proposal |-> NoHash, executor |-> NoHash]
       /\ c[1].sha \in Versions
       /\ Shown(c) = [state |-> "verified", proposal |-> c[1].sha, executor |-> NoHash]
    \/ /\ Shown(s).state = "verified" /\ Len(c) = 2
       /\ c[2].by \in Agents /\ Shown(s).proposal = c[1].sha
       /\ Shown(c) = [Shown(s) EXCEPT !.state = "claimed", !.executor = c[2].by]
    \/ /\ Shown(s).state = "claimed"
       /\ Shown(c) = [Shown(s) EXCEPT !.state = "completed_local"]
    \/ /\ Shown(s).state = "completed_local"
       /\ Shown(c) = [Shown(s) EXCEPT !.state = "completed"]

\* An event that follows a stream within the rules moves its task on.
LEMMA OneMoreMoves ==
    ASSUME NEW s \in Seq(Recorded), NEW c \in Seq(Recorded), Prefix(s, c),
           ValidateLifecycleChain(c), OneMore(s, c), s # c
    PROVE  Move(s, c)
  <1>1. ValidateLifecycleChain(s)
    BY PrefixLegal
  <1>2. Len(s) \in Nat /\ Len(c) \in Nat /\ Len(s) <= Len(c)
    BY DEF Prefix
  <1>3. Len(c) = Len(s) + 1
    <2>1. Len(s) # Len(c)
      <3> SUFFICES ASSUME Len(s) = Len(c) PROVE s = c
        OBVIOUS
      <3>1. \A i \in 1..Len(s) : s[i] = c[i]
        BY DEF Prefix
      <3> QED
        BY <3>1
    <2> QED
      BY <1>2, <2>1 DEF OneMore
  <1>4. /\ Len(s) \in 0..4
        /\ Shown(s).state = IF Len(s) = 0 THEN "none" ELSE EventTypes[Len(s)]
        /\ Shown(s).proposal = IF Len(s) = 0 THEN NoHash ELSE s[1].sha
        /\ Shown(s).executor = IF Len(s) >= 2 THEN s[2].by ELSE NoHash
    BY <1>1, ShownLegal
  <1>5. /\ Len(c) \in 0..4
        /\ Shown(c).state = IF Len(c) = 0 THEN "none" ELSE EventTypes[Len(c)]
        /\ Shown(c).proposal = IF Len(c) = 0 THEN NoHash ELSE c[1].sha
        /\ Shown(c).executor = IF Len(c) >= 2 THEN c[2].by ELSE NoHash
    BY ShownLegal
  <1>6. \A q : Shown(q) = [state |-> Shown(q).state, proposal |-> Shown(q).proposal,
                           executor |-> Shown(q).executor]
    BY DEF Shown
  <1>7. Len(s) \in 0..3
    BY <1>3, <1>4, <1>5
  <1>8. /\ Len(s) >= 1 => s[1] = c[1]
        /\ Len(s) >= 2 => s[2] = c[2]
    BY <1>2 DEF Prefix
  <1>9. c[1].sha \in Versions
    <2>1. c[1] \in Recorded
      BY <1>2, <1>3
    <2> QED
      BY <2>1 DEF Recorded
  <1>10. CASE Len(s) = 0
    <2>1. Len(c) = 1
      BY <1>3, <1>10
    <2> QED
      BY <1>4, <1>5, <1>6, <1>9, <1>10, <2>1, TypeAt DEF Move
  <1>11. CASE Len(s) = 1
    <2>1. Len(c) = 2 /\ c[2].by \in Agents
      BY <1>3, <1>11 DEF OneMore
    <2>2. /\ Shown(c).state = "claimed" /\ Shown(c).proposal = Shown(s).proposal
          /\ Shown(c).executor = c[2].by
      BY <1>4, <1>5, <1>8, <1>11, <2>1, TypeAt
    <2>3. Shown(c) = [Shown(s) EXCEPT !.state = "claimed", !.executor = c[2].by]
      BY <2>2 DEF Shown
    <2> QED
      BY <1>4, <1>8, <1>11, <2>1, <2>3, TypeAt DEF Move
  <1>12. CASE Len(s) = 2
    <2>1. Len(c) = 3
      BY <1>3, <1>12
    <2>2. Shown(c) = [Shown(s) EXCEPT !.state = "completed_local"]
      BY <1>4, <1>5, <1>6, <1>8, <1>12, <2>1, TypeAt
    <2> QED
      BY <1>4, <1>12, <2>2, TypeAt DEF Move
  <1>13. CASE Len(s) = 3
    <2>1. Len(c) = 4
      BY <1>3, <1>13
    <2>2. Shown(c) = [Shown(s) EXCEPT !.state = "completed"]
      BY <1>4, <1>5, <1>6, <1>8, <1>13, <2>1, TypeAt
    <2> QED
      BY <1>4, <1>13, <2>2, TypeAt DEF Move
  <1> QED
    BY <1>7, <1>10, <1>11, <1>12, <1>13

\* A request appends one event, as the agent it is from.
LEMMA AppendOneMore ==
    ASSUME IInv, NEW r \in Writers, AppendEvent(r), NEW t, t = req[r].task,
           NEW c, c = Append(log[t], EventOf(r))
    PROVE  OneMore(log[t], c)
  <1>1. req[r] \in Request /\ ReqOK(req[r]) /\ t \in Tasks
    BY Working DEF AppendEvent, At, Request
  <1>2. log[t] \in Seq(Recorded) /\ Len(log[t]) \in Nat
    BY <1>1 DEF IInv, Types
  <1>3. Len(c) = Len(log[t]) + 1 /\ c[Len(c)] = EventOf(r) /\ Len(c) \in 1..Len(c)
    BY <1>2
  <1>4. LegalType(c, Len(c))
    BY <1>3 DEF AppendEvent, ValidateLifecycleChain
  <1>5. EventOf(r).type = req[r].op /\ EventOf(r).by = req[r].by
    BY DEF EventOf, Link
  <1>6. ASSUME Len(c) >= 2 PROVE req[r].by \in Agents
    <2>1. Len(c) \in 1..4 /\ EventTypes[Len(c)] = req[r].op
      BY <1>3, <1>4, <1>5 DEF LegalType, EventTypes
    <2>2. EventTypes[Len(c)] = "verified" => Len(c) = 1
      BY <2>1, TypeAt
    <2>3. req[r].op # "verified"
      <3>1. Len(c) # 1
        BY <1>6, <2>1
      <3> QED
        BY <2>1, <2>2, <3>1
    <2> QED
      BY <1>1, <2>3 DEF ReqOK, Execution
  <1> QED
    BY <1>2, <1>3, <1>5, <1>6 DEF OneMore

\* The service's commit stays one event ahead of the branch at most.
LEMMA DraftInvStep ==
    ASSUME IInv, IInv', DraftInv, [Next]_allVars
    PROVE  DraftInv'
  <1> SUFFICES ASSUME draft' \in Drafts, NEW t, t = draft'.file, NEW c, c = draft'.content
               PROVE  OneMore(log'[t], c)
    BY DEF DraftInv, OneMore, Drafts, Recorded, Event
  <1>1. OneMore(log[t], c)
    <2>1. CASE draft' = draft
      BY <2>1 DEF DraftInv
    <2>2. CASE draft' # draft
      <3>1. PICK r \in Writers :
                   /\ AppendEvent(r)
                   /\ draft' = [file |-> req[r].task,
                                content |-> Append(log[req[r].task], EventOf(r))]
        BY <2>2, StreamsChange
      <3> QED
        BY <3>1, AppendOneMore
    <2> QED
      BY <2>1, <2>2
  <1>2. t \in Tasks /\ c \in Seq(Recorded)
    BY DEF Drafts
  <1>3. log[t] \in Seq(Recorded) /\ log'[t] \in Seq(Recorded) /\ Len(log[t]) <= Len(log'[t])
    BY <1>2, LogStep DEF IInv, Types, LogGrows, Prefix
  <1>4. Len(log[t]) \in Nat /\ Len(log'[t]) \in Nat /\ Len(c) \in Nat
    BY <1>2, <1>3
  <1> QED
    BY <1>1, <1>3, <1>4 DEF OneMore

\* Every step shows as one move of one task, or not at all.
LEMMA StepShows ==
    ASSUME IInv, IInv', DraftInv, [Next]_allVars, log' # log
    PROVE  \E t \in Tasks :
              /\ Move(log[t], log'[t])
              /\ shown' = [shown EXCEPT ![t] = Shown(log'[t])]
  <1>1. PICK t \in Tasks : OneMore(log[t], log'[t]) /\ log' = [log EXCEPT ![t] = log'[t]]
    <2>1. log \in [Tasks -> Seq(Recorded)]
      BY DEF IInv, Types
    <2>2. ASSUME NEW r \in Writers, AppendEvent(r), req[r].task \in Tasks,
                 log' = [log EXCEPT ![req[r].task] =
                           Append(log[req[r].task], EventOf(r))]
          PROVE  \E t \in Tasks : /\ OneMore(log[t], log'[t])
                                  /\ log' = [log EXCEPT ![t] = log'[t]]
      <3>1. log'[req[r].task] = Append(log[req[r].task], EventOf(r))
        BY <2>1, <2>2
      <3>2. OneMore(log[req[r].task], log'[req[r].task])
        BY <2>2, <3>1, AppendOneMore
      <3> QED
        BY <2>2, <3>1, <3>2
    <2>3. ASSUME draft \in Drafts, log' = [log EXCEPT ![draft.file] = draft.content]
          PROVE  \E t \in Tasks : /\ OneMore(log[t], log'[t])
                                  /\ log' = [log EXCEPT ![t] = log'[t]]
      <3>1. draft.file \in Tasks
        BY <2>3 DEF Drafts
      <3>2. log'[draft.file] = draft.content
        BY <2>1, <2>3, <3>1
      <3> QED
        BY <2>3, <3>1, <3>2 DEF DraftInv
    <2> QED
      BY <2>2, <2>3, StreamsChange
  <1>2. /\ log \in [Tasks -> Seq(Recorded)] /\ log' \in [Tasks -> Seq(Recorded)]
        /\ ValidateLifecycleChain(log'[t])
    BY DEF IInv, Types, Streams, StreamOK
  <1>3. log[t] # log'[t]
    BY <1>1, <1>2
  <1>4. Prefix(log[t], log'[t])
    BY LogStep DEF LogGrows
  <1>5. Move(log[t], log'[t])
    BY <1>1, <1>2, <1>3, <1>4, OneMoreMoves
  <1>6. shown' = [shown EXCEPT ![t] = Shown(log'[t])]
    BY <1>1, <1>2 DEF shown
  <1> QED
    BY <1>5, <1>6

\* The streams that a run starts with show tasks that have come a part of the way.
LEMMA StreamsShow ==
    ASSUME IInv, NEW t \in Tasks
    PROVE  /\ shown[t] \in {Bare!Unknown} \cup {Bare!Verified(v) : v \in Versions}
                             \cup Bare!InHands
           /\ shown[t] \in Bare!InHands =>
                Len(log[t]) >= 2 /\ shown[t].proposal = log[t][1].sha
           /\ Len(log[t]) = 4 => shown[t].state = "completed"
  <1> DEFINE s == log[t]
  <1>1. s \in Seq(Recorded) /\ ValidateLifecycleChain(s) /\ shown[t] = Shown(s)
    BY DEF IInv, Types, Streams, StreamOK, shown
  <1> HIDE DEF s
  <1>2. /\ Len(s) \in 0..4
        /\ Shown(s).state = IF Len(s) = 0 THEN "none" ELSE EventTypes[Len(s)]
        /\ Shown(s).proposal = IF Len(s) = 0 THEN NoHash ELSE s[1].sha
        /\ Shown(s).executor = IF Len(s) >= 2 THEN s[2].by ELSE NoHash
    BY <1>1, ShownLegal
  <1>3. Shown(s) = [state |-> Shown(s).state, proposal |-> Shown(s).proposal,
                    executor |-> Shown(s).executor]
    BY DEF Shown
  <1>4. \A i \in 1..Len(s) : s[i].sha \in Versions /\ s[i].by \in Agents \cup {NoHash}
    <2>1. \A i \in 1..Len(s) : s[i] \in Recorded
      BY <1>1
    <2> QED
      BY <2>1 DEF Recorded
  <1>5. CASE Len(s) = 0
    BY <1>1, <1>2, <1>3, <1>5 DEF Bare!Unknown, Bare!InHands, s
  <1>6. CASE Len(s) = 1
    <2>1. s[1].sha \in Versions
      BY <1>4, <1>6
    <2> QED
      BY <1>1, <1>2, <1>3, <1>6, <2>1, TypeAt DEF Bare!Verified, Bare!InHands, s
  <1>7. CASE Len(s) \in 2..4
    <2>1. s[1].sha \in Versions /\ s[2].by \in Agents \cup {NoHash}
      BY <1>4, <1>7
    <2>2. EventTypes[Len(s)] \in {"claimed", "completed_local", "completed"}
          /\ (Len(s) = 4 => EventTypes[Len(s)] = "completed")
      <3>1. Len(s) = 2 \/ Len(s) = 3 \/ Len(s) = 4
        BY <1>7
      <3> QED
        BY <3>1, TypeAt
    <2> QED
      BY <1>1, <1>2, <1>3, <1>7, <2>1, <2>2 DEF Bare!InHands, s
  <1> QED
    BY <1>2, <1>5, <1>6, <1>7

\* The commands and the docs-repo under them implement the tasks of TaskAbs: each
\* is verified, claimed by one agent and completed, in this order and for good.
THEOREM TasksRefined == Spec => Bare!TaskSpec
  <1>1. Init => IInv /\ DraftInv /\ Bare!TaskInit
    <2> SUFFICES ASSUME Init, IInv PROVE DraftInv /\ Bare!TaskInit
      BY InvInit
    <2>1. DraftInv
      BY ValuesAssumption DEF Init, DocsInit, DraftInv, Drafts
    <2>2. shown \in [Tasks -> {Bare!Unknown} \cup {Bare!Verified(v) : v \in Versions}
                                \cup Bare!InHands]
      BY StreamsShow DEF shown
    <2>3. ASSUME NEW t \in Tasks, shown[t] \in Bare!InHands
          PROVE  Bare!RequirementsMet(t, shown[t].proposal)
      BY <2>3 DEF Bare!RequirementsMet, Bare!InHands, NoRequirements
    <2> QED
      BY <2>1, <2>2, <2>3 DEF Bare!TaskInit
  <1>2. IInv /\ DraftInv /\ [Next]_allVars => IInv' /\ DraftInv'
    BY InvStep, DraftInvStep
  <1>3. IInv /\ IInv' /\ DraftInv /\ [Next]_allVars => [Bare!TaskNext]_shown
    <2> SUFFICES ASSUME IInv, IInv', DraftInv, [Next]_allVars, shown' # shown
                 PROVE  Bare!TaskNext
      OBVIOUS
    <2>1. log' # log
      BY DEF shown
    <2>2. PICK t \in Tasks : /\ Move(log[t], log'[t])
                             /\ shown' = [shown EXCEPT ![t] = Shown(log'[t])]
      BY <2>1, StepShows
    <2>3. shown[t] = Shown(log[t]) /\ shown \in [Tasks -> {Shown(log[u]) : u \in Tasks}]
      BY DEF shown
    <2>4. shown[t].state = "verified" => Bare!RequirementsMet(t, shown[t].proposal)
      <3>1. shown[t].state = "verified" => shown[t].proposal \in Versions
        BY StreamsShow DEF Bare!Unknown, Bare!Verified, Bare!InHands
      <3> QED
        BY <3>1 DEF Bare!RequirementsMet, NoRequirements
    <2>5. \/ \E v \in Versions : Bare!Verify(t, v)
          \/ \E a \in Agents : Bare!Claim(t, a)
          \/ Bare!CompleteLocal(t)
          \/ Bare!Complete(t)
      BY <2>2, <2>3, <2>4
         DEF Move, Bare!Verify, Bare!Claim, Bare!CompleteLocal, Bare!Complete,
             Bare!Unknown, Bare!Verified
    <2> QED
      BY <2>5 DEF Bare!TaskNext
  <1> QED
    BY <1>1, <1>2, <1>3, PTL DEF Spec, Bare!TaskSpec

\* Completed dependencies are shown as completed.
LEMMA MetShown ==
    ASSUME IInv, NEW t \in Tasks, NEW v \in Versions, Met(t, v)
    PROVE  Promise!RequirementsMet(t, v)
  <1>1. ASSUME NEW d \in DependsOn[t][v] PROVE shown[d].state = "completed"
    <2>1. d \in Tasks /\ Len(log[d]) = 4
      BY TaskAssumption DEF Met
    <2> QED
      BY <2>1, StreamsShow
  <1> QED
    BY <1>1 DEF Promise!RequirementsMet

\* With the dependencies: as long as agents leave proposals that have any alone, a
\* task is claimed only when the tasks it depends on are shown as completed.
THEOREM TasksRefinedInOrder ==
    FixedProposals /\ SeedsMet => (Spec => TasksImplemented)
  <1> SUFFICES ASSUME FixedProposals, SeedsMet PROVE Spec => TasksImplemented
    OBVIOUS
  <1>1. Init => IInv /\ DepsInv /\ DraftInv /\ Promise!TaskInit
    <2> SUFFICES ASSUME Init, IInv PROVE DepsInv /\ DraftInv /\ Promise!TaskInit
      BY InvInit
    <2>1. DepsInv /\ DraftInv
      BY DepsInit, ValuesAssumption DEF Init, DocsInit, DraftInv, Drafts
    <2>2. shown \in [Tasks -> {Promise!Unknown} \cup {Promise!Verified(v) : v \in Versions}
                                \cup Promise!InHands]
      BY StreamsShow
         DEF shown, Bare!Unknown, Bare!Verified, Bare!InHands,
             Promise!Unknown, Promise!Verified, Promise!InHands
    <2>3. ASSUME NEW t \in Tasks, shown[t] \in Promise!InHands
          PROVE  Promise!RequirementsMet(t, shown[t].proposal)
      <3>1. Len(log[t]) >= 2 /\ shown[t].proposal = log[t][1].sha
        BY <2>3, StreamsShow DEF Bare!InHands, Promise!InHands
      <3>2. shown[t].proposal \in Versions
        BY <2>3 DEF Promise!InHands
      <3>3. Met(t, shown[t].proposal)
        BY <2>1, <3>1 DEF DepsInv, StreamMet
      <3> QED
        BY <3>2, <3>3, MetShown
    <2> QED
      BY <2>1, <2>2, <2>3 DEF Promise!TaskInit
  <1>2. IInv /\ DepsInv /\ DraftInv /\ [Next]_allVars => IInv' /\ DepsInv' /\ DraftInv'
    BY InvStep, DepsStep, DraftInvStep
  <1>3. IInv /\ IInv' /\ DepsInv /\ DraftInv /\ [Next]_allVars => [Promise!TaskNext]_shown
    <2> SUFFICES ASSUME IInv, IInv', DepsInv, DraftInv, [Next]_allVars, shown' # shown
                 PROVE  Promise!TaskNext
      OBVIOUS
    <2>1. log' # log
      BY DEF shown
    <2>2. PICK t \in Tasks : /\ Move(log[t], log'[t])
                             /\ shown' = [shown EXCEPT ![t] = Shown(log'[t])]
      BY <2>1, StepShows
    <2>3. shown[t] = Shown(log[t]) /\ shown \in [Tasks -> {Shown(log[u]) : u \in Tasks}]
      BY DEF shown
    <2>4. ASSUME Len(log'[t]) = 2, shown[t].proposal = log'[t][1].sha,
                 shown[t].state = "verified"
          PROVE  Promise!RequirementsMet(t, shown[t].proposal)
      <3>1. shown[t].proposal \in Versions
        BY <2>4, StreamsShow DEF Bare!Unknown, Bare!Verified, Bare!InHands
      <3>2. StreamMet(t, log'[t])
        BY NewStreamMet
      <3>3. Met(t, shown[t].proposal)
        BY <2>4, <3>2 DEF StreamMet
      <3> QED
        BY <3>1, <3>3, MetShown
    <2>5. \/ \E v \in Versions : Promise!Verify(t, v)
          \/ \E a \in Agents : Promise!Claim(t, a)
          \/ Promise!CompleteLocal(t)
          \/ Promise!Complete(t)
      BY <2>2, <2>3, <2>4
         DEF Move, Promise!Verify, Promise!Claim, Promise!CompleteLocal,
             Promise!Complete, Promise!Unknown, Promise!Verified
    <2> QED
      BY <2>5 DEF Promise!TaskNext
  <1> QED
    BY <1>1, <1>2, <1>3, PTL DEF Spec, TasksImplemented, Promise!TaskSpec
=============================================================================
