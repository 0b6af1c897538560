----------------------- MODULE CoordinationClientProofs -----------------------
(***************************************************************************)
(* Theorems about CoordinationClient for any number of agents, commands,   *)
(* retries and leases.  The invariant says of every request that has not   *)
(* been executed yet, whether its sender waits for it or has given it up,  *)
(* what it may still do when it arrives (Pending), and of every command    *)
(* that runs what its earlier attempts may have done (Commands).           *)
(***************************************************************************)
EXTENDS CoordinationClient, SequenceTheorems, TLAPS

Types ==
    /\ stream \in Seq(Events) /\ done \subseteq Deps
    /\ lease \in {None} \cup Leases /\ (lease # None => lease.n <= grants)
    /\ grants \in 0..MaxGrants /\ lapsed \subseteq 1..grants
    /\ cmd \in [Agents -> CmdRecord]
    /\ call \in [Agents -> {None} \cup Calls] /\ late \subseteq Requests
    /\ cred \in [Agents -> {None} \cup (1..grants)]
    /\ local \in [Agents -> Nat] /\ track \in [Agents -> Nat]

\* The lifecycle: the events in their order, a claim only after the
\* dependencies, and completions that cover the work they complete.
Lifecycle ==
    /\ Len(stream) <= 4 /\ \A i \in 1..Len(stream) : stream[i].type = EventTypes[i]
    /\ Len(stream) >= 2 => done = Deps
    /\ Len(stream) >= 3 => stream[3].at <= local[stream[3].by]
    /\ Len(stream) = 4 => stream[3].at <= stream[4].at

\* A request that the service has not executed yet ...
Unexecuted(r) ==
    \/ r \in late
    \/ call[r.c] # None /\ call[r.c].answer = None /\ r = call[r.c].req

\* ... completes what was completed locally, with work that its agent has, and
\* does not give back a lease that its agent was told of since.
Harmless(r) ==
    /\ r.n # None => r.n <= grants
    /\ r.op = "complete_local" => r.at <= local[r.c]
    /\ r.op = "complete" => Len(stream) >= 3 /\ stream[3].at <= r.at
    /\ r.op = "release" =>
         /\ r.n # None /\ cred[r.c] # r.n
         /\ call[r.c] # None /\ call[r.c].answer # None => call[r.c].answer.n # r.n

Pending == \A r \in Requests : Unexecuted(r) => Harmless(r)

\* What an agent was told, or is being told: the lease is its own or lapsed,
\* the event is in the lifecycle.
HasLease(c, n) == Holds(c, n) \/ n \in lapsed
HasEvent(c, op) ==
    \E i \in 1..Len(stream) : /\ stream[i].type = EventType(op)
                              /\ op = "submit" \/ stream[i].by = c
Told(c) ==
    /\ cred[c] # None => HasLease(c, cred[c])
    /\ call[c] # None /\ call[c].answer # None =>
         /\ call[c].answer.n # 0 => call[c].answer.n <= grants /\ HasLease(c, call[c].answer.n)
         /\ \A op \in TaskOps :
               call[c].answer.kind = "ok" /\ call[c].req.op = op => HasEvent(c, op)

\* The command of an agent and its request.
Command(c) ==
    /\ (call[c] # None) = (cmd[c].phase = "calling")
    /\ call[c] # None => call[c].req.c = c /\ call[c].req.op = cmd[c].op
    /\ cmd[c].phase = "calling" => cmd[c].op # "wait"
    /\ cmd[c].phase = "delay" => cmd[c].op \in TaskOps \cup {"acquire"}
    /\ cmd[c].phase = "reading" =>
         /\ cmd[c].op = "wait" /\ Deps \ done \subseteq cmd[c].unread \cup cmd[c].pending
    /\ cmd[c].phase # "idle" /\ cmd[c].op = "complete" =>
         Len(stream) >= 3 /\ stream[3].at <= track[c]

\* What a command knows before which nothing of its agent was under way: a
\* lease that its agent has got meanwhile is in the answer that it waits for,
\* and a claim is still the last event.
FirstAcquire(c) ==
    cmd[c].phase # "idle" /\ cmd[c].op = "acquire" /\ cmd[c].first =>
        /\ \A r \in late : r.c = c => r.op \in TaskOps
        /\ lease # None /\ lease.by = c =>
             call[c] # None /\ call[c].answer # None /\ call[c].answer.kind = "ok"
FirstClaim(c) ==
    cmd[c].phase # "idle" /\ cmd[c].op = "claim" /\ cmd[c].first =>
        /\ \A r \in late : r.c = c /\ r.op \in TaskOps => r.op = "claim"
        /\ By("claimed", c) => Len(stream) = 2

Commands == \A c \in Agents : Told(c) /\ Command(c) /\ FirstAcquire(c) /\ FirstClaim(c)

IInv == Types /\ Lifecycle /\ Pending /\ Commands /\ ReportsTrue

-----------------------------------------------------------------------------
(* The lifecycle.                                                           *)

\* Only one event of the lifecycle has each type.
LEMMA TypeAt ==
    /\ Len(EventTypes) = 4
    /\ EventTypes[1] = "verified" /\ EventTypes[2] = "claimed"
    /\ EventTypes[3] = "completed_local" /\ EventTypes[4] = "completed"
    /\ \A n \in 1..4 :
        /\ EventTypes[n] = "verified" <=> n = 1
        /\ EventTypes[n] = "claimed" <=> n = 2
        /\ EventTypes[n] = "completed_local" <=> n = 3
        /\ EventTypes[n] = "completed" <=> n = 4
  <1>1. \A n \in 1..4 : n = 1 \/ n = 2 \/ n = 3 \/ n = 4
    OBVIOUS
  <1> QED
    BY <1>1 DEF EventTypes

\* The state that is rebuilt from the events, and the executor it names.
LEMMA StatusOf ==
    ASSUME Types, Lifecycle
    PROVE  LET st == TaskStatusOf(stream)
           IN  /\ Len(stream) \in 0..4 /\ (Len(stream) = 0 <=> stream = <<>>)
               /\ Len(stream) = 0 => st.state = "none"
               /\ Len(stream) > 0 => st.state = EventTypes[Len(stream)]
               /\ Len(stream) >= 2 => st.claimedBy = stream[2].by
               /\ Len(stream) >= 3 => st.completedBy = stream[Len(stream)].by
  <1>1. /\ Len(stream) \in 0..4 /\ (Len(stream) = 0 <=> stream = <<>>)
        /\ \A i \in 1..Len(stream) : stream[i].type = EventTypes[i]
    <2>1. stream \in Seq(Events)
      BY DEF Types
    <2>2. Len(stream) \in Nat /\ (Len(stream) = 0 <=> stream = <<>>)
      BY <2>1
    <2>3. Len(stream) <= 4 /\ \A i \in 1..Len(stream) : stream[i].type = EventTypes[i]
      BY DEF Lifecycle
    <2>4. \A n \in Nat : n <= 4 => n \in 0..4
      OBVIOUS
    <2> QED
      BY <2>2, <2>3, <2>4
  <1>2. /\ Len(stream) = 0 => TaskStatusOf(stream).state = "none"
        /\ Len(stream) > 0 => TaskStatusOf(stream).state = EventTypes[Len(stream)]
    BY <1>1 DEF TaskStatusOf
  <1>3. ASSUME Len(stream) >= 2
        PROVE  ByOf(stream, {"claimed"}) = stream[2].by
    <2> DEFINE idx == {i \in 1..Len(stream) : stream[i].type \in {"claimed"}}
    <2>1. idx = {2}
      BY <1>1, <1>3, TypeAt
    <2>2. (CHOOSE i \in idx : \A j \in idx : j <= i) = 2
      BY <2>1
    <2> QED
      BY <2>1, <2>2 DEF ByOf
  <1>4. ASSUME Len(stream) >= 3
        PROVE  ByOf(stream, {"completed_local", "completed"}) = stream[Len(stream)].by
    <2> DEFINE idx == {i \in 1..Len(stream) :
                          stream[i].type \in {"completed_local", "completed"}}
    <2>1. idx = 3..Len(stream)
      <3>1. \A i \in 1..Len(stream) : i \in {1, 2, 3, 4}
        BY <1>1
      <3> QED
        BY <1>1, <1>4, <3>1, TypeAt
    <2>2. Len(stream) \in idx /\ \A j \in idx : j <= Len(stream)
      BY <1>1, <1>4, <2>1
    <2>3. \A i \in idx : (\A j \in idx : j <= i) => i = Len(stream)
      BY <2>2, <1>1, <2>1
    <2>4. (CHOOSE i \in idx : \A j \in idx : j <= i) = Len(stream)
      BY <2>2, <2>3
    <2>5. idx # {}
      BY <2>2
    <2> QED
      BY <2>4, <2>5 DEF ByOf
  <1> QED
    BY <1>1, <1>2, <1>3, <1>4 DEF TaskStatusOf

\* What the service decides: a command goes on when its event is the next one,
\* and a claim that is there already is answered as done.
LEMMA DecisionMeans ==
    ASSUME Types, Lifecycle, NEW r \in Requests, r.op \in TaskOps
    PROVE  /\ Decision(r) = "proceed" =>
                 \/ r.op = "submit" /\ Len(stream) = 0
                 \/ r.op = "claim" /\ Len(stream) = 1 /\ done = Deps
                 \/ r.op = "complete_local" /\ Len(stream) = 2 /\ stream[2].by = r.c
                 \/ r.op = "complete" /\ Len(stream) = 3 /\ stream[3].by = r.c
           /\ Decision(r) \notin {"proceed", "refuse"} =>
                 \/ r.op = "submit" /\ Len(stream) = 1
                 \/ r.op = "claim" /\ Len(stream) = 2 /\ stream[2].by = r.c
           /\ ProposalStillMatches /\ r.op = "claim" /\ done = Deps /\ Len(stream) = 2 /\ stream[2].by = r.c
                 => Decision(r) # "refuse"
  <1> DEFINE st == TaskStatusOf(stream)
             n == Len(stream)
  <1>1. /\ n \in 0..4 /\ (n = 0 <=> stream = <<>>)
        /\ n = 0 => st.state = "none"
        /\ n > 0 => st.state = EventTypes[n]
        /\ n >= 2 => st.claimedBy = stream[2].by
        /\ n >= 3 => st.completedBy = stream[n].by
    BY StatusOf
  <1>2. /\ st.state = "verified" <=> n = 1
        /\ st.state = "claimed" <=> n = 2
        /\ st.state = "completed_local" <=> n = 3
    <2> HIDE DEF st, n
    <2>1. CASE n = 0
      BY <1>1, <2>1
    <2>2. CASE n # 0
      <3>1. n \in 1..4 /\ st.state = EventTypes[n]
        BY <1>1, <2>2
      <3> QED
        BY <3>1, TypeAt
    <2> QED
      BY <2>1, <2>2
  <1>0. CASE ~ProposalStillMatches
    BY <1>0 DEF Decision
  <1>3. CASE ProposalStillMatches /\ r.op = "submit"
    <2>1. Decision(r) = IF stream = <<>> THEN "proceed"
                        ELSE IF st.state = "verified" THEN "existing" ELSE "refuse"
      BY <1>3 DEF Decision
    <2> QED
      BY <1>1, <1>2, <1>3, <2>1
  <1>4. CASE ProposalStillMatches /\ r.op = "claim"
    <2>1. Decision(r) = IF done = Deps THEN ClaimTransition(st, r.c) ELSE "refuse"
      BY <1>4 DEF Decision
    <2> HIDE DEF st
    <2> QED
      BY <1>1, <1>2, <1>4, <2>1 DEF ClaimTransition
  <1>5. CASE ProposalStillMatches /\ r.op = "complete_local"
    <2>1. Decision(r) = IF Holds(r.c, r.n) THEN CompleteLocalTransition(st, r.c) ELSE "refuse"
      BY <1>5 DEF Decision
    <2> HIDE DEF st
    <2> QED
      BY <1>1, <1>2, <1>5, <2>1 DEF CompleteLocalTransition
  <1>6. CASE ProposalStillMatches /\ r.op = "complete"
    <2>1. Decision(r) = IF Holds(r.c, r.n) THEN CompleteTransition(st, r.c) ELSE "refuse"
      BY <1>6 DEF Decision
    <2> HIDE DEF st
    <2> QED
      BY <1>1, <1>2, <1>6, <2>1 DEF CompleteTransition
  <1> QED
    BY <1>0, <1>3, <1>4, <1>5, <1>6 DEF TaskOps

\* The event that the service appends is the next one of the lifecycle.
LEMMA NextEvent ==
    ASSUME Types, Lifecycle, NEW r \in Requests, r.op \in TaskOps, Decision(r) = "proceed"
    PROVE  /\ Event(r) \in Events /\ Len(stream) < 4
           /\ Event(r).type = EventTypes[Len(stream) + 1]
           /\ Event(r).by = r.c /\ Event(r).at = r.at
           /\ Append(stream, Event(r)) \in Seq(Events)
           /\ Len(Append(stream, Event(r))) = Len(stream) + 1
           /\ Append(stream, Event(r))[Len(stream) + 1] = Event(r)
           /\ \A i \in 1..Len(stream) : Append(stream, Event(r))[i] = stream[i]
  <1>1. EventType(r.op) \in {EventType(op) : op \in TaskOps}
    OBVIOUS
  <1>2. Event(r) \in Events
    BY <1>1 DEF Event, Events, Requests
  <1>3. Len(stream) < 4 /\ EventType(r.op) = EventTypes[Len(stream) + 1]
    <2> DEFINE n == Len(stream)
    <2>1. \/ r.op = "submit" /\ n = 0
          \/ r.op = "claim" /\ n = 1
          \/ r.op = "complete_local" /\ n = 2
          \/ r.op = "complete" /\ n = 3
      BY DecisionMeans
    <2> HIDE DEF n
    <2>2. n < 4 /\ EventType(r.op) = EventTypes[n + 1]
      BY <2>1, TypeAt DEF EventType
    <2> QED
      BY <2>2 DEF n
  <1>4. stream \in Seq(Events)
    BY DEF Types
  <1>5. /\ Event(r).type = EventType(r.op)
        /\ Event(r).by = r.c /\ Event(r).at = r.at
    BY DEF Event
  <1> DEFINE e == Event(r)
  <1> HIDE DEF e
  <1>6. ASSUME e \in Events
        PROVE  /\ Append(stream, e) \in Seq(Events)
               /\ Len(Append(stream, e)) = Len(stream) + 1
               /\ Append(stream, e)[Len(stream) + 1] = e
               /\ \A i \in 1..Len(stream) : Append(stream, e)[i] = stream[i]
    BY <1>4, <1>6
  <1> QED
    BY <1>2, <1>3, <1>5, <1>6 DEF e

\* The claim is the second event and the local completion the third one.
LEMMA ByAt ==
    ASSUME NEW s \in Seq(Events), Len(s) <= 4,
           \A i \in 1..Len(s) : s[i].type = EventTypes[i], NEW x
    PROVE  /\ (\E i \in 1..Len(s) : s[i].type = "claimed" /\ s[i].by = x)
                <=> Len(s) >= 2 /\ s[2].by = x
           /\ (\E i \in 1..Len(s) : s[i].type = "completed_local" /\ s[i].by = x)
                <=> Len(s) >= 3 /\ s[3].by = x
  <1>1. \A i \in 1..Len(s) : i \in 1..4
    BY Len(s) \in Nat
  <1>2. /\ Len(s) >= 2 => 2 \in 1..Len(s)
        /\ Len(s) >= 3 => 3 \in 1..Len(s)
        /\ 2 \in 1..Len(s) => Len(s) >= 2
        /\ 3 \in 1..Len(s) => Len(s) >= 3
    BY Len(s) \in Nat
  <1>3. \A i \in 1..Len(s) : /\ s[i].type = "claimed" <=> i = 2
                             /\ s[i].type = "completed_local" <=> i = 3
    BY <1>1, TypeAt
  <1> QED
    BY <1>2, <1>3

-----------------------------------------------------------------------------
(* The service.                                                             *)

\* What the execution of a request may do to what agents know: the lifecycle
\* grows by the event of the request, a lease appears for its sender, and one
\* disappears only when it is given back.
Effect(r, answer) ==
    /\ stream' \in Seq(Events) /\ lease' \in {None} \cup Leases
    /\ lease' # None => lease'.n <= grants'
    /\ grants' \in 0..MaxGrants /\ grants <= grants' /\ lapsed' = lapsed
    /\ Lifecycle'
    /\ Len(stream) <= Len(stream')
    /\ \A i \in 1..Len(stream) : i \in 1..Len(stream') /\ stream'[i] = stream[i]
    /\ \A x \in Agents, n \in 1..grants :
          HasLease(x, n) => HasLease(x, n)' \/ (r.op = "release" /\ x = r.c /\ n = r.n)
    /\ answer.n # 0 => /\ answer.n = grants + 1 /\ answer.n <= grants'
                       /\ HasLease(r.c, answer.n)'
    /\ answer.kind = "ok" /\ r.op \in TaskOps => HasEvent(r.c, r.op)'
    /\ lease' # None =>
          \/ lease # None /\ lease.by = lease'.by
          \/ lease'.by = r.c /\ r.op = "acquire" /\ answer.kind = "ok"
    /\ \A x : By("claimed", x)' =>
          \/ Len(stream') = 2
          \/ By("claimed", x) /\ (Len(stream) = 2 => r.op = "complete_local" /\ r.c = x)

\* A command of the task.
LEMMA TaskExecutes ==
    ASSUME Types, Lifecycle, NEW r \in Requests, Harmless(r), r.op \in TaskOps,
           NEW answer \in Answers, Executes(r, answer), done' = done, local' = local
    PROVE  Effect(r, answer)
  <1> DEFINE e == Event(r)
             n == Len(stream)
  <1>1. /\ answer = Plain(IF Decision(r) = "refuse" THEN "refused" ELSE "ok")
        /\ stream' = IF Decision(r) = "proceed" THEN Append(stream, e) ELSE stream
        /\ lease' = lease /\ grants' = grants /\ lapsed' = lapsed
    BY DEF Executes, TaskOps
  <1>2. answer.n = 0 /\ (answer.kind = "ok" <=> Decision(r) # "refuse")
    BY <1>1 DEF Plain
  <1>3. /\ lease' \in {None} \cup Leases /\ (lease' # None => lease'.n <= grants')
        /\ grants' \in 0..MaxGrants /\ grants <= grants'
    BY <1>1 DEF Types
  <1>4. \A x \in Agents, k \in 1..grants : HasLease(x, k) => HasLease(x, k)'
    BY <1>1 DEF HasLease, Holds
  <1>5. lease' # None => lease # None /\ lease.by = lease'.by
    BY <1>1
  <1>6. /\ stream \in Seq(Events) /\ n \in 0..4
        /\ \A i \in 1..n : stream[i].type = EventTypes[i]
    BY StatusOf DEF Types, Lifecycle
  <1>7. CASE Decision(r) = "proceed"
    <2>1. /\ \/ r.op = "submit" /\ n = 0
             \/ r.op = "claim" /\ n = 1 /\ done = Deps
             \/ r.op = "complete_local" /\ n = 2 /\ stream[2].by = r.c
             \/ r.op = "complete" /\ n = 3 /\ stream[3].by = r.c
      BY <1>7, DecisionMeans
    <2>2. /\ e \in Events /\ n < 4 /\ e.type = EventTypes[n + 1]
          /\ e.by = r.c /\ e.at = r.at
          /\ stream' \in Seq(Events) /\ Len(stream') = n + 1 /\ stream'[n + 1] = e
          /\ \A i \in 1..n : stream'[i] = stream[i]
      BY <1>1, <1>7, NextEvent
    <2>3. e.type = EventType(r.op)
      BY DEF Event
    <2> HIDE DEF e
    <2>4. \A i \in 1..Len(stream') : i \in 1..n \/ i = n + 1
      BY <2>2, <1>6
    <2>5. Len(stream') <= 4 /\ \A i \in 1..Len(stream') : stream'[i].type = EventTypes[i]
      BY <2>2, <2>4, <1>6
    <2>6. Len(stream') >= 2 => done' = Deps
      <3>1. n >= 2 => done = Deps
        BY DEF Lifecycle
      <3>2. Len(stream') >= 2 => n >= 2 \/ n = 1
        BY <2>2, <1>6
      <3>3. n = 1 => done = Deps
        BY <2>1
      <3> QED
        BY <3>1, <3>2, <3>3
    <2>7. Len(stream') >= 3 => stream'[3].at <= local'[stream'[3].by]
      <3>1. CASE n >= 3
        <4>1. 3 \in 1..n
          BY <3>1, <1>6
        <4> QED
          BY <4>1, <2>2, <3>1 DEF Lifecycle
      <3>2. CASE n = 2
        <4>1. r.op = "complete_local"
          BY <2>1, <3>2
        <4>2. r.at <= local[r.c]
          BY <4>1 DEF Harmless
        <4> QED
          BY <4>2, <2>2, <3>2
      <3> QED
        BY <3>1, <3>2, <2>2, <1>6
    <2>8. Len(stream') = 4 => stream'[3].at <= stream'[4].at
      <3>1. SUFFICES ASSUME n = 3 PROVE stream'[3].at <= stream'[4].at
        <4>1. \A k \in 0..4 : k + 1 = 4 => k = 3
          OBVIOUS
        <4>2. Len(stream') = 4 => n = 3
          BY <2>2, <1>6, <4>1
        <4> QED
          BY <4>2
      <3>2. r.op = "complete"
        BY <2>1, <3>1
      <3>3. stream[3].at <= r.at
        BY <3>2 DEF Harmless
      <3>4. stream'[3] = stream[3] /\ stream'[4] = e
        BY <2>2, <3>1
      <3> QED
        BY <3>3, <3>4, <2>2
    <2>9. Lifecycle'
      BY <2>5, <2>6, <2>7, <2>8 DEF Lifecycle
    <2>10. HasEvent(r.c, r.op)'
      BY <2>2, <2>3, <1>6 DEF HasEvent
    <2>11. ASSUME NEW x, By("claimed", x)'
           PROVE  \/ Len(stream') = 2
                  \/ By("claimed", x) /\ (n = 2 => r.op = "complete_local" /\ r.c = x)
      <3>1. Len(stream') >= 2 /\ stream'[2].by = x
        <4>1. \E i \in 1..Len(stream') : stream'[i].type = "claimed" /\ stream'[i].by = x
          BY <2>11 DEF By
        <4>2. stream' \in Seq(Events) /\ Len(stream') <= 4
          BY <2>2, <2>5
        <4>3. \A i \in 1..Len(stream') : stream'[i].type = EventTypes[i]
          BY <2>5
        <4> QED
          BY <4>1, <4>2, <4>3, ByAt
      <3>2. SUFFICES ASSUME n >= 2
                     PROVE  By("claimed", x) /\ (n = 2 => r.op = "complete_local" /\ r.c = x)
        BY <3>1, <2>2, <1>6
      <3>3. 2 \in 1..n
        BY <3>2, <1>6
      <3>4. stream[2].by = x
        BY <3>1, <3>3, <2>2
      <3>5. By("claimed", x)
        <4>1. stream[2].type = "claimed"
          BY <1>6, <3>3, TypeAt
        <4> QED
          BY <4>1, <3>3, <3>4 DEF By
      <3> QED
        BY <2>1, <3>4, <3>5
    <2>12. n <= Len(stream') /\ \A i \in 1..n : i \in 1..Len(stream')
      BY <2>2, <1>6
    <2> QED
      <3>1. lapsed' = lapsed
        BY <1>1
      <3> QED
        BY <1>2, <1>3, <1>4, <1>5, <2>2, <2>9, <2>10, <2>11, <2>12, <3>1
           DEF Effect, HasLease, Holds, HasEvent, By
  <1>8. CASE Decision(r) # "proceed"
    <2>1. stream' = stream
      BY <1>1, <1>8
    <2>2. Lifecycle'
      BY <2>1 DEF Lifecycle
    <2>3. answer.kind = "ok" => HasEvent(r.c, r.op)'
      <3>1. SUFFICES ASSUME Decision(r) \notin {"proceed", "refuse"}
                     PROVE  HasEvent(r.c, r.op)
        BY <1>2, <1>8, <2>1 DEF HasEvent
      <3>2. \/ r.op = "submit" /\ n = 1
            \/ r.op = "claim" /\ n = 2 /\ stream[2].by = r.c
        BY <3>1, DecisionMeans
      <3>3. CASE r.op = "submit" /\ n = 1
        BY <3>3, <1>6, TypeAt DEF HasEvent, EventType
      <3>4. CASE r.op = "claim" /\ n = 2 /\ stream[2].by = r.c
        BY <3>4, <1>6, TypeAt DEF HasEvent, EventType
      <3> QED
        BY <3>2, <3>3, <3>4
    <2>4. \A x : By("claimed", x)' /\ Len(stream') # 2 =>
                    By("claimed", x) /\ Len(stream) # 2
      BY <2>1 DEF By
    <2>5. Len(stream) <= Len(stream') /\ \A i \in 1..n : i \in 1..Len(stream')
      BY <2>1, <1>6
    <2> QED
      <3>1. lapsed' = lapsed
        BY <1>1
      <3>2. stream' \in Seq(Events) /\ \A i \in 1..n : stream'[i] = stream[i]
        BY <1>6, <2>1
      <3> QED
        BY <1>2, <1>3, <1>4, <1>5, <2>2, <2>3, <2>4, <2>5, <3>1, <3>2
           DEF Effect, HasLease, Holds, HasEvent, By
  <1> QED
    BY <1>7, <1>8

\* What the events say of an agent's claim and of its completed work.
LEMMA EventsBy ==
    ASSUME Types, Lifecycle, NEW x
    PROVE  /\ By("claimed", x) => Len(stream) >= 2 /\ stream[2].by = x
           /\ By("completed_local", x) =>
                 Len(stream) >= 3 /\ stream[3].by = x /\ stream[3].at <= local[x]
  <1>1. Len(stream) \in 0..4
    BY StatusOf
  <1>2. ASSUME NEW i \in 1..Len(stream)
        PROVE  /\ stream[i].type = "claimed" => i = 2
               /\ stream[i].type = "completed_local" => i = 3
    <2>1. \A k \in 0..4 : \A m \in 1..k : m \in 1..4
      OBVIOUS
    <2>2. i \in 1..4
      BY <1>1, <2>1
    <2>3. stream[i].type = EventTypes[i]
      BY DEF Lifecycle
    <2> QED
      BY <2>2, <2>3, TypeAt
  <1>3. \A k \in 0..4 : (2 \in 1..k => k >= 2) /\ (3 \in 1..k => k >= 3)
    OBVIOUS
  <1>4. (2 \in 1..Len(stream) => Len(stream) >= 2) /\ (3 \in 1..Len(stream) => Len(stream) >= 3)
    BY <1>1, <1>3
  <1>5. By("claimed", x) => Len(stream) >= 2 /\ stream[2].by = x
    BY <1>2, <1>4 DEF By
  <1>6. By("completed_local", x) => Len(stream) >= 3 /\ stream[3].by = x
    BY <1>2, <1>4 DEF By
  <1>7. Len(stream) >= 3 => stream[3].at <= local[stream[3].by]
    BY DEF Lifecycle
  <1> QED
    BY <1>5, <1>6, <1>7

\* What does not touch the lifecycle keeps what is said of it.
LEMMA SameStream ==
    ASSUME Types, Lifecycle, stream' = stream, done' = done, local' = local
    PROVE  /\ stream' \in Seq(Events) /\ Lifecycle'
           /\ Len(stream) <= Len(stream')
           /\ \A i \in 1..Len(stream) : i \in 1..Len(stream') /\ stream'[i] = stream[i]
           /\ \A x : By("claimed", x)' => By("claimed", x)
           /\ \A x : By("claimed", x)' =>
                 \/ Len(stream') = 2
                 \/ By("claimed", x) /\ Len(stream) # 2
  <1>1. stream \in Seq(Events) /\ Len(stream) \in 0..4
    BY StatusOf DEF Types
  <1>2. Lifecycle'
    BY DEF Lifecycle
  <1>3. \A x : By("claimed", x)' => By("claimed", x)
    BY DEF By
  <1>4. \A x : By("claimed", x)' => Len(stream') = 2 \/ (By("claimed", x) /\ Len(stream) # 2)
    BY DEF By
  <1> QED
    BY <1>1, <1>2, <1>3, <1>4 DEF By

\* An acquisition, whether it gets the lease or is told that it is held.
LEMMA AcquireExecutes ==
    ASSUME Types, Lifecycle, NEW r \in Requests, r.op = "acquire",
           NEW answer \in Answers, Executes(r, answer), done' = done, local' = local
    PROVE  Effect(r, answer)
  <1>1. stream' = stream /\ lapsed' = lapsed
    BY DEF Executes, TaskOps
  <1>2. r.c \in Agents
    BY DEF Requests
  <1>3. CASE lease = None
    <2>1. /\ grants < MaxGrants /\ answer = [kind |-> "ok", n |-> grants + 1]
          /\ lease' = [by |-> r.c, n |-> grants + 1] /\ grants' = grants + 1
      BY <1>3 DEF Executes, TaskOps
    <2>2. grants \in Nat /\ MaxGrants \in Nat
      BY ClientAssumption DEF Types
    <2>3. /\ lease' \in Leases /\ lease'.n <= grants'
          /\ grants' \in 0..MaxGrants /\ grants <= grants'
      BY <2>1, <2>2, <1>2 DEF Leases
    <2>4. lease' # None
      BY <2>3, ClientAssumption
    <2>5. answer.n = grants + 1 /\ answer.n <= grants' /\ answer.kind = "ok"
      BY <2>1, <2>2
    <2>6. HasLease(r.c, answer.n)'
      BY <2>1, <2>4, <2>5 DEF HasLease, Holds
    <2>7. \A x \in Agents, n \in 1..grants : HasLease(x, n) => HasLease(x, n)'
      BY <1>1, <1>3 DEF HasLease, Holds
    <2>8. lease'.by = r.c
      BY <2>1
    <2>9. r.op \notin TaskOps
      BY DEF TaskOps
    <2> QED
      BY <1>1, <2>3, <2>5, <2>6, <2>7, <2>8, <2>9, SameStream
         DEF Effect, HasLease, Holds, HasEvent, By
  <1>4. CASE lease # None
    <2>1. answer = Plain("held") /\ lease' = lease /\ grants' = grants
      BY <1>4 DEF Executes, TaskOps
    <2>2. answer.n = 0 /\ r.op \notin TaskOps
      BY <2>1 DEF Plain, TaskOps
    <2>3. /\ lease' \in {None} \cup Leases /\ (lease' # None => lease'.n <= grants')
          /\ grants' \in 0..MaxGrants /\ grants <= grants'
      BY <2>1 DEF Types
    <2>4. \A x \in Agents, n \in 1..grants : HasLease(x, n) => HasLease(x, n)'
      BY <1>1, <2>1 DEF HasLease, Holds
    <2> QED
      BY <1>1, <2>1, <2>2, <2>3, <2>4, SameStream
         DEF Effect, HasLease, Holds, HasEvent, By
  <1> QED
    BY <1>3, <1>4

\* A release takes away the lease that its sender gives back, and no other.
LEMMA ReleaseExecutes ==
    ASSUME Types, Lifecycle, NEW r \in Requests, r.op = "release",
           NEW answer \in Answers, Executes(r, answer), done' = done, local' = local
    PROVE  Effect(r, answer)
  <1>1. /\ stream' = stream /\ lapsed' = lapsed /\ grants' = grants
        /\ answer = Plain("ok")
        /\ lease' = IF Holds(r.c, r.n) THEN None ELSE lease
    BY DEF Executes, TaskOps, CredentialMatches
  <1>2. answer.n = 0 /\ r.op \notin TaskOps
    BY <1>1 DEF Plain, TaskOps
  <1>3. /\ lease' \in {None} \cup Leases /\ (lease' # None => lease'.n <= grants')
        /\ grants' \in 0..MaxGrants /\ grants <= grants'
    BY <1>1 DEF Types
  <1>4. \A x \in Agents, n \in 1..grants :
           HasLease(x, n) => HasLease(x, n)' \/ (r.op = "release" /\ x = r.c /\ n = r.n)
    BY <1>1 DEF HasLease, Holds
  <1>5. lease' # None => lease # None /\ lease.by = lease'.by
    BY <1>1
  <1> QED
    BY <1>1, <1>2, <1>3, <1>4, <1>5, SameStream
       DEF Effect, HasLease, Holds, HasEvent, By

\* Every request.
LEMMA Executed ==
    ASSUME Types, Lifecycle, NEW r \in Requests, Harmless(r),
           NEW answer \in Answers, Executes(r, answer), done' = done, local' = local
    PROVE  Effect(r, answer)
  BY TaskExecutes, AcquireExecutes, ReleaseExecutes DEF Requests, LeaseOps

\* An answer is put into the request that is open, and nothing else changes.
LEMMA Answering ==
    ASSUME call \in [Agents -> {None} \cup Calls], NEW c \in Agents,
           call[c] # None, NEW answer \in [kind : {"ok", "refused", "held", "busy"}, n : 0..MaxGrants],
           call' = [call EXCEPT ![c].answer = answer]
    PROVE  /\ call' \in [Agents -> {None} \cup Calls]
           /\ call'[c] # None /\ call'[c].req = call[c].req /\ call'[c].answer = answer
           /\ \A x \in Agents : x # c => call'[x] = call[x]
           /\ answer # None
  <1>1. call[c] \in Calls
    OBVIOUS
  <1>2. [call[c] EXCEPT !.answer = answer] \in Calls
    BY <1>1 DEF Calls
  <1>3. /\ [call[c] EXCEPT !.answer = answer].req = call[c].req
        /\ [call[c] EXCEPT !.answer = answer].answer = answer
    BY <1>1 DEF Calls
  <1>4. call'[c] = [call[c] EXCEPT !.answer = answer]
    OBVIOUS
  <1>5. call'[c] # None
    BY <1>2, <1>4, ClientAssumption
  <1> QED
    BY <1>2, <1>3, <1>4, <1>5, ClientAssumption

\* Where a request that is executed comes from: it was given up, or its sender
\* waits for it and is answered.
Served(r, answer) ==
    \/ r \in late /\ call' = call
    \/ /\ call[r.c] # None /\ call[r.c].answer = None /\ r = call[r.c].req
       /\ call' = [call EXCEPT ![r.c].answer = answer]

\* The execution of a request keeps the invariant.
LEMMA EffectKeeps ==
    ASSUME IInv, NEW r \in Requests, NEW answer \in Answers, Served(r, answer),
           Effect(r, answer), late' \subseteq late, done' = done, KeepClient
    PROVE  IInv'
  <1>1. /\ Types /\ Lifecycle /\ Pending /\ \A x \in Agents : Told(x) /\ Command(x)
        /\ \A x \in Agents : FirstAcquire(x) /\ FirstClaim(x)
    BY DEF IInv, Commands
  <1>2. /\ cmd' = cmd /\ cred' = cred /\ local' = local /\ track' = track /\ exit' = None
    BY DEF KeepClient
  <1>3. r.c \in Agents
    BY DEF Requests
  <1>4. /\ answer \in [kind : {"ok", "refused", "held", "busy"}, n : 0..MaxGrants]
        /\ answer.n \in 0..MaxGrants
    BY DEF Answers
  <1>5. call \in [Agents -> {None} \cup Calls]
    BY <1>1 DEF Types
  <1>6. /\ call' \in [Agents -> {None} \cup Calls]
        /\ \A x \in Agents :
              /\ call'[x] # None <=> call[x] # None
              /\ call'[x] # None => call'[x].req = call[x].req
              /\ \/ call'[x] = call[x]
                 \/ /\ x = r.c /\ call[x] # None /\ call[x].req = r /\ call[x].answer = None
                    /\ call'[x].answer = answer
              /\ call'[x] # None /\ call'[x].answer = None => call[x].answer = None
    <2>1. CASE r \in late /\ call' = call
      BY <1>5, <2>1
    <2>2. CASE /\ call[r.c] # None /\ call[r.c].answer = None /\ r = call[r.c].req
               /\ call' = [call EXCEPT ![r.c].answer = answer]
      BY <1>3, <1>4, <1>5, <2>2, Answering
    <2> QED
      BY <2>1, <2>2 DEF Served
  <1>7. Types'
    BY <1>1, <1>2, <1>6 DEF Types, Effect
  <1>8. Lifecycle'
    BY DEF Effect
  <1>9. ASSUME NEW q \in Requests, Unexecuted(q)'
        PROVE  Harmless(q)'
    <2>0. q.c \in Agents /\ q.n \in {None} \cup (1..MaxGrants)
      BY DEF Requests
    <2>1. Unexecuted(q)
      BY <1>6, <1>9, <2>0 DEF Unexecuted
    <2>2. Harmless(q)
      BY <1>1, <2>1 DEF Pending
    <2>3. q.n # None => q.n <= grants'
      <3>1. grants \in Nat /\ grants' \in Nat /\ grants <= grants'
        BY <1>1 DEF Types, Effect
      <3> QED
        BY <2>0, <2>2, <3>1 DEF Harmless
    <2>4. q.op = "complete" => Len(stream') >= 3 /\ stream'[3].at <= q.at
      <3>1. Len(stream) \in 0..4 /\ Len(stream) <= Len(stream')
        BY <1>1, StatusOf DEF Effect
      <3>2. Len(stream) >= 3 => Len(stream') >= 3 /\ stream'[3] = stream[3]
        <4>1. Len(stream) >= 3 => 3 \in 1..Len(stream)
          BY <3>1
        <4>2. stream' \in Seq(Events)
          BY DEF Effect
        <4> QED
          BY <3>1, <4>1, <4>2 DEF Effect
      <3> QED
        BY <2>2, <3>2 DEF Harmless
    <2>5. q.op = "release" /\ call'[q.c] # None /\ call'[q.c].answer # None
            => call'[q.c].answer.n # q.n
      <3>1. CASE call'[q.c] = call[q.c]
        BY <2>2, <3>1 DEF Harmless
      <3>2. CASE call'[q.c].answer = answer
        <4>1. grants \in Nat
          BY <1>1 DEF Types
        <4>2. q.op = "release" => q.n \in 1..MaxGrants /\ q.n <= grants
          BY <2>0, <2>2 DEF Harmless
        <4>3. answer.n = 0 \/ answer.n = grants + 1
          BY DEF Effect
        <4> QED
          BY <3>2, <4>1, <4>2, <4>3
      <3> QED
        BY <1>6, <2>0, <3>1, <3>2
    <2> QED
      BY <1>2, <2>2, <2>3, <2>4, <2>5 DEF Harmless
  <1>10. ASSUME NEW x \in Agents
         PROVE  Told(x)'
    <2>1. cred[x] \in {None} \cup (1..grants) /\ grants \in Nat
      BY <1>1 DEF Types
    <2>2. ASSUME NEW n \in 1..grants, HasLease(x, n), x = r.c /\ r.op = "release" => n # r.n
          PROVE  HasLease(x, n)'
      BY <2>2 DEF Effect, HasLease, Holds
    <2>3. ASSUME NEW n \in 1..grants, n = cred[x]
          PROVE  HasLease(x, n)'
      <3>1. x = r.c /\ r.op = "release" => n # r.n
        <4>1. Unexecuted(r)
          BY DEF Served, Unexecuted
        <4> QED
          BY <1>1, <2>3, <4>1 DEF Pending, Harmless
      <3>2. n # None
        BY <2>1, ClientAssumption
      <3>3. HasLease(x, n)
        BY <1>1, <2>3, <3>2 DEF Told
      <3> QED
        BY <2>2, <3>1, <3>3
    <2>4. ASSUME NEW n, n # 0, call'[x] # None, call'[x].answer # None, call'[x].answer.n = n
          PROVE  n <= grants' /\ HasLease(x, n)'
      <3>1. CASE call'[x] = call[x]
        <4>1. n <= grants /\ HasLease(x, n)
          BY <1>1, <2>4, <3>1 DEF Told
        <4>2. n \in 1..grants
          <5>1. call[x] \in Calls /\ call[x].answer # None
            BY <1>5, <2>4, <3>1
          <5>2. n \in 0..MaxGrants
            BY <5>1, <2>4, <3>1 DEF Calls
          <5> QED
            BY <2>1, <2>4, <4>1, <5>2
        <4>3. x = r.c /\ r.op = "release" => n # r.n
          <5>1. Unexecuted(r)
            BY DEF Served, Unexecuted
          <5> QED
            BY <1>1, <2>4, <3>1, <5>1 DEF Pending, Harmless
        <4>4. HasLease(x, n)'
          BY <2>2, <4>1, <4>2, <4>3
        <4>5. grants <= grants' /\ grants' \in Nat
          BY DEF Effect
        <4> QED
          BY <2>1, <4>2, <4>4, <4>5
      <3>2. CASE x = r.c /\ call'[x].answer = answer
        BY <2>4, <3>2 DEF Effect, HasLease, Holds
      <3> QED
        BY <1>6, <3>1, <3>2
    <2>5. ASSUME NEW op \in TaskOps, call'[x] # None, call'[x].answer # None,
                 call'[x].answer.kind = "ok", call'[x].req.op = op
          PROVE  HasEvent(x, op)'
      <3>1. CASE call'[x] = call[x]
        <4>1. HasEvent(x, op)
          BY <1>1, <2>5, <3>1 DEF Told
        <4>2. PICK i \in 1..Len(stream) : /\ stream[i].type = EventType(op)
                                          /\ op = "submit" \/ stream[i].by = x
          BY <4>1 DEF HasEvent
        <4>3. i \in 1..Len(stream') /\ stream'[i] = stream[i]
          BY DEF Effect
        <4> QED
          BY <4>2, <4>3 DEF HasEvent
      <3>2. CASE x = r.c /\ call'[x].answer = answer /\ call[x].req = r
        <4>1. r.op = op /\ answer.kind = "ok"
          BY <1>6, <2>5, <3>2
        <4> QED
          BY <3>2, <4>1 DEF Effect, HasEvent
      <3> QED
        BY <1>6, <3>1, <3>2
    <2>6. cred'[x] # None => HasLease(x, cred[x])'
      BY <1>2, <2>1, <2>3 DEF HasLease, Holds
    <2>7. call'[x] # None /\ call'[x].answer # None /\ call'[x].answer.n # 0
            => call'[x].answer.n <= grants' /\ HasLease(x, call[x].answer.n)'
      BY <2>4 DEF HasLease, Holds
    <2> QED
      BY <2>5, <2>6, <2>7 DEF Told, HasLease, Holds, HasEvent
  <1>11. ASSUME NEW x \in Agents
         PROVE  Command(x)'
    <2>1. Command(x)
      BY <1>1
    <2>2. Len(stream) >= 3 => Len(stream') >= 3 /\ stream'[3] = stream[3]
      <3>1. Len(stream) \in 0..4 /\ Len(stream) <= Len(stream')
        BY <1>1, StatusOf DEF Effect
      <3>2. Len(stream) >= 3 => 3 \in 1..Len(stream)
        BY <3>1
      <3>3. stream' \in Seq(Events)
        BY DEF Effect
      <3> QED
        BY <3>1, <3>2, <3>3 DEF Effect
    <2> QED
      BY <1>2, <1>6, <2>1, <2>2 DEF Command
  <1>12. ASSUME NEW x \in Agents
         PROVE  FirstAcquire(x)'
    <2>1. SUFFICES ASSUME cmd[x].phase # "idle", cmd[x].op = "acquire", cmd[x].first
                   PROVE  /\ \A q \in late' : q.c = x => q.op \in TaskOps
                          /\ lease' # None /\ lease'.by = x =>
                               /\ call'[x] # None /\ call'[x].answer # None
                               /\ call'[x].answer.kind = "ok"
      BY <1>2 DEF FirstAcquire
    <2>2. /\ \A q \in late : q.c = x => q.op \in TaskOps
          /\ lease # None /\ lease.by = x =>
               call[x] # None /\ call[x].answer # None /\ call[x].answer.kind = "ok"
      BY <1>1, <2>1 DEF FirstAcquire
    <2>3. ASSUME lease' # None, lease'.by = x
          PROVE  /\ call'[x] # None /\ call'[x].answer # None
                 /\ call'[x].answer.kind = "ok"
      <3>1. CASE lease # None /\ lease.by = x
        <4>1. call'[x] = call[x]
          BY <1>6, <2>2, <3>1
        <4> QED
          BY <2>2, <3>1, <4>1
      <3>2. CASE x = r.c /\ r.op = "acquire" /\ answer.kind = "ok"
        <4>1. r \notin late
          BY <2>2, <3>2 DEF TaskOps
        <4>2. /\ call[x] # None
              /\ call' = [call EXCEPT ![x].answer = answer]
          BY <3>2, <4>1 DEF Served
        <4> QED
          BY <1>4, <1>5, <3>2, <4>2, Answering
      <3> QED
        BY <2>3, <3>1, <3>2 DEF Effect
    <2> QED
      BY <2>2, <2>3
  <1>13. ASSUME NEW x \in Agents
         PROVE  FirstClaim(x)'
    <2>1. SUFFICES ASSUME cmd[x].phase # "idle", cmd[x].op = "claim", cmd[x].first
                   PROVE  /\ \A q \in late' : q.c = x /\ q.op \in TaskOps => q.op = "claim"
                          /\ By("claimed", x)' => Len(stream') = 2
      BY <1>2 DEF FirstClaim
    <2>2. /\ \A q \in late : q.c = x /\ q.op \in TaskOps => q.op = "claim"
          /\ By("claimed", x) => Len(stream) = 2
      BY <1>1, <2>1 DEF FirstClaim
    <2>3. r.c = x /\ r.op \in TaskOps => r.op = "claim"
      <3>1. CASE r \in late
        BY <2>2, <3>1
      <3>2. CASE call[r.c] # None /\ r = call[r.c].req
        BY <1>1, <2>1, <3>2 DEF Command
      <3> QED
        BY <3>1, <3>2 DEF Served
    <2>4. ~(r.op = "complete_local" /\ r.c = x)
      BY <2>3 DEF TaskOps
    <2>5. By("claimed", x)' => Len(stream') = 2
      BY <2>2, <2>4 DEF Effect, By
    <2> QED
      BY <2>2, <2>5
  <1>14. ReportsTrue'
    BY <1>2 DEF ReportsTrue, ToldIsTrue, AcquireHonest, WaitSound
  <1>15. Pending'
    BY <1>9 DEF Pending, Unexecuted, Harmless
  <1>16. Commands'
    BY <1>10, <1>11, <1>12, <1>13 DEF Commands
  <1> QED
    BY <1>7, <1>8, <1>14, <1>15, <1>16 DEF IInv

\* A request that its sender waits for is executed and answered.
LEMMA ServeStep == ASSUME IInv, NEW c \in Agents, Serve(c) PROVE IInv'
  <1> DEFINE r == call[c].req
  <1>1. /\ call[c] # None /\ call[c].answer = None
        /\ late' = late /\ done' = done /\ KeepClient
    BY DEF Serve
  <1>2. PICK answer \in Answers :
           Executes(r, answer) /\ call' = [call EXCEPT ![c].answer = answer]
    BY DEF Serve
  <1>3. Types /\ Lifecycle /\ Pending /\ Command(c)
    BY DEF IInv, Commands
  <1>4. r \in Requests /\ r.c = c
    <2>1. call[c] \in Calls
      BY <1>1, <1>3 DEF Types
    <2> QED
      BY <1>1, <1>3, <2>1 DEF Calls, Command
  <1>5. Served(r, answer)
    BY <1>1, <1>2, <1>4 DEF Served
  <1>6. Harmless(r)
    BY <1>1, <1>3, <1>4 DEF Pending, Unexecuted
  <1> HIDE DEF r
  <1>7. Effect(r, answer)
    BY <1>1, <1>2, <1>3, <1>4, <1>6, Executed DEF KeepClient
  <1> QED
    BY <1>1, <1>4, <1>5, <1>7, EffectKeeps

\* A request that its sender has given up is executed.
LEMMA ServeLateStep == ASSUME IInv, NEW r \in late, ServeLate(r) PROVE IInv'
  <1>1. late' = late \ {r} /\ done' = done /\ call' = call /\ KeepClient
    BY DEF ServeLate
  <1>2. PICK answer \in Answers : Executes(r, answer)
    BY DEF ServeLate
  <1>3. Types /\ Lifecycle /\ Pending
    BY DEF IInv
  <1>4. r \in Requests
    BY <1>3 DEF Types
  <1>5. Served(r, answer)
    BY <1>1 DEF Served
  <1>6. Harmless(r)
    BY <1>3, <1>4 DEF Pending, Unexecuted
  <1>7. Effect(r, answer)
    BY <1>1, <1>2, <1>3, <1>4, <1>6, Executed DEF KeepClient
  <1> QED
    BY <1>1, <1>4, <1>5, <1>7, EffectKeeps

\* A request is answered that the service is busy.
LEMMA BusyStep == ASSUME IInv, NEW c \in Agents, ServeBusy(c) PROVE IInv'
  <1> DEFINE answer == Plain("busy")
  <1>1. /\ call[c] # None /\ call[c].answer = None /\ late' = late
        /\ call' = [call EXCEPT ![c].answer = answer]
        /\ UNCHANGED <<stream, done, lease, grants, lapsed>>
        /\ cmd' = cmd /\ cred' = cred /\ local' = local /\ track' = track /\ exit' = None
    BY DEF ServeBusy, KeepClient
  <1>2. Types /\ Lifecycle /\ Pending /\ Commands
    BY DEF IInv
  <1>3. /\ answer \in [kind : {"ok", "refused", "held", "busy"}, n : 0..MaxGrants]
        /\ answer.n = 0 /\ answer.kind = "busy"
    BY ClientAssumption DEF Plain
  <1> HIDE DEF answer
  <1>4. /\ call' \in [Agents -> {None} \cup Calls]
        /\ call'[c] # None /\ call'[c].req = call[c].req /\ call'[c].answer = answer
        /\ \A x \in Agents : x # c => call'[x] = call[x]
        /\ answer # None
    BY <1>1, <1>2, <1>3, Answering DEF Types
  <1>5. Types'
    BY <1>1, <1>2, <1>4 DEF Types
  <1>6. Lifecycle'
    BY <1>1, <1>2 DEF Lifecycle
  <1>7. ASSUME NEW q \in Requests, Unexecuted(q)' PROVE Harmless(q)'
    <2>1. q.c \in Agents /\ q.n \in {None} \cup (1..MaxGrants)
      BY DEF Requests
    <2>2. Unexecuted(q)
      BY <1>1, <1>4, <1>7, <2>1 DEF Unexecuted
    <2>3. Harmless(q)
      BY <1>2, <2>2 DEF Pending
    <2>4. q.op = "release" => q.n # 0
      BY <2>1, <2>3 DEF Harmless
    <2> QED
      BY <1>1, <1>3, <1>4, <2>1, <2>3, <2>4 DEF Harmless
  <1>8. ASSUME NEW x \in Agents PROVE Told(x)'
    BY <1>1, <1>2, <1>3, <1>4 DEF Commands, Told, HasLease, Holds, HasEvent
  <1>9. ASSUME NEW x \in Agents PROVE Command(x)'
    BY <1>1, <1>2, <1>4 DEF Commands, Command
  <1>10. ASSUME NEW x \in Agents PROVE FirstAcquire(x)' /\ FirstClaim(x)'
    BY <1>1, <1>2, <1>4 DEF Commands, FirstAcquire, FirstClaim, By
  <1>11. ReportsTrue'
    BY <1>1 DEF ReportsTrue, ToldIsTrue, AcquireHonest, WaitSound
  <1>12. Pending'
    BY <1>7 DEF Pending, Unexecuted, Harmless
  <1>13. Commands'
    BY <1>8, <1>9, <1>10 DEF Commands
  <1> QED
    BY <1>5, <1>6, <1>11, <1>12, <1>13 DEF IInv

\* A lease expires: whoever was told of it finds it among the lapsed ones.
LEMMA LapseStep == ASSUME IInv, Lapse PROVE IInv'
  <1>1. /\ lease # None /\ lease' = None /\ lapsed' = lapsed \cup {lease.n}
        /\ UNCHANGED <<stream, done, grants, late, call>>
        /\ cmd' = cmd /\ cred' = cred /\ local' = local /\ track' = track /\ exit' = None
    BY DEF Lapse, KeepClient
  <1>2. Types /\ Lifecycle /\ Pending /\ Commands
    BY DEF IInv
  <1>3. Types'
    <2>1. lease.n \in 1..grants
      <3>1. lease \in Leases /\ lease.n <= grants /\ grants \in Nat
        BY <1>1, <1>2 DEF Types
      <3>2. lease.n \in 1..MaxGrants
        BY <3>1 DEF Leases
      <3> QED
        BY <3>1, <3>2
    <2> QED
      BY <1>1, <1>2, <2>1 DEF Types
  <1>4. Lifecycle'
    BY <1>1, <1>2 DEF Lifecycle
  <1>5. Pending'
    BY <1>1, <1>2 DEF Pending, Unexecuted, Harmless
  <1>6. ASSUME NEW x \in Agents PROVE Told(x)'
    BY <1>1, <1>2 DEF Commands, Told, HasLease, Holds, HasEvent
  <1>7. ASSUME NEW x \in Agents PROVE Command(x)' /\ FirstAcquire(x)' /\ FirstClaim(x)'
    BY <1>1, <1>2 DEF Commands, Command, FirstAcquire, FirstClaim, By
  <1>8. ReportsTrue'
    BY <1>1 DEF ReportsTrue, ToldIsTrue, AcquireHonest, WaitSound
  <1>9. Commands'
    BY <1>6, <1>7 DEF Commands
  <1> QED
    BY <1>3, <1>4, <1>5, <1>8, <1>9 DEF IInv

\* A dependency completes: a reader has read of it before or finds it completed.
LEMMA DependencyStep == ASSUME IInv, NEW d \in Deps, DependencyCompletes(d) PROVE IInv'
  <1>1. /\ done' = done \cup {d}
        /\ UNCHANGED <<stream, lease, grants, lapsed, late, call>>
        /\ cmd' = cmd /\ cred' = cred /\ local' = local /\ track' = track /\ exit' = None
    BY DEF DependencyCompletes, KeepClient
  <1>2. Types /\ Lifecycle /\ Pending /\ Commands
    BY DEF IInv
  <1>3. Types'
    BY <1>1, <1>2 DEF Types
  <1>4. Lifecycle'
    BY <1>1, <1>2 DEF Lifecycle
  <1>5. Pending'
    BY <1>1, <1>2 DEF Pending, Unexecuted, Harmless
  <1>6. ASSUME NEW x \in Agents PROVE Told(x)'
    BY <1>1, <1>2 DEF Commands, Told, HasLease, Holds, HasEvent
  <1>7. ASSUME NEW x \in Agents PROVE Command(x)' /\ FirstAcquire(x)' /\ FirstClaim(x)'
    BY <1>1, <1>2 DEF Commands, Command, FirstAcquire, FirstClaim, By
  <1>8. ReportsTrue'
    BY <1>1 DEF ReportsTrue, ToldIsTrue, AcquireHonest, WaitSound
  <1>9. Commands'
    BY <1>6, <1>7 DEF Commands
  <1> QED
    BY <1>3, <1>4, <1>5, <1>8, <1>9 DEF IInv

\* The documents are edited: nothing that was executed or told changes.
LEMMA EditedStep == ASSUME IInv, DocsEdited PROVE IInv'
  <1>1. /\ UNCHANGED <<stream, done, lease, grants, lapsed, late, call>>
        /\ cmd' = cmd /\ cred' = cred /\ local' = local /\ track' = track /\ exit' = None
    BY DEF DocsEdited, KeepClient
  <1>2. Types' /\ Lifecycle' /\ Pending'
    BY <1>1 DEF IInv, Types, Lifecycle, Pending, Unexecuted, Harmless
  <1>3. \A x \in Agents : Told(x)' /\ Command(x)' /\ FirstAcquire(x)' /\ FirstClaim(x)'
    BY <1>1 DEF IInv, Commands, Told, Command, FirstAcquire, FirstClaim, HasLease, Holds,
           HasEvent, By
  <1>4. ReportsTrue'
    BY <1>1 DEF ReportsTrue, ToldIsTrue, AcquireHonest, WaitSound
  <1>5. Commands'
    BY <1>3 DEF Commands
  <1> QED
    BY <1>2, <1>4, <1>5 DEF IInv

-----------------------------------------------------------------------------
(* The agents.                                                              *)

\* A step of agent c: the service is left alone, and so are the other agents.
AgentStep(c) ==
    /\ KeepService
    /\ \A x \in Agents : local[x] <= local'[x]
    /\ \A x \in Agents \ {c} :
          /\ cmd'[x] = cmd[x] /\ call'[x] = call[x] /\ cred'[x] = cred[x]
          /\ track'[x] = track[x]
          /\ \A r \in late' : r.c = x => r \in late

\* Nothing changes for the other agents and their requests.
LEMMA Others ==
    ASSUME IInv, NEW c \in Agents, AgentStep(c), Types', NEW x \in Agents, x # c
    PROVE  /\ (Told(x) /\ Command(x) /\ FirstAcquire(x) /\ FirstClaim(x))'
           /\ \A r \in Requests : r.c = x /\ Unexecuted(r)' => Harmless(r)'
  <1>1. Types /\ Pending /\ Commands
    BY DEF IInv
  <1>2. /\ UNCHANGED <<stream, done, asVerified, lease, grants, lapsed>>
        /\ cmd'[x] = cmd[x] /\ call'[x] = call[x] /\ cred'[x] = cred[x]
        /\ track'[x] = track[x]
        /\ \A r \in late' : r.c = x => r \in late
        /\ local[x] <= local'[x]
    BY DEF AgentStep, KeepService
  <1>3. Told(x)'
    BY <1>1, <1>2 DEF Commands, Told, HasLease, Holds, HasEvent
  <1>4. Command(x)'
    BY <1>1, <1>2 DEF Commands, Command
  <1>5. FirstAcquire(x)' /\ FirstClaim(x)'
    BY <1>1, <1>2 DEF Commands, FirstAcquire, FirstClaim, By
  <1>6. ASSUME NEW r \in Requests, r.c = x, Unexecuted(r)'
        PROVE  Harmless(r)'
    <2>1. Unexecuted(r)
      BY <1>2, <1>6 DEF Unexecuted
    <2>2. Harmless(r)
      BY <1>1, <2>1 DEF Pending
    <2>3. r.at \in Nat /\ local[x] \in Nat /\ local'[x] \in Nat
      BY <1>1 DEF Types, Requests
    <2>4. r.op = "complete_local" => r.at <= local'[x]
      BY <1>2, <1>6, <2>2, <2>3 DEF Harmless
    <2> QED
      BY <1>2, <1>6, <2>2, <2>4 DEF Harmless
  <1> QED
    BY <1>3, <1>4, <1>5, <1>6

\* The work that was completed locally stays behind what its agent has.
LEMMA LifecycleStays ==
    ASSUME IInv, NEW c \in Agents, AgentStep(c), Types' PROVE Lifecycle'
  <1>1. Types /\ Lifecycle
    BY DEF IInv
  <1>2. stream' = stream /\ done' = done /\ \A x \in Agents : local[x] <= local'[x]
    BY DEF AgentStep, KeepService
  <1>3. ASSUME Len(stream) >= 3
        PROVE  stream[3].at <= local'[stream[3].by]
    <2>1. stream \in Seq(Events) /\ 3 \in 1..Len(stream)
      BY <1>1, <1>3, StatusOf DEF Types
    <2>2. stream[3].by \in Agents /\ stream[3].at \in Nat
      <3>1. stream[3] \in Events
        BY <2>1
      <3> QED
        BY <3>1 DEF Events
    <2>3. /\ local[stream[3].by] \in Nat /\ local'[stream[3].by] \in Nat
          /\ local[stream[3].by] <= local'[stream[3].by]
      BY <1>1, <1>2, <2>2 DEF Types
    <2>4. stream[3].at <= local[stream[3].by]
      BY <1>1, <1>3 DEF Lifecycle
    <2> QED
      BY <2>2, <2>3, <2>4
  <1> QED
    BY <1>1, <1>2, <1>3 DEF Lifecycle

\* So what remains to be shown of a step of agent c is about c.
LEMMA AgentKeeps ==
    ASSUME IInv, NEW c \in Agents, AgentStep(c), Types', ReportsTrue',
           (Told(c) /\ Command(c) /\ FirstAcquire(c) /\ FirstClaim(c))',
           \A r \in Requests : r.c = c /\ Unexecuted(r)' => Harmless(r)'
    PROVE  IInv'
  <1>1. Lifecycle'
    BY LifecycleStays
  <1>2. \A x \in Agents : Told(x)'
    BY Others
  <1>3. \A x \in Agents : Command(x)'
    BY Others
  <1>4. \A x \in Agents : FirstAcquire(x)' /\ FirstClaim(x)'
    BY Others
  <1>5. ASSUME NEW r \in Requests, Unexecuted(r)' PROVE Harmless(r)'
    <2>1. r.c \in Agents
      BY DEF Requests
    <2> QED
      BY <1>5, <2>1, Others
  <1>6. Pending'
    BY <1>5 DEF Pending, Unexecuted, Harmless
  <1>7. Commands'
    BY <1>2, <1>3, <1>4 DEF Commands
  <1> QED
    BY <1>1, <1>6, <1>7 DEF IInv

\* A command record.
LEMMA Records ==
    /\ Idle \in CmdRecord /\ Idle.phase = "idle"
    /\ \A k \in CmdRecord :
          /\ [k EXCEPT !.phase = "delay"] \in CmdRecord
          /\ [k EXCEPT !.phase = "calling"] \in CmdRecord
          /\ [k EXCEPT !.deadline = TRUE] \in CmdRecord
          /\ k.attempt < Retries => [k EXCEPT !.phase = "delay", !.attempt = @ + 1] \in CmdRecord
  <1>1. Idle \in CmdRecord /\ Idle.phase = "idle"
    BY ClientAssumption DEF Idle, CmdRecord, Ops, TaskOps, LeaseOps
  <1>2. ASSUME NEW k \in CmdRecord
        PROVE  /\ [k EXCEPT !.phase = "delay"] \in CmdRecord
               /\ [k EXCEPT !.phase = "calling"] \in CmdRecord
               /\ [k EXCEPT !.deadline = TRUE] \in CmdRecord
    BY DEF CmdRecord
  <1>3. ASSUME NEW k \in CmdRecord, k.attempt < Retries
        PROVE  [k EXCEPT !.phase = "delay", !.attempt = @ + 1] \in CmdRecord
    <2>1. k.attempt + 1 \in 0..Retries
      BY <1>3, ClientAssumption DEF CmdRecord
    <2> QED
      BY <2>1 DEF CmdRecord
  <1> QED
    BY <1>1, <1>2, <1>3

\* The request that an agent makes out.
LEMMA MadeOut ==
    ASSUME Types, NEW c \in Agents, NEW op \in TaskOps \cup LeaseOps
    PROVE  /\ Request(c, op) \in Requests
           /\ [req |-> Request(c, op), answer |-> None] \in Calls
           /\ [req |-> Request(c, op), answer |-> None] # None
           /\ Request(c, op).c = c /\ Request(c, op).op = op
           /\ Request(c, op).n = cred[c]
           /\ op = "complete_local" => Request(c, op).at = local[c]
           /\ op = "complete" => Request(c, op).at = track[c]
  <1>1. /\ cred[c] \in {None} \cup (1..grants) /\ grants \in 0..MaxGrants
        /\ local[c] \in Nat /\ track[c] \in Nat
    BY DEF Types
  <1>2. cred[c] \in {None} \cup (1..MaxGrants)
    BY <1>1, ClientAssumption
  <1>3. Request(c, op) \in Requests
    BY <1>1, <1>2 DEF Request, Requests
  <1>4. [req |-> Request(c, op), answer |-> None] \in Calls
    BY <1>3 DEF Calls
  <1> QED
    BY <1>3, <1>4, ClientAssumption DEF Request

\* A command starts.
LEMMA BeginStep == ASSUME IInv, NEW c \in Agents, NEW op \in Ops, Begin(c, op) PROVE IInv'
  <1> DEFINE k == [Idle EXCEPT !.op = op, !.phase = IF op = "wait" THEN "reading" ELSE "calling",
                               !.unread = Deps, !.first = First(c, op)]
             q == Request(c, op)
  <1>1. /\ cmd[c].phase = "idle" /\ Ready(c, op)
        /\ cmd' = [cmd EXCEPT ![c] = k] /\ exit' = None
        /\ call' = [call EXCEPT ![c] = IF op = "wait" THEN None ELSE [req |-> q, answer |-> None]]
        /\ cred' = IF op = "release" THEN [cred EXCEPT ![c] = None] ELSE cred
        /\ late' = late /\ local' = local /\ track' = track
        /\ UNCHANGED <<stream, done, asVerified, lease, grants, lapsed>>
    BY DEF Begin, GoOn, KeepService
  <1>2. Types /\ Lifecycle /\ Pending /\ Told(c) /\ Command(c)
    BY DEF IInv, Commands
  <1>3. /\ k \in CmdRecord /\ k.op = op /\ k.unread = Deps /\ k.first = First(c, op)
        /\ k.phase = IF op = "wait" THEN "reading" ELSE "calling"
    <2> DEFINE p == IF op = "wait" THEN "reading" ELSE "calling"
               b == First(c, op)
    <2>1. p \in {"reading", "calling"}
      OBVIOUS
    <2>2. b \in BOOLEAN
      BY DEF First
    <2>3. k = [Idle EXCEPT !.op = op, !.phase = p, !.unread = Deps, !.first = b]
      BY DEF p
    <2> HIDE DEF k, p, b
    <2>4. k \in CmdRecord /\ k.op = op /\ k.phase = p /\ k.unread = Deps /\ k.first = b
      <3>1. Idle.attempt \in 0..Retries
        BY ClientAssumption DEF Idle
      <3> QED
        BY <2>1, <2>2, <2>3, <3>1 DEF Idle, CmdRecord
    <2> QED
      BY <2>4 DEF p, b
  <1>4. op # "wait" =>
          /\ q \in Requests /\ [req |-> q, answer |-> None] \in Calls
          /\ [req |-> q, answer |-> None] # None
          /\ q.c = c /\ q.op = op /\ q.n = cred[c]
          /\ op = "complete_local" => q.at = local[c]
          /\ op = "complete" => q.at = track[c]
    BY <1>2, MadeOut DEF Ops
  <1> HIDE DEF k, q
  <1>5. /\ cmd'[c] = k
        /\ call'[c] = IF op = "wait" THEN None ELSE [req |-> q, answer |-> None]
        /\ cred'[c] = IF op = "release" THEN None ELSE cred[c]
        /\ call[c] = None
    BY <1>1, <1>2 DEF Types, Command
  <1>6. Types'
    <2>1. cmd' \in [Agents -> CmdRecord]
      BY <1>1, <1>2, <1>3 DEF Types
    <2>2. call' \in [Agents -> {None} \cup Calls]
      BY <1>1, <1>2, <1>4 DEF Types
    <2>3. cred' \in [Agents -> {None} \cup (1..grants)]
      BY <1>1, <1>2 DEF Types
    <2> QED
      BY <1>1, <1>2, <2>1, <2>2, <2>3 DEF Types
  <1>7. AgentStep(c)
    BY <1>1, <1>2 DEF AgentStep, KeepService, Types
  <1>8. ReportsTrue'
    BY <1>1 DEF ReportsTrue, ToldIsTrue, AcquireHonest, WaitSound
  <1>9. op = "complete" => Len(stream) >= 3 /\ stream[3].at <= track[c]
    <2>1. SUFFICES ASSUME op = "complete" PROVE Len(stream) >= 3 /\ stream[3].at <= track[c]
      OBVIOUS
    <2>2. By("completed_local", c) /\ local[c] = track[c]
      BY <1>1, <2>1 DEF Ready, HeadIsPushed
    <2> QED
      BY <1>2, <2>2, EventsBy
  <1>10. Told(c)'
    BY <1>1, <1>2, <1>5 DEF Told, HasLease, Holds, HasEvent
  <1>11. Command(c)'
    BY <1>1, <1>3, <1>4, <1>5, <1>9 DEF Command
  <1>12. FirstAcquire(c)'
    <2>1. SUFFICES ASSUME op = "acquire", First(c, op)
                   PROVE  /\ \A r \in late : r.c = c => r.op \in TaskOps
                          /\ lease = None \/ lease.by # c
      BY <1>1, <1>3, <1>5 DEF FirstAcquire
    <2> QED
      BY <2>1 DEF First, TaskOps, LeaseOps
  <1>13. FirstClaim(c)'
    <2>1. SUFFICES ASSUME op = "claim", First(c, op)
                   PROVE  /\ \A r \in late : r.c = c => r.op \notin TaskOps
                          /\ ~By("claimed", c)
      BY <1>1, <1>3, <1>5 DEF FirstClaim, By
    <2> QED
      BY <2>1 DEF First, TaskOps, EventType
  <1>14. ASSUME NEW r \in Requests, r.c = c, Unexecuted(r)'
         PROVE  Harmless(r)'
    <2>1. CASE r \in late
      <3>1. Harmless(r)
        BY <1>2, <2>1 DEF Pending, Unexecuted
      <3> QED
        BY <1>1, <1>5, <1>14, <3>1 DEF Harmless
    <2>2. CASE op # "wait" /\ r = q
      <3>1. cred[c] \in {None} \cup (1..grants)
        BY <1>2 DEF Types
      <3>2. r.n # None => r.n <= grants
        BY <1>2, <1>4, <2>2, <3>1 DEF Types
      <3>3. r.op = "complete_local" => r.at <= local[c]
        BY <1>2, <1>4, <2>2 DEF Types
      <3>4. r.op = "complete" => Len(stream) >= 3 /\ stream[3].at <= r.at
        BY <1>4, <1>9, <2>2
      <3>5. r.op = "release" => r.n # None
        BY <1>1, <1>4, <2>2 DEF Ready
      <3> QED
        BY <1>1, <1>4, <1>5, <2>2, <3>2, <3>3, <3>4, <3>5 DEF Harmless
    <2> QED
      BY <1>1, <1>5, <1>14, <2>1, <2>2 DEF Unexecuted
  <1> QED
    BY <1>6, <1>7, <1>8, <1>10, <1>11, <1>12, <1>13, <1>14, AgentKeeps

\* How one request of a command ends: the command waits before the next one, or
\* it returns what the answer says.
LEMMA SettleMeans ==
    ASSUME Types, NEW c \in Agents, NEW outcome, Settle(c, outcome)
    PROVE  /\ cmd' \in [Agents -> CmdRecord] /\ \A x \in Agents \ {c} : cmd'[x] = cmd[x]
           /\ \/ /\ cmd'[c].phase = "delay" /\ exit' = None
                 /\ cmd'[c].op = cmd[c].op /\ cmd'[c].first = cmd[c].first
                 /\ \/ cmd[c].op \in TaskOps
                    \/ cmd[c].op = "acquire" /\ outcome = "held"
              \/ /\ cmd'[c].phase = "idle"
                 /\ exit' # None => /\ exit'.c = c /\ exit'.op = cmd[c].op
                                    /\ exit'.first = cmd[c].first
                                    /\ exit'.result = "ok" => outcome = "ok"
                                    /\ exit'.result = "refused" => outcome \in {"held", "refused"}
  <1> DEFINE k == cmd[c]
  <1>1. cmd \in [Agents -> CmdRecord] /\ k \in CmdRecord
    BY DEF Types
  <1>2. /\ k.attempt \in 0..Retries /\ Retries \in Nat
        /\ k.op # "acquire" \/ k.op \notin TaskOps
    BY <1>1, ClientAssumption DEF CmdRecord, TaskOps
  <1>3. CASE Polls(k, outcome) /\ GoOn(c, [k EXCEPT !.phase = "delay"])
    <2>1. /\ cmd' = [cmd EXCEPT ![c] = [k EXCEPT !.phase = "delay"]] /\ exit' = None
          /\ k.op = "acquire" /\ outcome = "held"
      BY <1>3 DEF GoOn, Polls
    <2>2. [k EXCEPT !.phase = "delay"] \in CmdRecord
      BY <1>1, Records
    <2>3. /\ [k EXCEPT !.phase = "delay"].phase = "delay"
          /\ [k EXCEPT !.phase = "delay"].op = k.op
          /\ [k EXCEPT !.phase = "delay"].first = k.first
      BY <1>1 DEF CmdRecord
    <2> HIDE DEF k
    <2> QED
      BY <1>1, <2>1, <2>2, <2>3 DEF k
  <1>4. CASE /\ Again(k, outcome)
             /\ GoOn(c, [k EXCEPT !.phase = "delay", !.attempt = NextAttempt(@)])
    <2> DEFINE m == [k EXCEPT !.phase = "delay", !.attempt = @ + 1]
    <2>1. /\ cmd' = [cmd EXCEPT ![c] = m] /\ exit' = None
          /\ k.op \in TaskOps /\ k.attempt < Retries
      BY <1>4 DEF GoOn, Again, Retryable, Retried, NextAttempt
    <2>2. m \in CmdRecord
      BY <1>1, <2>1, Records
    <2>3. m.phase = "delay" /\ m.op = k.op /\ m.first = k.first
      BY <1>1 DEF CmdRecord
    <2> HIDE DEF m
    <2> QED
      BY <1>1, <2>1, <2>2, <2>3
  <1>5. CASE Return(c, ResultOf(outcome))
    <2>1. /\ cmd' = [cmd EXCEPT ![c] = Idle]
          /\ exit' = [c |-> c, op |-> k.op, result |-> ResultOf(outcome), first |-> k.first]
      BY <1>5 DEF Return
    <2>2. /\ ResultOf(outcome) = "ok" => outcome = "ok"
          /\ ResultOf(outcome) = "refused" => outcome \in {"held", "refused"}
      BY DEF ResultOf
    <2> QED
      BY <1>1, <2>1, <2>2, Records
  <1> QED
    BY <1>3, <1>4, <1>5 DEF Settle

\* An answer reaches the agent.
LEMMA ReceiveStep == ASSUME IInv, NEW c \in Agents, Receive(c) PROVE IInv'
  <1> DEFINE answer == call[c].answer
  <1>1. /\ call[c] # None /\ answer # None /\ Settle(c, answer.kind)
        /\ call' = [call EXCEPT ![c] = None]
        /\ cred' = IF answer.n # 0 THEN [cred EXCEPT ![c] = answer.n] ELSE cred
        /\ late' = late /\ local' = local /\ track' = track
        /\ UNCHANGED <<stream, done, asVerified, lease, grants, lapsed>>
    BY DEF Receive, KeepService
  <1>2. /\ Types /\ Lifecycle /\ Pending
        /\ Told(c) /\ Command(c) /\ FirstAcquire(c) /\ FirstClaim(c)
    BY DEF IInv, Commands
  <1>3. /\ cmd' \in [Agents -> CmdRecord] /\ \A x \in Agents \ {c} : cmd'[x] = cmd[x]
        /\ \/ /\ cmd'[c].phase = "delay" /\ exit' = None
              /\ cmd'[c].op = cmd[c].op /\ cmd'[c].first = cmd[c].first
              /\ \/ cmd[c].op \in TaskOps
                 \/ cmd[c].op = "acquire" /\ answer.kind = "held"
           \/ /\ cmd'[c].phase = "idle"
              /\ exit' # None => /\ exit'.c = c /\ exit'.op = cmd[c].op
                                 /\ exit'.first = cmd[c].first
                                 /\ exit'.result = "ok" => answer.kind = "ok"
                                 /\ exit'.result = "refused" => answer.kind \in {"held", "refused"}
    BY <1>1, <1>2, SettleMeans
  <1>4. call[c] \in Calls /\ answer.n \in 0..MaxGrants
    BY <1>1, <1>2 DEF Types, Calls
  <1>5. answer.n # 0 => answer.n <= grants /\ HasLease(c, answer.n)
    BY <1>1, <1>2 DEF Told
  <1>6. cmd[c].phase = "calling" /\ cmd[c].op # "wait" /\ call[c].req.op = cmd[c].op
    BY <1>1, <1>2 DEF Command
  <1>7. call'[c] = None /\ cred'[c] = IF answer.n # 0 THEN answer.n ELSE cred[c]
    BY <1>1, <1>2 DEF Types
  <1>8. Types'
    <2>1. answer.n # 0 => answer.n \in 1..grants
      BY <1>2, <1>4, <1>5 DEF Types
    <2>2. cred' \in [Agents -> {None} \cup (1..grants)]
      BY <1>1, <1>2, <2>1 DEF Types
    <2>3. call' \in [Agents -> {None} \cup Calls]
      BY <1>1, <1>2 DEF Types
    <2> QED
      BY <1>1, <1>2, <1>3, <2>2, <2>3 DEF Types
  <1>9. AgentStep(c)
    BY <1>1, <1>2, <1>3 DEF AgentStep, KeepService, Types
  <1>10. Told(c)'
    BY <1>1, <1>2, <1>5, <1>7 DEF Told, HasLease, Holds, HasEvent
  <1>11. Command(c)'
    <2>1. cmd[c].op = "complete" => Len(stream) >= 3 /\ stream[3].at <= track[c]
      BY <1>2, <1>6 DEF Command
    <2> QED
      BY <1>1, <1>3, <1>7, <2>1 DEF Command
  <1>12. cmd[c].op = "acquire" /\ cmd[c].first =>
           /\ \A r \in late : r.c = c => r.op \in TaskOps
           /\ answer.kind # "ok" => lease = None \/ lease.by # c
    BY <1>2, <1>6 DEF FirstAcquire
  <1>13. FirstAcquire(c)'
    <2>1. SUFFICES ASSUME cmd'[c].phase # "idle", cmd'[c].op = "acquire", cmd'[c].first
                   PROVE  /\ \A r \in late : r.c = c => r.op \in TaskOps
                          /\ lease = None \/ lease.by # c
      BY <1>1 DEF FirstAcquire
    <2>2. cmd[c].op = "acquire" /\ cmd[c].first /\ answer.kind = "held"
      BY <1>3, <2>1 DEF TaskOps
    <2> QED
      BY <1>12, <2>2
  <1>14. FirstClaim(c)'
    BY <1>1, <1>2, <1>3, <1>6 DEF FirstClaim, By
  <1>15. ReportsTrue'
    <2>1. ToldIsTrue'
      <3>1. SUFFICES ASSUME exit' # None, exit'.result = "ok", exit'.op \in TaskOps
                     PROVE  HasEvent(c, cmd[c].op)
        BY <1>1, <1>3 DEF ToldIsTrue, HasEvent
      <3> QED
        BY <1>1, <1>2, <1>3, <1>6, <3>1 DEF Told
    <2>2. AcquireHonest'
      BY <1>1, <1>3, <1>12 DEF AcquireHonest
    <2>3. WaitSound'
      BY <1>3, <1>6 DEF WaitSound
    <2> QED
      BY <2>1, <2>2, <2>3 DEF ReportsTrue
  <1>16. ASSUME NEW r \in Requests, r.c = c, Unexecuted(r)'
         PROVE  Harmless(r)'
    <2>1. r \in late
      BY <1>1, <1>7, <1>16 DEF Unexecuted
    <2>2. Harmless(r)
      BY <1>2, <2>1 DEF Pending, Unexecuted
    <2> QED
      BY <1>1, <1>7, <1>16, <2>2 DEF Harmless
  <1> QED
    BY <1>8, <1>9, <1>10, <1>11, <1>13, <1>14, <1>15, <1>16, AgentKeeps

\* The agent gives a request up, which may still arrive, or the answer is lost.
LEMMA TimeoutStep == ASSUME IInv, NEW c \in Agents, Timeout(c) PROVE IInv'
  <1> DEFINE q == call[c].req
  <1>1. /\ call[c] # None /\ Settle(c, "unknown")
        /\ call' = [call EXCEPT ![c] = None]
        /\ late' = IF call[c].answer = None THEN late \cup {q} ELSE late
        /\ cred' = cred /\ local' = local /\ track' = track
        /\ UNCHANGED <<stream, done, asVerified, lease, grants, lapsed>>
    BY DEF Timeout, KeepService
  <1>2. /\ Types /\ Lifecycle /\ Pending
        /\ Told(c) /\ Command(c) /\ FirstAcquire(c) /\ FirstClaim(c)
    BY DEF IInv, Commands
  <1>3. /\ cmd' \in [Agents -> CmdRecord] /\ \A x \in Agents \ {c} : cmd'[x] = cmd[x]
        /\ \/ /\ cmd'[c].phase = "delay" /\ exit' = None
              /\ cmd'[c].op = cmd[c].op /\ cmd'[c].first = cmd[c].first
              /\ cmd[c].op \in TaskOps
           \/ /\ cmd'[c].phase = "idle"
              /\ exit' # None => /\ exit'.op = cmd[c].op
                                 /\ exit'.result \notin {"ok", "refused"}
    BY <1>1, <1>2, SettleMeans
  <1>4. /\ q \in Requests /\ q.c = c /\ q.op = cmd[c].op
        /\ cmd[c].phase = "calling" /\ cmd[c].op # "wait"
    <2>1. call[c] \in Calls
      BY <1>1, <1>2 DEF Types
    <2> QED
      BY <1>1, <1>2, <2>1 DEF Command, Calls
  <1>5. call'[c] = None
    BY <1>1, <1>2 DEF Types
  <1> HIDE DEF q
  <1>6. Types'
    BY <1>1, <1>2, <1>3, <1>4 DEF Types
  <1>7. AgentStep(c)
    BY <1>1, <1>2, <1>3, <1>4 DEF AgentStep, KeepService, Types
  <1>8. Told(c)'
    BY <1>1, <1>2, <1>5 DEF Told, HasLease, Holds, HasEvent
  <1>9. Command(c)'
    <2>1. cmd[c].op = "complete" => Len(stream) >= 3 /\ stream[3].at <= track[c]
      BY <1>2, <1>4 DEF Command
    <2> QED
      BY <1>1, <1>3, <1>5, <2>1 DEF Command
  <1>10. FirstAcquire(c)'
    BY <1>3 DEF FirstAcquire, TaskOps
  <1>11. FirstClaim(c)'
    <2>1. SUFFICES ASSUME cmd'[c].phase # "idle", cmd'[c].op = "claim", cmd'[c].first
                   PROVE  /\ \A r \in late' : r.c = c /\ r.op \in TaskOps => r.op = "claim"
                          /\ By("claimed", c) => Len(stream) = 2
      BY <1>1 DEF FirstClaim, By
    <2>2. cmd[c].op = "claim" /\ cmd[c].first
      BY <1>3, <2>1
    <2>3. /\ \A r \in late : r.c = c /\ r.op \in TaskOps => r.op = "claim"
          /\ By("claimed", c) => Len(stream) = 2
      BY <1>2, <1>4, <2>2 DEF FirstClaim
    <2> QED
      BY <1>1, <1>4, <2>2, <2>3
  <1>12. ReportsTrue'
    BY <1>3, <1>4 DEF ReportsTrue, ToldIsTrue, AcquireHonest, WaitSound
  <1>13. ASSUME NEW r \in Requests, r.c = c, Unexecuted(r)'
         PROVE  Harmless(r)'
    <2>1. Unexecuted(r)
      BY <1>1, <1>4, <1>5, <1>13 DEF Unexecuted, q
    <2>2. Harmless(r)
      BY <1>2, <2>1 DEF Pending
    <2> QED
      BY <1>1, <1>5, <1>13, <2>2 DEF Harmless
  <1> QED
    BY <1>6, <1>7, <1>8, <1>9, <1>10, <1>11, <1>12, <1>13, AgentKeeps

\* The next attempt is sent.
LEMMA ResendStep == ASSUME IInv, NEW c \in Agents, Resend(c) PROVE IInv'
  <1> DEFINE k == cmd[c]
             q == Request(c, k.op)
  <1>1. /\ k.phase = "delay" /\ cmd' = [cmd EXCEPT ![c] = [k EXCEPT !.phase = "calling"]]
        /\ call' = [call EXCEPT ![c] = [req |-> q, answer |-> None]] /\ exit' = None
        /\ late' = late /\ cred' = cred /\ local' = local /\ track' = track
        /\ UNCHANGED <<stream, done, asVerified, lease, grants, lapsed>>
    BY DEF Resend, GoOn, KeepService
  <1>2. /\ Types /\ Lifecycle /\ Pending
        /\ Told(c) /\ Command(c) /\ FirstAcquire(c) /\ FirstClaim(c)
    BY DEF IInv, Commands
  <1>3. k \in CmdRecord /\ k.op \in TaskOps \cup {"acquire"}
    BY <1>1, <1>2 DEF Types, Command
  <1>4. /\ q \in Requests /\ [req |-> q, answer |-> None] \in Calls
        /\ [req |-> q, answer |-> None] # None
        /\ q.c = c /\ q.op = k.op /\ q.n = cred[c]
        /\ k.op = "complete_local" => q.at = local[c]
        /\ k.op = "complete" => q.at = track[c]
    BY <1>2, <1>3, MadeOut DEF LeaseOps
  <1>5. /\ [k EXCEPT !.phase = "calling"] \in CmdRecord
        /\ [k EXCEPT !.phase = "calling"].phase = "calling"
        /\ [k EXCEPT !.phase = "calling"].op = k.op
        /\ [k EXCEPT !.phase = "calling"].first = k.first
    BY <1>3, Records DEF CmdRecord
  <1>6. /\ cmd'[c] = [k EXCEPT !.phase = "calling"]
        /\ call'[c] = [req |-> q, answer |-> None] /\ call[c] = None
        /\ call'[c].req = q /\ call'[c].answer = None /\ call'[c] # None
    BY <1>1, <1>2, <1>4 DEF Types, Command
  <1>7. /\ cmd' \in [Agents -> CmdRecord] /\ call' \in [Agents -> {None} \cup Calls]
        /\ \A x \in Agents \ {c} : cmd'[x] = cmd[x] /\ call'[x] = call[x]
        /\ cmd'[c].phase = "calling" /\ cmd'[c].op = k.op /\ cmd'[c].first = k.first
    BY <1>1, <1>2, <1>4, <1>5, <1>6 DEF Types
  <1>8. Types'
    BY <1>1, <1>2, <1>7 DEF Types
  <1>9. AgentStep(c)
    BY <1>1, <1>2, <1>7 DEF AgentStep, KeepService, Types
  <1>10. k.op = "complete" => Len(stream) >= 3 /\ stream[3].at <= track[c]
    BY <1>1, <1>2 DEF Command
  <1> HIDE DEF q
  <1>11. Told(c)'
    BY <1>1, <1>2, <1>6 DEF Told, HasLease, Holds, HasEvent
  <1>12. Command(c)'
    BY <1>1, <1>3, <1>4, <1>6, <1>7, <1>10 DEF Command, TaskOps
  <1>13. FirstAcquire(c)' /\ FirstClaim(c)'
    BY <1>1, <1>2, <1>6, <1>7 DEF FirstAcquire, FirstClaim, By
  <1>14. ReportsTrue'
    BY <1>1 DEF ReportsTrue, ToldIsTrue, AcquireHonest, WaitSound
  <1>15. ASSUME NEW r \in Requests, r.c = c, Unexecuted(r)'
         PROVE  Harmless(r)'
    <2>1. CASE r \in late
      <3>1. Harmless(r)
        BY <1>2, <2>1 DEF Pending, Unexecuted
      <3> QED
        BY <1>1, <1>6, <1>15, <3>1 DEF Harmless
    <2>2. CASE r = q
      <3>1. r.n # None => r.n <= grants
        BY <1>2, <1>4, <2>2 DEF Types
      <3>2. r.op = "complete_local" => r.at <= local[c]
        BY <1>2, <1>4, <2>2 DEF Types
      <3>3. r.op # "release"
        BY <1>3, <1>4, <2>2 DEF TaskOps
      <3> QED
        BY <1>1, <1>4, <1>10, <2>2, <3>1, <3>2, <3>3 DEF Harmless
    <2> QED
      BY <1>1, <1>6, <1>15, <2>1, <2>2 DEF Unexecuted
  <1> QED
    BY <1>8, <1>9, <1>11, <1>12, <1>13, <1>14, <1>15, AgentKeeps

\* A step that leaves the requests of the agent and its work alone keeps what is
\* said of its requests and of what it was told.
LEMMA Thinks ==
    ASSUME IInv, NEW c \in Agents, cmd' \in [Agents -> CmdRecord],
           \A x \in Agents \ {c} : cmd'[x] = cmd[x],
           UNCHANGED <<late, call, cred, local, track>>, KeepService
    PROVE  /\ Types' /\ AgentStep(c) /\ Told(c)'
           /\ \A r \in Requests : r.c = c /\ Unexecuted(r)' => Harmless(r)'
  <1>1. Types /\ Pending /\ Told(c)
    BY DEF IInv, Commands
  <1>2. UNCHANGED <<stream, done, asVerified, lease, grants, lapsed>>
    BY DEF KeepService
  <1>3. Types'
    BY <1>1, <1>2 DEF Types
  <1>4. AgentStep(c)
    BY <1>1 DEF AgentStep, Types
  <1>5. Told(c)'
    BY <1>1, <1>2 DEF Told, HasLease, Holds, HasEvent
  <1>6. \A r \in Requests : Unexecuted(r)' => Harmless(r)'
    BY <1>1, <1>2 DEF Pending, Unexecuted, Harmless
  <1> QED
    BY <1>3, <1>4, <1>5, <1>6

\* The command of an agent ends, and reports no success but of a wait for
\* dependencies that are completed.
LEMMA Ends ==
    ASSUME IInv, NEW c \in Agents, call[c] = None, cmd' = [cmd EXCEPT ![c] = Idle],
           UNCHANGED <<late, call, cred, local, track>>, KeepService,
           exit' # None => \/ exit'.result = "failed"
                           \/ exit'.op = "wait" /\ done = Deps
    PROVE  IInv'
  <1>1. Types
    BY DEF IInv
  <1>2. cmd' \in [Agents -> CmdRecord] /\ \A x \in Agents \ {c} : cmd'[x] = cmd[x]
    BY <1>1, Records DEF Types
  <1>3. cmd'[c].phase = "idle" /\ call'[c] = None
    BY <1>1, Records DEF Types
  <1>4. Command(c)' /\ FirstAcquire(c)' /\ FirstClaim(c)'
    BY <1>3 DEF Command, FirstAcquire, FirstClaim
  <1>5. ReportsTrue'
    BY DEF ReportsTrue, ToldIsTrue, AcquireHonest, WaitSound, TaskOps, KeepService
  <1> QED
    BY <1>2, <1>4, <1>5, Thinks, AgentKeeps

\* The deadline of a command passes.
LEMMA DeadlineStep == ASSUME IInv, NEW c \in Agents, DeadlinePasses(c) PROVE IInv'
  <1> DEFINE k == cmd[c]
             m == [k EXCEPT !.deadline = TRUE]
  <1>1. /\ cmd' = [cmd EXCEPT ![c] = m] /\ exit' = None
        /\ UNCHANGED <<late, call, cred, local, track>> /\ KeepService
        /\ UNCHANGED <<stream, done, asVerified, lease, grants, lapsed>>
    BY DEF DeadlinePasses, GoOn, KeepService
  <1>2. Types /\ Command(c) /\ FirstAcquire(c) /\ FirstClaim(c)
    BY DEF IInv, Commands
  <1>3. k \in CmdRecord
    BY <1>2 DEF Types
  <1>4. /\ m \in CmdRecord /\ m.phase = k.phase /\ m.op = k.op /\ m.first = k.first
        /\ m.unread = k.unread /\ m.pending = k.pending
    BY <1>3, Records DEF CmdRecord
  <1> HIDE DEF m
  <1>5. /\ cmd' \in [Agents -> CmdRecord] /\ cmd'[c] = m
        /\ \A x \in Agents \ {c} : cmd'[x] = cmd[x]
    BY <1>1, <1>2, <1>4 DEF Types
  <1>6. Command(c)' /\ FirstAcquire(c)' /\ FirstClaim(c)'
    BY <1>1, <1>2, <1>4, <1>5 DEF Command, FirstAcquire, FirstClaim, By
  <1>7. ReportsTrue'
    BY <1>1 DEF ReportsTrue, ToldIsTrue, AcquireHonest, WaitSound
  <1> QED
    BY <1>1, <1>5, <1>6, <1>7, Thinks, AgentKeeps

\* A waiting command reads of one dependency.
LEMMA WaitReadStep ==
    ASSUME IInv, NEW c \in Agents, NEW d \in Deps, WaitRead(c, d) PROVE IInv'
  <1> DEFINE k == cmd[c]
             m == [k EXCEPT !.unread = @ \ {d}, !.pending = StillPending(k, d)]
  <1>1. /\ k.phase = "reading" /\ cmd' = [cmd EXCEPT ![c] = m] /\ exit' = None
        /\ UNCHANGED <<late, call, cred, local, track>> /\ KeepService
        /\ UNCHANGED <<stream, done, asVerified, lease, grants, lapsed>>
    BY DEF WaitRead, GoOn, KeepService
  <1>2. Types /\ Command(c)
    BY DEF IInv, Commands
  <1>3. k \in CmdRecord
    BY <1>2 DEF Types
  <1>4. k.pending \subseteq Deps /\ k.unread \subseteq Deps
    BY <1>3 DEF CmdRecord
  <1>5. /\ StillPending(k, d) \subseteq Deps /\ k.pending \subseteq StillPending(k, d)
        /\ d \notin done => d \in StillPending(k, d)
    BY <1>4 DEF StillPending
  <1>6. /\ m \in CmdRecord /\ m.phase = k.phase /\ m.op = k.op
        /\ m.unread = k.unread \ {d} /\ m.pending = StillPending(k, d)
    BY <1>3, <1>4, <1>5 DEF CmdRecord
  <1>7. call[c] = None /\ k.op = "wait" /\ Deps \ done \subseteq k.unread \cup k.pending
    BY <1>1, <1>2 DEF Command
  <1> HIDE DEF m
  <1>8. /\ cmd' \in [Agents -> CmdRecord] /\ cmd'[c] = m
        /\ \A x \in Agents \ {c} : cmd'[x] = cmd[x]
    BY <1>1, <1>2, <1>6 DEF Types
  <1>9. Deps \ done \subseteq m.unread \cup m.pending
    BY <1>5, <1>6, <1>7
  <1> HIDE DEF k
  <1>10. m.phase = "reading" /\ m.op = "wait"
    BY <1>1, <1>6, <1>7
  <1>11. Command(c)' /\ FirstAcquire(c)' /\ FirstClaim(c)'
    BY <1>1, <1>7, <1>8, <1>9, <1>10 DEF Command, FirstAcquire, FirstClaim, TaskOps
  <1>12. ReportsTrue'
    BY <1>1 DEF ReportsTrue, ToldIsTrue, AcquireHonest, WaitSound
  <1> QED
    BY <1>1, <1>8, <1>11, <1>12, Thinks, AgentKeeps

\* A waiting command has read of all of them: it returns or goes round again.
LEMMA WaitRoundStep == ASSUME IInv, NEW c \in Agents, WaitRound(c) PROVE IInv'
  <1> DEFINE k == cmd[c]
             m == [k EXCEPT !.unread = Deps, !.pending = {}]
  <1>1. /\ k.phase = "reading" /\ k.unread = {}
        /\ UNCHANGED <<late, call, cred, local, track>> /\ KeepService
        /\ UNCHANGED <<stream, done, asVerified, lease, grants, lapsed>>
    BY DEF WaitRound, KeepService
  <1>2. Types /\ Command(c)
    BY DEF IInv, Commands
  <1>3. call[c] = None /\ k.op = "wait" /\ Deps \ done \subseteq k.unread \cup k.pending
    BY <1>1, <1>2 DEF Command
  <1>4. CASE k.pending = {} /\ Return(c, "ok")
    <2>1. /\ cmd' = [cmd EXCEPT ![c] = Idle] /\ exit'.op = "wait" /\ done = Deps
      BY <1>1, <1>2, <1>3, <1>4 DEF Return, Types
    <2> QED
      BY <1>1, <1>3, <2>1, Ends
  <1>5. CASE Return(c, "failed")
    <2>1. cmd' = [cmd EXCEPT ![c] = Idle] /\ exit'.result = "failed"
      BY <1>5 DEF Return
    <2> QED
      BY <1>1, <1>3, <2>1, Ends
  <1>6. CASE GoOn(c, [k EXCEPT !.unread = Deps, !.pending = {}])
    <2>1. cmd' = [cmd EXCEPT ![c] = m] /\ exit' = None
      BY <1>6 DEF GoOn
    <2>2. k \in CmdRecord
      BY <1>2 DEF Types
    <2>3. /\ m \in CmdRecord /\ m.phase = k.phase /\ m.op = k.op
          /\ m.unread = Deps /\ m.pending = {}
      BY <2>2 DEF CmdRecord
    <2> HIDE DEF m
    <2>4. /\ cmd' \in [Agents -> CmdRecord] /\ cmd'[c] = m
          /\ \A x \in Agents \ {c} : cmd'[x] = cmd[x]
      BY <1>2, <2>1, <2>3 DEF Types
    <2> HIDE DEF k
    <2>5. m.phase = "reading" /\ m.op = "wait"
      BY <1>1, <1>3, <2>3
    <2>6. Command(c)' /\ FirstAcquire(c)' /\ FirstClaim(c)'
      BY <1>1, <1>3, <2>3, <2>4, <2>5 DEF Command, FirstAcquire, FirstClaim, TaskOps
    <2>7. ReportsTrue'
      BY <2>1 DEF ReportsTrue, ToldIsTrue, AcquireHonest, WaitSound
    <2> QED
      BY <1>1, <2>4, <2>6, <2>7, Thinks, AgentKeeps
  <1> QED
    BY <1>4, <1>5, <1>6 DEF WaitRound

\* A command ends without having called: the service is not there, or a read
\* of a waiting command fails.
LEMMA FailStep ==
    ASSUME IInv, NEW c \in Agents, Unavailable(c) \/ WaitFails(c) PROVE IInv'
  <1>1. /\ cmd[c].phase \in {"idle", "reading"} /\ cmd' = [cmd EXCEPT ![c] = Idle]
        /\ exit'.result = "failed"
        /\ UNCHANGED <<late, call, cred, local, track>> /\ KeepService
    BY DEF Unavailable, WaitFails, Return
  <1>2. call[c] = None
    BY <1>1 DEF IInv, Commands, Command
  <1> QED
    BY <1>1, <1>2, Ends

\* The agent commits, and pushes what it has committed.
LEMMA WorkStep == ASSUME IInv, NEW c \in Agents, Commit(c) \/ Push(c) PROVE IInv'
  <1>1. /\ cmd[c].phase = "idle" /\ cmd' = [cmd EXCEPT ![c] = Idle] /\ exit' = None
        /\ UNCHANGED <<late, call, cred>> /\ KeepService
        /\ UNCHANGED <<stream, done, asVerified, lease, grants, lapsed>>
    BY DEF Commit, Push, GoOn, KeepService
  <1>2. /\ Types /\ Pending /\ Told(c) /\ Command(c)
    BY DEF IInv, Commands
  <1>3. local[c] \in Nat
    BY <1>2 DEF Types
  <1>4. /\ local' \in [Agents -> Nat] /\ track' \in [Agents -> Nat]
        /\ \A x \in Agents : local[x] <= local'[x] /\ (x # c => track'[x] = track[x])
    <2>1. CASE Commit(c)
      BY <1>2, <1>3, <2>1 DEF Commit, Types
    <2>2. CASE Push(c)
      BY <1>2, <1>3, <2>2 DEF Push, Types
    <2> QED
      BY <2>1, <2>2
  <1>5. /\ cmd' \in [Agents -> CmdRecord] /\ cmd'[c].phase = "idle"
        /\ \A x \in Agents \ {c} : cmd'[x] = cmd[x]
    BY <1>1, <1>2, Records DEF Types
  <1>6. call[c] = None
    BY <1>1, <1>2 DEF Command
  <1>7. Types'
    BY <1>1, <1>2, <1>4, <1>5 DEF Types
  <1>8. AgentStep(c)
    BY <1>1, <1>4, <1>5 DEF AgentStep
  <1>9. Told(c)'
    BY <1>1, <1>2 DEF Told, HasLease, Holds, HasEvent
  <1>10. Command(c)' /\ FirstAcquire(c)' /\ FirstClaim(c)'
    BY <1>1, <1>5, <1>6 DEF Command, FirstAcquire, FirstClaim
  <1>11. ReportsTrue'
    BY <1>1 DEF ReportsTrue, ToldIsTrue, AcquireHonest, WaitSound
  <1>12. ASSUME NEW r \in Requests, r.c = c, Unexecuted(r)'
         PROVE  Harmless(r)'
    <2>1. Harmless(r)
      BY <1>1, <1>2, <1>12 DEF Pending, Unexecuted
    <2>2. r.at \in Nat /\ local'[c] \in Nat /\ local[c] <= local'[c]
      BY <1>4 DEF Requests
    <2>3. r.op = "complete_local" => r.at <= local'[c]
      BY <1>3, <1>12, <2>1, <2>2 DEF Harmless
    <2> QED
      BY <1>1, <1>12, <2>1, <2>3 DEF Harmless
  <1> QED
    BY <1>7, <1>8, <1>9, <1>10, <1>11, <1>12, AgentKeeps

-----------------------------------------------------------------------------
(* Theorems.                                                                *)

\* The agents set in at a stage of the task that the invariant allows.
LEMMA InvInit == ClientInit => IInv
  <1> SUFFICES ASSUME ClientInit PROVE IInv
    OBVIOUS
  <1>1. PICK n \in 0..3, c \in Agents :
           /\ stream = Stage(n, c)
           /\ \/ n < 3 /\ grants = 0 /\ lease = None /\ cred = [b \in Agents |-> None]
              \/ n > 1 /\ grants = 1 /\ lease = [by |-> c, n |-> 1]
                 /\ cred = [b \in Agents |-> IF b = c THEN 1 ELSE None]
    BY DEF ClientInit
  <1>2. /\ done \in SUBSET Deps /\ lapsed = {} /\ late = {} /\ exit = None
        /\ cmd = [x \in Agents |-> Idle] /\ call = [x \in Agents |-> None]
        /\ local = [x \in Agents |-> 0] /\ track = [x \in Agents |-> 0]
        /\ stream # <<>> /\ Len(stream) > 1 => done = Deps
    BY DEF ClientInit
  <1>3. \A i \in 1..n : i = 1 \/ i = 2 \/ i = 3
    OBVIOUS
  <1>4. ASSUME NEW i \in 1..n
        PROVE  [type |-> EventTypes[i], sha |-> NoHash, head |-> NoHash, by |-> c, at |-> 0]
                  \in Events
    <2>1. EventTypes[i] \in {"verified", "claimed", "completed_local"}
      BY <1>3, TypeAt
    <2>2. /\ EventType("submit") = "verified" /\ EventType("claim") = "claimed"
          /\ EventType("complete_local") = "completed_local"
      BY DEF EventType
    <2>3. EventTypes[i] \in {EventType(op) : op \in TaskOps}
      BY <2>1, <2>2 DEF TaskOps
    <2> QED
      BY <2>3 DEF Events
  <1>5. stream \in Seq(Events) /\ Len(stream) = n
    <2>1. stream \in [1..n -> Events] /\ DOMAIN stream = 1..n
      BY <1>1, <1>4 DEF Stage
    <2>2. n \in Nat
      OBVIOUS
    <2>3. stream \in UNION {[1..k -> Events] : k \in Nat}
      BY <2>1, <2>2
    <2>4. stream \in Seq(Events)
      BY <2>3, SeqDef
    <2> QED
      BY <2>1, <2>2, <2>4, LenProperties
  <1>6. \A i \in 1..n : stream[i].type = EventTypes[i] /\ stream[i].by = c /\ stream[i].at = 0
    BY <1>1 DEF Stage
  <1>7. Lifecycle
    <2>1. n <= 4 /\ n # 4
      OBVIOUS
    <2>2. n >= 3 => stream[3].at <= local[stream[3].by]
      <3>1. n >= 3 => 3 \in 1..n
        OBVIOUS
      <3> QED
        BY <1>2, <1>6, <3>1
    <2>3. n >= 2 => done = Deps
      <3>1. n >= 2 => n > 1 /\ stream # <<>>
        BY <1>5
      <3> QED
        BY <1>2, <1>5, <3>1
    <2> QED
      BY <1>5, <1>6, <2>1, <2>2, <2>3 DEF Lifecycle
  <1>8. /\ lease \in {None} \cup Leases /\ (lease # None => lease.n <= grants)
        /\ grants \in 0..MaxGrants /\ cred \in [Agents -> {None} \cup (1..grants)]
        /\ \A x \in Agents : cred[x] # None => HasLease(x, cred[x])
    <2>1. CASE grants = 0 /\ lease = None /\ cred = [b \in Agents |-> None]
      BY <2>1, ClientAssumption
    <2>2. CASE /\ grants = 1 /\ lease = [by |-> c, n |-> 1]
               /\ cred = [b \in Agents |-> IF b = c THEN 1 ELSE None]
      <3>1. 1 \in 1..MaxGrants
        BY ClientAssumption
      <3>2. lease \in Leases /\ lease.n = 1 /\ lease.by = c
        BY <2>2, <3>1 DEF Leases
      <3>3. lease # None
        BY <3>2, ClientAssumption
      <3> QED
        BY <2>2, <3>1, <3>2, <3>3 DEF HasLease, Holds
    <2> QED
      BY <1>1, <2>1, <2>2
  <1>9. Types
    <2>1. cmd \in [Agents -> CmdRecord]
      BY <1>2, Records
    <2> QED
      BY <1>2, <1>5, <1>8, <2>1 DEF Types
  <1>10. Pending
    <2>1. \A r \in Requests : ~Unexecuted(r)
      BY <1>2 DEF Unexecuted, Requests
    <2> QED
      BY <2>1 DEF Pending
  <1>11. Commands
    <2> SUFFICES ASSUME NEW x \in Agents
                 PROVE  Told(x) /\ Command(x) /\ FirstAcquire(x) /\ FirstClaim(x)
      BY DEF Commands
    <2>1. cmd[x].phase = "idle" /\ call[x] = None
      BY <1>2, Records
    <2> QED
      BY <1>8, <2>1 DEF Told, Command, FirstAcquire, FirstClaim
  <1>12. ReportsTrue
    BY <1>2 DEF ReportsTrue, ToldIsTrue, AcquireHonest, WaitSound
  <1> QED
    BY <1>7, <1>9, <1>10, <1>11, <1>12 DEF IInv

\* Every step keeps the invariant.
LEMMA InvStep == IInv /\ [ClientNext]_cvars => IInv'
  <1> SUFFICES ASSUME IInv, [ClientNext]_cvars PROVE IInv'
    OBVIOUS
  <1>1. ASSUME NEW c \in Agents, NEW op \in Ops, Begin(c, op) PROVE IInv'
    BY <1>1, BeginStep
  <1>2. ASSUME NEW c \in Agents, Unavailable(c) \/ WaitFails(c) PROVE IInv'
    BY <1>2, FailStep
  <1>3. ASSUME NEW c \in Agents, Serve(c) PROVE IInv'
    BY <1>3, ServeStep
  <1>4. ASSUME NEW c \in Agents, ServeBusy(c) PROVE IInv'
    BY <1>4, BusyStep
  <1>5. ASSUME NEW c \in Agents, ClientStep(c) PROVE IInv'
    BY <1>5, ReceiveStep, ResendStep, WaitRoundStep, WaitReadStep DEF ClientStep
  <1>6. ASSUME NEW c \in Agents, Timeout(c) PROVE IInv'
    BY <1>6, TimeoutStep
  <1>7. ASSUME NEW c \in Agents, DeadlinePasses(c) PROVE IInv'
    BY <1>7, DeadlineStep
  <1>8. ASSUME NEW c \in Agents, Commit(c) \/ Push(c) PROVE IInv'
    BY <1>8, WorkStep
  <1>9. ASSUME NEW r \in late, ServeLate(r) PROVE IInv'
    BY <1>9, ServeLateStep
  <1>10. ASSUME NEW d \in Deps, DependencyCompletes(d) PROVE IInv'
    BY <1>10, DependencyStep
  <1>11. CASE Lapse
    BY <1>11, LapseStep
  <1>12. CASE DocsEdited
    BY <1>12, EditedStep
  <1>13. CASE UNCHANGED cvars
    <2> USE <1>13 DEF cvars
    <2>1. Types' /\ Lifecycle' /\ Pending'
      BY DEF IInv, Types, Lifecycle, Pending, Unexecuted, Harmless
    <2>2. \A x \in Agents : Told(x)' /\ Command(x)' /\ FirstAcquire(x)' /\ FirstClaim(x)'
      BY DEF IInv, Commands, Told, Command, FirstAcquire, FirstClaim, HasLease, Holds,
             HasEvent, By
    <2>3. ReportsTrue'
      BY DEF IInv, ReportsTrue, ToldIsTrue, AcquireHonest, WaitSound
    <2>4. Commands'
      BY <2>2 DEF Commands
    <2> QED
      BY <2>1, <2>3, <2>4 DEF IInv
  <1> QED
    BY <1>1, <1>2, <1>3, <1>4, <1>5, <1>6, <1>7, <1>8, <1>9, <1>10, <1>11, <1>12, <1>13
       DEF ClientNext

\* The invariant holds of every behaviour.
LEMMA InvAlways == ClientSpec => []IInv
  BY InvInit, InvStep, PTL DEF ClientSpec

\* What an agent believes of its lease is so unless the lease lapsed, whatever
\* requests of its own arrive late, and the final completion covers the work of
\* the local one (the leases and heads of taskCompleteLocalAction and
\* taskCompleteAction).
THEOREM BeliefsTrue == ClientSpec => []ClientSafe
  <1>1. IInv => ClientSafe
    <2> SUFFICES ASSUME IInv PROVE ClientSafe
      OBVIOUS
    <2>1. Types /\ Lifecycle /\ \A c \in Agents : Told(c) /\ Command(c)
      BY DEF IInv, Commands
    <2>2. ClientTypeOK
      BY <2>1, TypeAt DEF Types, Lifecycle, Command, ClientTypeOK
    <2>3. CredentialLive
      BY <2>1 DEF Told, HasLease, CredentialLive
    <2>4. ASSUME NEW i \in 1..Len(stream), NEW j \in 1..Len(stream),
                 stream[i].type = "completed_local", stream[j].type = "completed"
          PROVE  stream[i].at <= stream[j].at
      <3>1. Len(stream) \in 0..4
        BY <2>1, StatusOf
      <3>2. i \in 1..4 /\ j \in 1..4
        <4>1. \A k \in 0..4 : \A m \in 1..k : m \in 1..4
          OBVIOUS
        <4> QED
          BY <3>1, <4>1
      <3>3. stream[i].type = EventTypes[i] /\ stream[j].type = EventTypes[j]
        BY <2>1 DEF Lifecycle
      <3>4. i = 3 /\ j = 4
        BY <2>4, <3>2, <3>3, TypeAt
      <3>5. Len(stream) = 4
        <4>1. \A k \in 0..4 : 4 \in 1..k => k = 4
          OBVIOUS
        <4> QED
          BY <3>1, <3>4, <4>1
      <3> QED
        BY <2>1, <3>4, <3>5 DEF Lifecycle
    <2>5. CompletionCovers
      BY <2>4 DEF CompletionCovers
    <2> QED
      BY <2>2, <2>3, <2>5 DEF ClientSafe
  <1> QED
    BY <1>1, InvAlways, PTL

\* What a command reports is true when it returns: a write that succeeded is in
\* the lifecycle, an agent that was refused a lease does not have it, and a wait
\* ends when every dependency is completed (requireOk, taskWaitAction).
THEOREM ReportsCorrect == ClientSpec => []ReportsTrue
  <1>1. IInv => ReportsTrue
    BY DEF IInv
  <1> QED
    BY <1>1, InvAlways, PTL

\* A claim of which an attempt was executed is not refused when it is sent
\* again, but for an edit of the documents.
LEMMA ClaimAnswered ==
    IInv /\ [ClientNext]_cvars
        => \A c \in Agents : RefusesExecuted(c, {"claim"}) => ~ProposalStillMatches
  <1> SUFFICES ASSUME IInv, [ClientNext]_cvars, NEW c \in Agents,
                      RefusesExecuted(c, {"claim"}), ProposalStillMatches
               PROVE  FALSE
    OBVIOUS
  <1>1. /\ call[c] # None /\ call[c].answer = None /\ call[c].req.op = "claim"
        /\ cmd[c].first /\ call'[c] # None /\ call'[c].answer = Plain("refused")
        /\ By("claimed", c)
    BY DEF RefusesExecuted, EventType
  <1>2. Types /\ Lifecycle /\ Command(c) /\ FirstClaim(c)
    BY DEF IInv, Commands
  <1>3. cmd[c].phase = "calling" /\ cmd[c].op = "claim" /\ call[c].req.c = c
    BY <1>1, <1>2 DEF Command
  <1>4. Plain("refused") # None /\ Plain("refused").kind = "refused"
    <2>1. Plain("refused") \in [kind : {"ok", "refused", "held", "busy"}, n : 0..MaxGrants]
      BY ClientAssumption DEF Plain
    <2> QED
      BY <2>1, ClientAssumption DEF Plain
  <1>5. call'[c] # call[c]
    BY <1>1, <1>4
  <1>6. call \in [Agents -> {None} \cup Calls]
    BY <1>2 DEF Types
  <1>7. ~Serve(c)
    <2> SUFFICES ASSUME Serve(c) PROVE FALSE
      OBVIOUS
    <2> DEFINE r == call[c].req
    <2>1. PICK answer \in Answers :
             Executes(r, answer) /\ call' = [call EXCEPT ![c].answer = answer]
      BY DEF Serve
    <2>2. r \in Requests
      BY <1>1, <1>6 DEF Calls
    <2>3. done = Deps /\ Len(stream) = 2 /\ stream[2].by = c
      BY <1>1, <1>2, <1>3, EventsBy DEF FirstClaim, Lifecycle
    <2>4. Decision(r) # "refuse"
      BY <1>1, <1>2, <1>3, <2>2, <2>3, DecisionMeans DEF TaskOps
    <2>5. answer = Plain("ok")
      BY <1>1, <2>1, <2>4 DEF Executes, TaskOps
    <2>6. call'[c].answer = answer
      <3>1. answer \in [kind : {"ok", "refused", "held", "busy"}, n : 0..MaxGrants]
        BY DEF Answers
      <3> QED
        BY <1>1, <1>6, <2>1, <3>1, Answering
    <2> QED
      BY <1>1, <2>5, <2>6 DEF Plain
  <1>8. ~ServeBusy(c)
    <2> SUFFICES ASSUME ServeBusy(c) PROVE FALSE
      OBVIOUS
    <2>1. call' = [call EXCEPT ![c].answer = Plain("busy")]
      BY DEF ServeBusy
    <2>2. Plain("busy") \in [kind : {"ok", "refused", "held", "busy"}, n : 0..MaxGrants]
      BY ClientAssumption DEF Plain
    <2>3. call'[c].answer = Plain("busy")
      BY <1>1, <1>6, <2>1, <2>2, Answering
    <2> QED
      BY <1>1, <2>3 DEF Plain
  <1>9. ASSUME NEW x \in Agents, x # c,
               \E v : call' = [call EXCEPT ![x] = v]
        PROVE  FALSE
    BY <1>5, <1>6, <1>9
  <1>10. ASSUME NEW x \in Agents, Serve(x) \/ ServeBusy(x) PROVE FALSE
    <2>1. x # c
      BY <1>7, <1>8, <1>10
    <2>2. PICK a : call' = [call EXCEPT ![x].answer = a]
      BY <1>10 DEF Serve, ServeBusy
    <2> QED
      BY <1>5, <1>6, <2>1, <2>2
  <1>11. ASSUME NEW x \in Agents, NEW op \in Ops, Begin(x, op) PROVE FALSE
    <2>1. x # c
      BY <1>3, <1>11 DEF Begin
    <2> QED
      BY <1>9, <1>11, <2>1 DEF Begin
  <1>12. ASSUME NEW x \in Agents, Receive(x) \/ Timeout(x) PROVE FALSE
    <2>1. call' = [call EXCEPT ![x] = None]
      BY <1>12 DEF Receive, Timeout
    <2> QED
      BY <1>1, <1>6, <1>9, <2>1
  <1>13. ASSUME NEW x \in Agents, Resend(x) PROVE FALSE
    <2>1. x # c
      BY <1>3, <1>13 DEF Resend
    <2> QED
      BY <1>9, <1>13, <2>1 DEF Resend
  <1>14. call' # call
    BY <1>5
  <1>15. ASSUME NEW x \in Agents,
                \/ Unavailable(x) \/ DeadlinePasses(x) \/ WaitFails(x) \/ WaitRound(x)
                \/ Commit(x) \/ Push(x) \/ \E d \in Deps : WaitRead(x, d)
         PROVE  FALSE
    BY <1>14, <1>15
       DEF Unavailable, DeadlinePasses, WaitFails, WaitRound, Commit, Push, WaitRead
  <1>16. /\ \A r \in late : ~ServeLate(r)
         /\ \A d \in Deps : ~DependencyCompletes(d)
         /\ ~Lapse /\ ~DocsEdited /\ ~UNCHANGED cvars
    BY <1>14 DEF ServeLate, DependencyCompletes, Lapse, DocsEdited, cvars
  <1> QED
    BY <1>10, <1>11, <1>12, <1>13, <1>15, <1>16 DEF ClientNext, ClientStep

\* The retries of postJSONWithRetry never turn a claim that succeeded into a
\* refused one while the proposal is as it was verified: nobody but its sender
\* can follow the claim with an event, and the service answers it again as done.
THEOREM ClaimsIdempotent == ClientSpec => ClaimHonest
  BY InvAlways, ClaimAnswered, PTL DEF ClientSpec, ClaimHonest

=============================================================================
