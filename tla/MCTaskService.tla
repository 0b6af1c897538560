---------------------------- MODULE MCTaskService ----------------------------
(* TaskService on small instances: streams to start from, and constants.    *)
EXTENDS TaskService, TLC

CONSTANTS v1, v2, t1, t2

\* The legal stream of n events for proposal v at the first commit.
Chain(n, v, by) ==
    LET body(i) == [type |-> EventTypes[i], sha |-> v, head |-> 1,
                    by |-> IF i = 1 THEN NoHash ELSE by, lease |-> NoHash]
        C[i \in 0..n] == IF i = 0 THEN <<>> ELSE Append(C[i - 1], Link(C[i - 1], body(i)))
    IN  C[n]

OneTask == {t1}
TwoTasks == {t1, t2}
OtherTask == {t2}
Nothing == {}
NoDeps == [t \in Tasks |-> [v \in Versions |-> {}]]
\* The first proposal of t1 depends on t2.
T1OnT2 == [t \in Tasks |-> [v \in Versions |-> IF t = t1 /\ v = v1 THEN {t2} ELSE {}]]

AllV1 == [d \in Docs |-> v1]
OneCommit == <<AllV1>>
\* The second commit changed a service-owned file only.
TwoCommits == <<AllV1, AllV1>>
AnyStage == {[t \in Tasks |-> Chain(n, v1, by)] : n \in 0..3, by \in Agents}
\* Nothing yet, or claimed: every event type is still to come in one of them.
FreshOrClaimed == {[t \in Tasks |-> Chain(n, v1, by)] : n \in {0, 2}, by \in Agents}
\* t1 is verified and waits for t2, which is completed or about to be.
T1Waits == {[t \in Tasks |-> Chain(IF t = t1 THEN 1 ELSE n, v1, by)] :
              n \in {3, 4}, by \in Agents}
\* ... or not even submitted.
T1WaitsLong == {[t \in Tasks |-> Chain(IF t = t1 THEN 1 ELSE n, v1, by)] :
                  n \in {0, 3}, by \in Agents}
Empty == {[t \in Tasks |-> <<>>]}

Symmetry == Permutations(Writers) \cup Permutations(Agents)
=============================================================================
