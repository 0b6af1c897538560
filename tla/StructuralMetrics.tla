------------------------- MODULE StructuralMetrics -------------------------
(***************************************************************************)
(* The structural metrics of a file and the calibration of a population:   *)
(* the dependency graph and Reach (domain/graph.ts, reach.ts), the 95th    *)
(* percentile (p95.ts), the local burden (crlState.ts) and the calibration *)
(* epochs of domain/calibration.ts.  The four inputs of the local burden   *)
(* (branch, nesting, implementation lines, external calls) are one number, *)
(* "branch"; alphaStruct is the pair of numbers its logarithms are taken   *)
(* of.  Percentages are integers; a P95 is kept in hundredths.             *)
(***************************************************************************)
EXTENDS Integers, Sequences, FiniteSets

CONSTANTS
    None,           \* an absent optional field
    ImplicitEdges,  \* edges of .openarch/implicit-deps.json, a set of pairs
    MaxDepth        \* depth at which Reach is cut off (useMaxDepth)

---------------------------------------------------------------------------
(* The dependency graph: a function from each node to its dependencies *)

\* addImplicitEdges: an edge counts when both ends are nodes.
WithImplicit(g) ==
    [n \in DOMAIN g |->
        g[n] \cup {m \in DOMAIN g : <<n, m>> \in ImplicitEdges}]

\* buildDependencyGraph: only imports between the given files are edges.
BuildGraph(imports) ==
    WithImplicit([n \in DOMAIN imports |-> imports[n] \cap DOMAIN imports])

\* buildDependencyGraphFromEdges: the recorded edges as they are.
BuildGraphFromEdges(edges) == WithImplicit(edges)

InDegree(g, n) == Cardinality({m \in DOMAIN g : n \in g[m]})

\* computeReverseEdges followed by the breadth-first search of reach.
Consumers(g, S) == {m \in DOMAIN g : g[m] \cap (S \cap DOMAIN g) # {}}

ReachedWithin(g, n) ==
    LET step[d \in 0..MaxDepth] ==
            IF d = 0 THEN {n} ELSE step[d - 1] \cup Consumers(g, step[d - 1])
    IN  step[MaxDepth]

Reach(g, n) == Cardinality(ReachedWithin(g, n))

---------------------------------------------------------------------------
(* Percentile and burden *)

\* The k-th smallest value of pop, a function from files to numbers.
OrderStatistic(pop, k) ==
    CHOOSE v \in {pop[f] : f \in DOMAIN pop} :
        /\ Cardinality({f \in DOMAIN pop : pop[f] =< v}) >= k
        /\ Cardinality({f \in DOMAIN pop : pop[f] < v}) < k

\* p95: linear interpolation at 0.95 * (n - 1), in hundredths; 0 for no value.
P95(pop) ==
    LET n == Cardinality(DOMAIN pop)
        lo == (95 * (n - 1)) \div 100
        part == (95 * (n - 1)) % 100
        low == OrderStatistic(pop, lo + 1)
        high == IF part = 0 THEN low ELSE OrderStatistic(pop, lo + 2)
    IN  IF n = 0 THEN 0 ELSE 100 * low + part * (high - low)

\* computeCRLStateBreakdown(...).localBurden: weight * min(1, branch / p95),
\* as a fraction; nothing is charged when the P95 is not positive.
LocalBurden(branch, p, weight) ==
    IF p = 0
    THEN [num |-> 0, den |-> 1]
    ELSE [num |-> weight * (IF 100 * branch < p THEN 100 * branch ELSE p), den |-> p]

Above(burden, threshold) == burden.num > threshold * burden.den
SameBurden(a, b) == a.num * b.den = b.num * a.den

---------------------------------------------------------------------------
(* Calibration epochs *)

\* createStructuralCalibrationProfile.  Its id hashes the other three fields,
\* so that two profiles have the same id exactly when they are equal.
Profile(scope, weight, population) ==
    [scope |-> scope, weight |-> weight, population |-> population]

ProfileP95(profile) ==
    P95([f \in DOMAIN profile.population |-> profile.population[f].branch])

\* gateCalibrationProfile: the sealed profile, else the observed one.
GateProfile(state) ==
    IF state = None THEN None
    ELSE IF state.gate # None THEN state.gate ELSE state.current

\* The current/previous pair moves only when the observed profile changed.
Observe(observed, previous) ==
    IF previous = None THEN [current |-> observed, previous |-> None, gate |-> None]
    ELSE IF previous.current = observed THEN previous
    ELSE [current |-> observed, previous |-> previous.current, gate |-> previous.gate]

\* A mutant of NextCalibration: every scan moves the gate epoch.
NextCalibrationFollows(observed, previous, seal) ==
    [Observe(observed, previous) EXCEPT !.gate = observed]

\* nextStructuralCalibrationState
NextCalibration(observed, previous, seal) ==
    LET seen == Observe(observed, previous)
    IN  IF seal THEN [seen EXCEPT !.gate = observed]
        ELSE IF seen.gate # None THEN seen
        ELSE [seen EXCEPT !.gate = IF previous = None THEN observed
                                   ELSE previous.current]

\* comparableStructuralCalibration
Comparable(a, b) ==
    /\ a # None /\ b # None
    /\ a.scope = b.scope /\ a.weight = b.weight
    /\ a.population # b.population

---------------------------------------------------------------------------
(* Calls within a file *)

\* The functions of a file: a sequence of [name, calls], calls a function from
\* the callees to the number of call sites; overloads share a name.
Own(funcs) == {funcs[i].name : i \in DOMAIN funcs}

\* adjacencyOf: an undirected graph on the names.
Linked(funcs, m, n) ==
    m # n /\ \E i \in DOMAIN funcs : \/ funcs[i].name = m /\ n \in DOMAIN funcs[i].calls
                                     \/ funcs[i].name = n /\ m \in DOMAIN funcs[i].calls

\* The breadth-first search of maxComponentShare.
Component(funcs, n) ==
    LET step[d \in 0..Cardinality(Own(funcs))] ==
            IF d = 0 THEN {n}
            ELSE step[d - 1] \cup {m \in Own(funcs) : \E k \in step[d - 1] : Linked(funcs, k, m)}
    IN  step[Cardinality(Own(funcs))]

LargestComponent(funcs) ==
    CHOOSE k \in {Cardinality(Component(funcs, n)) : n \in Own(funcs)} :
        \A n \in Own(funcs) : Cardinality(Component(funcs, n)) <= k

\* callSitesByCallee, only compared with 0 and 1.
CallSites(funcs, n) ==
    LET callers == {i \in DOMAIN funcs : n \in DOMAIN funcs[i].calls}
    IN  IF callers = {} THEN 0
        ELSE IF Cardinality(callers) = 1 THEN LET i == CHOOSE x \in callers : TRUE IN funcs[i].calls[n]
        ELSE 2

\* computeInternalCallShape: connectedness is component / of, cohesion
\* min(1, edges / (of * (of - 1) / 2)).
CallShape(funcs) ==
    LET of == Cardinality(DOMAIN funcs)
        called == {n \in Own(funcs) : CallSites(funcs, n) > 0}
    IN  IF of <= 1 THEN [component |-> of, of |-> of, edges |-> 0, called |-> 0, single |-> 0]
        ELSE [component |-> LargestComponent(funcs), of |-> of,
              edges |-> Cardinality({e \in SUBSET Own(funcs) :
                                        \E m, n \in e : e = {m, n} /\ Linked(funcs, m, n)}),
              called |-> Cardinality(called),
              single |-> Cardinality({n \in called : CallSites(funcs, n) = 1})]

\* The shape of a file does not depend on the order of its functions, what is
\* connected is held together by enough calls, a function that is added
\* without a call changes none of the counts, and only overloads or strangers
\* keep a file below full connectedness.
CallShapeSound(funcs, order, alone) ==
    LET shape == CallShape(funcs)
        more == CallShape(Append(funcs, [name |-> alone, calls |-> <<>>]))
    IN  /\ CallShape([i \in DOMAIN funcs |-> funcs[order[i]]]) = shape
        /\ shape.component <= shape.edges + 1 /\ shape.single <= shape.called
        /\ Len(funcs) > 1 => <<more.edges, more.called, more.single>> = <<shape.edges, shape.called, shape.single>>
        /\ (shape.component = shape.of /\ Len(funcs) > 1) =
               (Len(funcs) > 1 /\ Cardinality(Own(funcs)) = Len(funcs)
                  /\ \A S \in (SUBSET Own(funcs)) \ {{}, Own(funcs)} :
                        \E m \in S, n \in Own(funcs) \ S : Linked(funcs, m, n))
=============================================================================
