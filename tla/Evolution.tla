------------------------------ MODULE Evolution ------------------------------
(***************************************************************************)
(* The evolution review: what the history of the production files says     *)
(* about sets of files that change together and about coordinators that    *)
(* are extended again and again (domain/evolution*.ts), and the evidence   *)
(* read from past commits for it (application/evolution*.ts).              *)
(*                                                                         *)
(*   history   a sequence of commits, each a set of [path, kind], kind     *)
(*             "added", "modified" or "deleted"                            *)
(*   facts     of the files in the baseline: [production, loc, imports,    *)
(*             reexports]                                                  *)
(***************************************************************************)
EXTENDS Naturals, Sequences, FiniteSets, SequencesExt

CONSTANTS MaxSets, MaxIntersections   \* the budget of the enumeration

---------------------------------------------------------------------------
(* History *)

\* What a file imports for its own use, re-exports apart.
Imports(facts, f) == facts[f].imports \ facts[f].reexports

Changed(commit) == {c.path : c \in commit}
ProductionFiles(commit, facts) == {f \in Changed(commit) \cap DOMAIN facts : facts[f].production}
ProductionChanges(commit, facts) == {c \in commit : c.path \in ProductionFiles(commit, facts)}
Unavailable(history, facts) == UNION {Changed(history[i]) : i \in DOMAIN history} \ DOMAIN facts

\* collectEvolutionHistory: commits with two production files, unless they only
\* add files (the import of a code base, say).
Eligible(history, facts) ==
    {i \in DOMAIN history : /\ Cardinality(ProductionFiles(history[i], facts)) >= 2
                            /\ \E c \in ProductionChanges(history[i], facts) : c.kind # "added"}

\* The change sets that are analysed, each with the number of its commit.
ChangeSets(history, facts) ==
    {[id |-> i, files |-> ProductionFiles(history[i], facts),
      changes |-> ProductionChanges(history[i], facts)] : i \in Eligible(history, facts)}

\* recordExtensions: a coordinator is modified in the commit that adds a member
\* it imports now.
Extensions(history, facts) ==
    UNION {{[coordinator |-> e[1].path, member |-> e[2].path, commit |-> s.id] :
               e \in {x \in s.changes \X s.changes :
                         /\ x[1].kind = "modified" /\ x[2].kind = "added"
                         /\ x[2].path \in Imports(facts, x[1].path)}} : s \in ChangeSets(history, facts)}

---------------------------------------------------------------------------
(* Files that change together *)

\* A mutant of Itemsets: change sets are only intersected with each other once.
ItemsetsOnce(sets, min) ==
    {s.files : s \in sets} \cup {i \in {s.files \cap t.files : s, t \in sets} : Cardinality(i) >= min}

\* buildClosedCochangeAnalysis: the files of all change sets, intersected with
\* all change sets until nothing new of the minimum size comes of it.
Itemsets(sets, min) ==
    LET more(I) == I \cup {i \in {j \cap s.files : j \in I, s \in sets} : Cardinality(i) >= min}
        grow[n \in 0..Cardinality(sets)] == IF n = 0 THEN {s.files : s \in sets} ELSE more(grow[n - 1])
    IN  grow[Cardinality(sets)]

OverBudget(sets, min) ==
    sets # {} /\ LET n == Cardinality(Itemsets(sets, min))
                 IN  n >= MaxSets \/ n * Cardinality(sets) > MaxIntersections

Support(sets, F) == {s \in sets : F \subseteq s.files}
Shared(S) == {f \in UNION {s.files : s \in S} : \A s \in S : f \in s.files}

\* The closed sets with enough files and enough commits behind them.
Closed(sets, min, support, required) ==
    {F \in Itemsets(sets, min) : /\ Cardinality(F) >= min /\ required \subseteq F
                                 /\ Cardinality(Support(sets, F)) >= support
                                 /\ Shared(Support(sets, F)) = F}

\* importComponents
Components(F, facts) ==
    LET linked(f, g) == g \in Imports(facts, f) \/ f \in Imports(facts, g)
        reach(f) == LET r[n \in 0..Cardinality(F)] ==
                            IF n = 0 THEN {f} ELSE r[n - 1] \cup {g \in F : \E x \in r[n - 1] : linked(x, g)}
                    IN  r[Cardinality(F)]
    IN  Cardinality({reach(f) : f \in F})

InternalImports(F, facts) == Cardinality({e \in F \X F : e[2] \in Imports(facts, e[1])})

\* Five ratios, as numerator and denominator: coverage of the least bound
\* member, compactness, connectivity, import density, and observed actions.
Merits(sets, F, facts) ==
    LET support == Support(sets, F)
        occurrences(f) == Cardinality(Support(sets, {f}))
        n == Cardinality(support)
    IN  << <<n, CHOOSE m \in {occurrences(f) : f \in F} : \A f \in F : occurrences(f) <= m>>,
           <<Cardinality(F) * n, FoldSet(LAMBDA s, sum : sum + Cardinality(s.files), 0, support)>>,
           <<IF Cardinality(F) <= 1 THEN 0 ELSE Cardinality(F) - Components(F, facts),
             IF Cardinality(F) <= 1 THEN 1 ELSE Cardinality(F) - 1>>,
           <<InternalImports(F, facts), Cardinality(F)>>,
           <<Cardinality({s \in support : \E c \in s.changes : c.path \in F}), n>> >>

Dominates(v, w) ==
    /\ \A i \in DOMAIN v : v[i][1] * w[i][2] >= w[i][1] * v[i][2]
    /\ \E i \in DOMAIN v : v[i][1] * w[i][2] > w[i][1] * v[i][2]

\* paretoFront
ParetoFront(sets, found, facts) ==
    {F \in found : \A G \in found : ~Dominates(Merits(sets, G, facts), Merits(sets, F, facts))}

\* A budget that is used up leaves no candidates, and says so.
CochangeSets(sets, facts, min, support, required) ==
    IF OverBudget(sets, min) THEN [availability |-> "unavailable", found |-> {}]
    ELSE [availability |-> "available",
          found |-> ParetoFront(sets, Closed(sets, min, support, required), facts)]

---------------------------------------------------------------------------
(* Coordinators *)

Coordinators(history, facts) ==
    LET events(c) == {e \in Extensions(history, facts) : e.coordinator = c}
    IN  {[coordinator |-> c, events |-> events(c)] :
            c \in {f \in DOMAIN facts : /\ Cardinality({e.member : e \in events(f)}) >= 2
                                        /\ Cardinality({e.commit : e \in events(f)}) >= 2 /\ facts[f].loc > 0}}

\* projectedExtensionChanges: what else was modified in the commits that extend
\* a coordinator; files that only forward do not count.
Projected(history, facts, c) ==
    LET forwards(f) == facts[f].reexports # {} /\ Imports(facts, f) = {}
        kept(s) == {x \in s.changes : x.kind = "modified" /\ ~forwards(x.path)}
    IN  {[id |-> s.id, files |-> {x.path : x \in kept(s)}, changes |-> kept(s)] :
            s \in {t \in ChangeSets(history, facts) : /\ \E e \in c.events : e.commit = t.id
                                                      /\ \E x \in kept(t) : x.path = c.coordinator}}

\* extensionSurfaceCandidates: the sets around the coordinator whose commits
\* added at least two members.
Surfaces(history, facts, c) ==
    LET sets == Projected(history, facts, c)
        analysis == CochangeSets(sets, facts, 2, 2, {c.coordinator})
        members(F) == {e.member : e \in {x \in c.events : \E s \in Support(sets, F) : s.id = x.commit}}
    IN  IF Cardinality(sets) < 2 THEN [availability |-> "available", found |-> {}]
        ELSE [analysis EXCEPT !.found = {F \in @ : Cardinality(members(F)) >= 2}]

SurfaceAvailability(analyses) ==
    IF \A a \in analyses : a.availability = "available" THEN "available"
    ELSE IF \E a \in analyses : a.found # {} THEN "partial" ELSE "unavailable"

---------------------------------------------------------------------------
(* Evidence from past commits *)

\* selectCoordinationEvents: in turns, an event of a member not yet chosen
\* before any other; candidates is a sequence of sequences of members.
NextEvent(events, chosen) ==
    LET left == DOMAIN events \ chosen
        fresh == {i \in left : \A j \in chosen : events[j] # events[i]}
        least(S) == CHOOSE i \in S : \A j \in S : i <= j
    IN  IF fresh # {} THEN least(fresh) ELSE least(left)

SelectEvents(candidates, budget) ==
    LET n == Len(candidates)
        turn[i \in 0..(n * (budget + 1))] ==
            IF i = 0 THEN [left |-> budget, chosen |-> [k \in 1..n |-> {}]]
            ELSE LET t == turn[i - 1]
                     k == ((i - 1) % n) + 1
                 IN  IF t.left = 0 \/ t.chosen[k] = DOMAIN candidates[k] THEN t
                     ELSE [left |-> t.left - 1,
                           chosen |-> [t.chosen EXCEPT ![k] = @ \cup {NextEvent(candidates[k], t.chosen[k])}]]
    IN  turn[n * (budget + 1)].chosen

\* aggregateEvidence: statuses is a sequence.
EventStatus(statuses, exhausted) ==
    LET all(s) == \A i \in DOMAIN statuses : statuses[i] = s
    IN  CASE all("unavailable") -> "unavailable"
          [] ~all("unavailable") /\ (exhausted \/ "unavailable" \in Range(statuses)) -> "partial"
          [] OTHER -> IF all("confirmed") THEN "confirmed" ELSE "not_confirmed"

\* eventStatus: an import of the member that is there after the commit and was
\* not before.
EventOf(readable, before, after) ==
    IF ~readable THEN "unavailable" ELSE IF after /\ ~before THEN "confirmed" ELSE "not_confirmed"

\* cochangeEvidence: commits is a sequence of sets of change kinds, or
\* {"unavailable"}.
CochangeStatus(commits, exhausted) ==
    LET lost == {i \in DOMAIN commits : commits[i] = {"unavailable"}}
        same(k) == {i \in DOMAIN commits \ lost : commits[i] = k}
        aligned == \E k \in Range(commits) \ {{}} : same(k) = DOMAIN commits
    IN  CASE lost = DOMAIN commits -> "unavailable"
          [] lost # DOMAIN commits /\ (exhausted \/ lost # {}) -> "partial"
          [] OTHER -> IF aligned THEN "aligned" ELSE "mixed"

\* pruneUncorroboratedCochangeSets
Pruned(F, facts, status) == Components(F, facts) = Cardinality(F) /\ status = "mixed"

\* enrichCochangeSets: the first candidates share a budget of commits, each up
\* to a bound of its own; supports is a sequence of sequences.
Inspected(supports, budget, candidates, perCandidate) ==
    LET least(a, b) == IF a <= b THEN a ELSE b
        take[k \in 0..Len(supports)] ==
            IF k = 0 THEN [left |-> budget, n |-> 0]
            ELSE LET n == IF k > candidates THEN 0
                          ELSE least(Len(supports[k]), least(perCandidate, take[k - 1].left))
                 IN  [left |-> take[k - 1].left - n, n |-> n]
    IN  [k \in DOMAIN supports |-> take[k].n]

\* evolutionReview: a baseline that does not tell re-exports from imports gives
\* no candidates at all.
Reviewed(classified, availability) == IF classified THEN availability ELSE "unavailable"

---------------------------------------------------------------------------
(* Laws *)

\* The enumeration misses nothing: what it finds are all sets that are exactly
\* what some large enough group of commits has in common
\* (buildClosedCochangeAnalysis).
MiningComplete(history, facts, min, support) ==
    LET sets == ChangeSets(history, facts)
    IN  Closed(sets, min, support, {}) =
            {F \in {Shared(S) : S \in {T \in SUBSET sets : Cardinality(T) >= support}} : Cardinality(F) >= min}

\* No set is dropped from the report for nothing: a better one is in it
\* (paretoFront).
FrontStands(history, facts, min, support) ==
    LET sets == ChangeSets(history, facts)
        found == Closed(sets, min, support, {})
    IN  \A F \in found \ ParetoFront(sets, found, facts) :
            \E G \in ParetoFront(sets, found, facts) : Dominates(Merits(sets, G, facts), Merits(sets, F, facts))

\* Whoever extends a coordinator is a production file it still imports, and
\* an extension surface is never reported for a coordinator that is not
\* (extensionSurfaceCandidates).
SurfacesStand(history, facts) ==
    \A c \in Coordinators(history, facts) : \A F \in Surfaces(history, facts, c).found :
        /\ c.coordinator \in F /\ \A f \in F : f \in DOMAIN facts /\ facts[f].production
        /\ Cardinality({e.commit : e \in c.events}) >= 2

\* The budget is shared: while there is some left nobody goes without, nobody is
\* two events ahead of one who could have more, and an event of a member already
\* seen is not read before one of a new member (selectCoordinationEvents).
SelectionFair(candidates, budget) ==
    \A chosen \in {SelectEvents(candidates, budget)} :
        LET n(k) == Cardinality(chosen[k])
        IN  \A k, l \in DOMAIN candidates :
              /\ n(k) > n(l) + 1 => chosen[l] = DOMAIN candidates[l]
              /\ budget >= Len(candidates) /\ candidates[k] # <<>> => n(k) > 0
              /\ \A i \in DOMAIN candidates[k] \ chosen[k] :
                    \/ \E j \in chosen[k] : candidates[k][j] = candidates[k][i]
                    \/ Cardinality({candidates[k][j] : j \in chosen[k]}) = n(k)

\* Confirmed and aligned speak for every commit of a candidate, and a candidate
\* is only taken from the report when all of its commits were read
\* (aggregateEvidence, cochangeEvidence, pruneUncorroboratedCochangeSets).
EvidenceSpeaksForAll(statuses, commits, exhausted) ==
    /\ EventStatus(statuses, exhausted) = "confirmed" => ~exhausted /\ Range(statuses) = {"confirmed"}
    /\ CochangeStatus(commits, exhausted) \in {"aligned", "mixed"} =>
            ~exhausted /\ {"unavailable"} \notin Range(commits)

\* No more commits are read than the budget (enrichCochangeSets).
BudgetKept(supports, budget, candidates, perCandidate) ==
    FoldLeft(LAMBDA sum, n : sum + n, 0, Inspected(supports, budget, candidates, perCandidate)) <= budget
=============================================================================
