-------------------------- MODULE GovernanceProofs --------------------------
(***************************************************************************)
(* What holds of scan, status and gate for any project: any files and      *)
(* configurations, however often they are edited and scanned.  The         *)
(* inductive invariant says what a scan knows as long as nobody edits      *)
(* anything, and what an index that was written by such scans says of the  *)
(* sources it was made from.                                               *)
(*                                                                         *)
(* The last parts are about the algorithms next to them, for every input   *)
(* the code can give them: the reach of a change (ChangeImpact), the test  *)
(* report (TestGovernance) and the change classifier (SemanticChanges).    *)
(***************************************************************************)
EXTENDS GovernanceCommands, FiniteSetTheorems, SequenceTheorems, TLAPS

CONSTANTS
    Adapters,          \* the test providers
    Absent             \* no revision of a file, or no facts of one

---------------------------------------------------------------------------
(* The inductive invariant *)

Types ==
    /\ layout \in BOOLEAN
    /\ tree \in [Files -> Contents \cup {None}]
    /\ config \in Configs
    /\ index # None => IndexOK(index)
    /\ rebuilt \in BOOLEAN /\ edits \in 0..MaxEdits /\ scans \in 0..MaxScans

ScanFields ==
    {"step", "paths", "complete", "incremental", "seal", "config", "source", "parsed",
     "reused", "shapes", "quiet"}

\* A running scan, whatever is edited beside it.
ScanTyped ==
    scan # None =>
        /\ ScanFields \subseteq DOMAIN scan
        /\ scan.step \in {"begun", "parsed"}
        /\ scan.paths \subseteq Files
        /\ {scan.complete, scan.incremental, scan.seal, scan.quiet} \subseteq BOOLEAN
        /\ scan.config \in Configs
        /\ scan.incremental => scan.complete
        /\ scan.step = "parsed" =>
             /\ DOMAIN scan.parsed \subseteq Files
             /\ \A f \in DOMAIN scan.parsed : scan.parsed[f] \in Contents
             /\ scan.reused \subseteq DOMAIN PreviousEntries

\* A scan during which nothing was edited works on the project as it is.
QuietScan ==
    scan # None /\ scan.quiet =>
        /\ scan.config = config
        /\ scan.paths \subseteq SourceFiles(config)
        /\ scan.complete => /\ scan.paths = SourceFiles(config)
                            /\ scan.source = SnapshotOf(SourceFiles(config))
        /\ scan.incremental => ~ConfigChanged
        /\ scan.step = "parsed" =>
             /\ scan.shapes = config.shapes
             /\ ~scan.incremental =>
                  scan.parsed = SnapshotOf(scan.paths) /\ scan.reused = {}
             /\ scan.incremental =>
                  /\ scan.parsed = SnapshotOf(ToParse)
                  /\ ToParse \subseteq Present
                  /\ scan.reused = DOMAIN PreviousEntries \ (ToParse \cup Deleted)

UnambiguousIn(cfg, entries) ==
    \A f \in DOMAIN entries :
        Production(entries[f].kind) =>
            ~(Cardinality(PoliciesFor(PoliciesOf(cfg), f, entries[f].lang)) > 1)

\* An index says of each file of its snapshot what the configuration and the
\* contents recorded with it say.
EntriesExact(idx, lay) ==
    /\ DOMAIN idx.entries = DOMAIN idx.source
    /\ \A f \in DOMAIN idx.source :
         /\ InScope(idx.config.langs, f)
         /\ idx.source[f] \in Contents
         /\ idx.entries[f].kind = KindIn(idx.config, lay, f)
         /\ idx.entries[f].lang = LangOf[f]
         /\ idx.entries[f].branch = idx.source[f].branch
         /\ idx.entries[f].imports = idx.source[f].imports
         /\ idx.entries[f].hash = idx.source[f]
    /\ idx.p95 = P95([f \in {g \in DOMAIN idx.source :
                                KindIn(idx.config, lay, g) = "production"} |->
                         idx.source[f].branch])

\* It was written for that configuration, and has every calibration that the
\* gate will ask for under it.
MetaExact(idx, lay) ==
    /\ idx.config \in Configs
    /\ idx.scope = ScanScope(idx.config, lay)
    /\ idx.shapes = idx.config.shapes
    /\ idx.identity /\ idx.contract = Contract
    /\ UnambiguousIn(idx.config, idx.entries)
    /\ idx.calibration # None
    /\ \A p \in PoliciesOf(idx.config) :
         DOMAIN PolicyPopulation(idx.entries, p) # {} => p.id \in DOMAIN idx.policyCalibrations

RebuiltExact ==
    rebuilt =>
        /\ index # None
        /\ index.config # None => index.complete
        /\ index.complete => EntriesExact(index, layout) /\ MetaExact(index, layout)

IInv == Types /\ ScanTyped /\ QuietScan /\ RebuiltExact

---------------------------------------------------------------------------
(* Numbers *)

\* A set of numbers has a smallest one: of the sets of what lies below each of
\* its numbers, which are finite, none is below the smallest.
LEMMA SmallestOf ==
    ASSUME NEW X, X \subseteq Nat, X # {}
    PROVE  \E x \in X : \A y \in X : x <= y
  <1> DEFINE Below(n) == {m \in X : m <= n}
             T == {Below(n) : n \in X}
  <1>1. T \subseteq FiniteSubsetsOf(Nat)
    <2> SUFFICES ASSUME NEW n \in X PROVE Below(n) \in FiniteSubsetsOf(Nat)
      OBVIOUS
    <2>1. Below(n) \in SUBSET Nat /\ n \in Nat /\ \A m \in Below(n) : m <= n
      OBVIOUS
    <2>2. IsFiniteSet(Below(n))
      BY <2>1, FS_BoundedSetOfNaturals
    <2> QED
      BY <2>1, <2>2 DEF FiniteSubsetsOf
  <1>2. T # {}
    OBVIOUS
  <1>3. \E U \in T : \A V \in T : ~(<<V, U>> \in StrictSubsetOrdering(Nat))
    BY <1>1, <1>2, FS_StrictSubsetOrderingWellFounded, WFMin
  <1>4. PICK x \in X : \A V \in T : ~(<<V, Below(x)>> \in StrictSubsetOrdering(Nat))
    BY <1>3
  <1>5. ASSUME NEW y \in X, ~(x <= y) PROVE FALSE
    <2>1. y < x /\ x \in Nat /\ y \in Nat
      BY <1>5
    <2>2. Below(y) \subseteq Below(x)
      <3> SUFFICES ASSUME NEW m \in X, m <= y PROVE m <= x
        OBVIOUS
      <3>1. m \in Nat
        OBVIOUS
      <3> QED
        BY <2>1, <3>1
    <2>3. x \in Below(x) /\ x \notin Below(y)
      BY <2>1
    <2>4. Below(x) \in SUBSET Nat /\ Below(y) \in SUBSET Nat
      OBVIOUS
    <2>5. Below(y) \in T
      OBVIOUS
    <2> HIDE DEF Below, T
    <2>6. <<Below(y), Below(x)>> \in StrictSubsetOrdering(Nat)
      BY <2>2, <2>3, <2>4 DEF StrictSubsetOrdering
    <2> QED
      BY <1>4, <2>5, <2>6
  <1> QED
    BY <1>5

\* The numbers that a finite set of files is given have a bound: a smallest
\* set without one would have one with any of its files left out.
LEMMA Bounded ==
    ASSUME NEW S, IsFiniteSet(S), NEW pop, \A f \in S : pop[f] \in Nat
    PROVE  \E b \in Nat : \A f \in S : pop[f] <= b
  <1> DEFINE HasBound(U) == \E b \in Nat : \A f \in U : pop[f] <= b
             T == {U \in SUBSET S : ~HasBound(U)}
  <1> SUFFICES ASSUME ~HasBound(S) PROVE FALSE
    OBVIOUS
  <1>1. T \subseteq FiniteSubsetsOf(S)
    BY FS_Subset DEF FiniteSubsetsOf
  <1>2. T # {}
    OBVIOUS
  <1>3. PICK U \in T : \A V \in T : ~(<<V, U>> \in StrictSubsetOrdering(S))
    BY <1>1, <1>2, FS_StrictSubsetOrderingWellFounded, WFMin
  <1>4. HasBound({})
    OBVIOUS
  <1>5. PICK x \in U : TRUE
    BY <1>4
  <1>6. U \in SUBSET S /\ ~HasBound(U)
    OBVIOUS
  <1>7. U \ {x} \in SUBSET S
    BY <1>6
  <1>8. <<U \ {x}, U>> \in StrictSubsetOrdering(S)
    BY <1>5, <1>6, <1>7 DEF StrictSubsetOrdering
  <1>9. HasBound(U \ {x})
    BY <1>3, <1>7, <1>8
  <1>10. PICK b \in Nat : \A f \in U \ {x} : pop[f] <= b
    BY <1>9
  <1>11. pop[x] \in Nat
    BY <1>6
  <1>12. \A f \in U : pop[f] <= b + pop[x]
    <2> SUFFICES ASSUME NEW f \in U PROVE pop[f] <= b + pop[x]
      OBVIOUS
    <2>1. pop[f] \in Nat
      BY <1>6
    <2> QED
      BY <2>1, <1>10, <1>11
  <1>13. b + pop[x] \in Nat
    BY <1>11
  <1> QED
    BY <1>6, <1>12, <1>13

\* Among n numbers there is a k-th smallest: the smallest bound of at least k
\* of them.
LEMMA StatisticExists ==
    ASSUME NEW pop, IsFiniteSet(DOMAIN pop), \A f \in DOMAIN pop : pop[f] \in Nat,
           NEW k \in 1..Cardinality(DOMAIN pop)
    PROVE  OrderStatistic(pop, k) \in Nat
  <1> DEFINE UpTo(v) == {f \in DOMAIN pop : pop[f] =< v}
             Under(v) == {f \in DOMAIN pop : pop[f] < v}
             B == {v \in Nat : Cardinality(UpTo(v)) >= k}
             V == {pop[f] : f \in DOMAIN pop}
  <1>1. \A v : Cardinality(UpTo(v)) \in Nat /\ Cardinality(Under(v)) \in Nat
    BY FS_Subset, FS_CardinalityType
  <1>2. PICK b \in Nat : \A f \in DOMAIN pop : pop[f] <= b
    BY Bounded
  <1>3. UpTo(b) = DOMAIN pop
    BY <1>2
  <1>4. b \in B
    BY <1>3, FS_CardinalityType
  <1>5. PICK v \in B : \A w \in B : v <= w
    <2>1. B \subseteq Nat /\ B # {}
      BY <1>4
    <2> QED
      BY <2>1, SmallestOf
  <1>6. v \in Nat /\ Cardinality(UpTo(v)) >= k
    OBVIOUS
  <1>7. Cardinality(Under(v)) < k
    <2>1. CASE v = 0
      <3>1. Under(v) = {}
        BY <2>1
      <3> QED
        BY <3>1, FS_EmptySet
    <2>2. CASE v # 0
      <3>1. v - 1 \in Nat /\ v - 1 \notin B
        BY <1>5, <1>6, <2>2
      <3>2. Under(v) = UpTo(v - 1)
        BY <1>6, <2>2
      <3> QED
        BY <1>1, <3>1, <3>2
    <2> QED
      BY <2>1, <2>2
  <1>8. v \in V
    <2>1. UpTo(v) # Under(v)
      <3>1. Cardinality(UpTo(v)) # Cardinality(Under(v))
        BY <1>1, <1>6, <1>7
      <3> HIDE DEF UpTo, Under
      <3> QED
        BY <3>1
    <2>2. PICK f \in DOMAIN pop : pop[f] <= v /\ ~(pop[f] < v)
      BY <1>6, <2>1
    <2>3. pop[f] = v
      BY <1>6, <2>2
    <2> QED
      BY <2>3
  <1>9. OrderStatistic(pop, k) \in V
    BY <1>6, <1>7, <1>8 DEF OrderStatistic
  <1> QED
    BY <1>9

\* The P95 of a population is a number.
LEMMA P95Number ==
    ASSUME NEW pop, IsFiniteSet(DOMAIN pop), \A f \in DOMAIN pop : pop[f] \in Nat
    PROVE  P95(pop) \in Int
  <1> DEFINE n == Cardinality(DOMAIN pop)
             lo == (95 * (n - 1)) \div 100
             part == (95 * (n - 1)) % 100
  <1>1. n \in Nat
    BY FS_CardinalityType
  <1>2. CASE n = 0
    BY <1>2 DEF P95
  <1>3. CASE n # 0
    <2> HIDE DEF n
    <2>1. lo \in Nat /\ part \in Nat /\ lo + 1 \in 1..n
      BY <1>1, <1>3
    <2>2. part # 0 => lo + 2 \in 1..n
      BY <1>1, <1>3
    <2>3. OrderStatistic(pop, lo + 1) \in Nat
      BY <2>1, StatisticExists DEF n
    <2>4. part # 0 => OrderStatistic(pop, lo + 2) \in Nat
      BY <2>2, StatisticExists DEF n
    <2> HIDE DEF lo, part
    <2>5. P95(pop) = LET low == OrderStatistic(pop, lo + 1)
                         high == IF part = 0 THEN low ELSE OrderStatistic(pop, lo + 2)
                     IN  100 * low + part * (high - low)
      BY <1>3 DEF P95, n, lo, part
    <2>6. CASE part = 0
      BY <2>1, <2>3, <2>5, <2>6
    <2>7. CASE part # 0
      BY <2>1, <2>3, <2>4, <2>5, <2>7
    <2> QED
      BY <2>6, <2>7
  <1> QED
    BY <1>2, <1>3

---------------------------------------------------------------------------
(* Reach *)

\* The search is defined at every depth, and finds nodes of the graph.
LEMMA ReachNumber ==
    ASSUME NEW g, IsFiniteSet(DOMAIN g), NEW n, MaxDepth \in Nat
    PROVE  Reach(g, n) \in Nat
  <1> DEFINE Steps(h, k) ==
               h = [d \in 0..k |-> IF d = 0 THEN {n} ELSE h[d - 1] \cup Consumers(g, h[d - 1])]
             Failing == {k \in Nat : ~(\E h : Steps(h, k))}
             step == CHOOSE h : Steps(h, MaxDepth)
  <1>1. Failing = {}
    <2> SUFFICES ASSUME Failing # {} PROVE FALSE
      OBVIOUS
    <2>1. PICK k \in Failing : \A j \in Failing : k <= j
      BY SmallestOf
    <2>2. k \in Nat /\ ~(\E h : Steps(h, k))
      OBVIOUS
    <2>3. k # 0
      <3>1. Steps([d \in 0..0 |-> {n}], 0)
        OBVIOUS
      <3> QED
        BY <2>2, <3>1
    <2>4. k - 1 \in Nat /\ k - 1 \notin Failing
      <3>1. k - 1 \in Nat /\ ~(k <= k - 1)
        BY <2>2, <2>3
      <3> HIDE DEF Failing
      <3> QED
        BY <2>1, <3>1
    <2>5. PICK h : Steps(h, k - 1)
      BY <2>4
    <2> DEFINE more == [d \in 0..k |-> IF d = k THEN h[k - 1] \cup Consumers(g, h[k - 1])
                                      ELSE h[d]]
    <2>6. Steps(more, k)
      <3> SUFFICES ASSUME NEW d \in 0..k
                   PROVE  more[d] = IF d = 0 THEN {n}
                                    ELSE more[d - 1] \cup Consumers(g, more[d - 1])
        OBVIOUS
      <3>1. CASE d = 0
        BY <2>2, <2>3, <2>5, <3>1
      <3>2. CASE d = k
        BY <2>2, <2>3, <3>2
      <3>3. CASE d # 0 /\ d # k
        <4>1. d \in 0..(k - 1) /\ d - 1 \in 0..(k - 1) /\ d - 1 # k
          BY <2>2, <3>3
        <4>2. h[d] = h[d - 1] \cup Consumers(g, h[d - 1])
          BY <2>5, <3>3, <4>1
        <4>3. more[d] = h[d] /\ more[d - 1] = h[d - 1]
          BY <3>3, <4>1
        <4> QED
          BY <3>3, <4>2, <4>3
      <3> QED
        BY <3>1, <3>2, <3>3
    <2> QED
      BY <2>2, <2>6
  <1>2. Steps(step, MaxDepth)
    BY <1>1
  <1> DEFINE Found == {n} \cup DOMAIN g
             Wild == {d \in 0..MaxDepth : ~(step[d] \subseteq Found)}
  <1>3. Wild = {}
    <2> SUFFICES ASSUME Wild # {} PROVE FALSE
      OBVIOUS
    <2>1. PICK d \in Wild : \A e \in Wild : d <= e
      <3>1. Wild \subseteq Nat
        OBVIOUS
      <3> HIDE DEF Wild
      <3> QED
        BY <3>1, SmallestOf
    <2>2. CASE d = 0
      BY <1>2, <2>2
    <2>3. CASE d # 0
      <3>1. d - 1 \in 0..MaxDepth /\ d - 1 \notin Wild
        BY <2>1, <2>3
      <3>2. step[d] = step[d - 1] \cup Consumers(g, step[d - 1])
        BY <1>2, <2>3
      <3> QED
        BY <3>1, <3>2 DEF Consumers
    <2> QED
      BY <2>2, <2>3
  <1>4. step[MaxDepth] \subseteq Found
    BY <1>3
  <1>5. ReachedWithin(g, n) = step[MaxDepth]
    BY DEF ReachedWithin
  <1>6. IsFiniteSet(Found)
    BY FS_AddElement
  <1> QED
    BY <1>4, <1>5, <1>6, FS_Subset, FS_CardinalityType DEF Reach

---------------------------------------------------------------------------
(* Configurations and calibrations *)

\* None stands beside records, and is none: it has no field.
NoneHasNoFields == DOMAIN None = {}

LEMMA KindKnown ==
    ASSUME NEW c \in Configs, NEW f \in Files, NEW lay \in BOOLEAN
    PROVE  KindIn(c, lay, f) \in FileKinds /\ KindIn(c, lay, f) # None
  <1>1. c.kinds \in [Files -> FileKinds \cup {None}]
    BY GovernanceAssumption DEF ConfigOK
  <1>2. None \notin FileKinds
    BY GovernanceAssumption
  <1>3. DefaultKind[f] \in FileKinds /\ DerivedKind[f] \in FileKinds \cup {None}
    BY GovernanceAssumption
  <1> QED
    BY <1>1, <1>2, <1>3 DEF KindIn

\* A population of production files with numbers has a P95.
LEMMA ProfileNumber ==
    ASSUME NEW p, ProfileOK(p)
    PROVE  ProfileP95(p) \in Int
  <1> DEFINE pop == [f \in DOMAIN p.population |-> p.population[f].branch]
  <1>1. IsFiniteSet(DOMAIN pop)
    BY GovernanceAssumption, FS_Subset DEF ProfileOK
  <1>2. \A f \in DOMAIN pop : pop[f] \in Nat
    BY DEF ProfileOK
  <1> HIDE DEF pop
  <1>3. P95(pop) \in Int
    BY <1>1, <1>2, P95Number
  <1> QED
    BY <1>3 DEF ProfileP95, pop

LEMMA ProfileExists ==
    ASSUME NoneHasNoFields, NEW p, ProfileOK(p)
    PROVE  p # None
  <1>1. "scope" \in DOMAIN p
    BY DEF ProfileOK, Profile
  <1> QED
    BY <1>1 DEF NoneHasNoFields

LEMMA CalibrationExists ==
    ASSUME NoneHasNoFields, NEW state, CalibrationOK(state)
    PROVE  state # None
  <1>1. "gate" \in DOMAIN state
    BY DEF CalibrationOK
  <1> QED
    BY <1>1 DEF NoneHasNoFields

\* Whatever is observed, a calibration keeps its form.
LEMMA CalibrationStep ==
    ASSUME NEW observed, ProfileOK(observed), NEW before, NEW seal \in BOOLEAN,
           before = None \/ CalibrationOK(before)
    PROVE  CalibrationOK(NextCalibration(observed, before, seal))
  <1> DEFINE seen == Observe(observed, before)
  <1>1. seen = [current |-> seen.current, previous |-> seen.previous, gate |-> seen.gate]
    BY DEF Observe, CalibrationOK
  <1>2. ProfileOK(seen.current) /\ (seen.gate = None \/ ProfileOK(seen.gate))
    BY DEF Observe, CalibrationOK
  <1>3. before # None => ProfileOK(before.current)
    BY DEF CalibrationOK
  <1> DEFINE g == IF seal THEN observed
                  ELSE IF seen.gate # None THEN seen.gate
                  ELSE IF before = None THEN observed ELSE before.current
             r == [current |-> seen.current, previous |-> seen.previous, gate |-> g]
  <1>4. ProfileOK(g)
    BY <1>2, <1>3
  <1> HIDE DEF seen
  <1>5. NextCalibration(observed, before, seal) = r
    BY <1>1 DEF NextCalibration, seen
  <1>6. r.current = seen.current /\ r.previous = seen.previous /\ r.gate = g
    OBVIOUS
  <1>7. CalibrationOK(r)
    BY <1>2, <1>4, <1>6 DEF CalibrationOK
  <1> QED
    BY <1>5, <1>7

\* Only a seal moves the profile that the gate goes by.
LEMMA GateKept ==
    ASSUME NoneHasNoFields, NEW observed, NEW before, CalibrationOK(before)
    PROVE  GateProfile(NextCalibration(observed, before, FALSE)) = GateProfile(before)
  <1> DEFINE seen == Observe(observed, before)
             next == NextCalibration(observed, before, FALSE)
  <1>1. before # None /\ before.current # None
    BY CalibrationExists, ProfileExists DEF CalibrationOK
  <1>2. seen.gate = before.gate
    BY <1>1 DEF Observe
  <1>3. seen = [current |-> seen.current, previous |-> seen.previous, gate |-> seen.gate]
    BY DEF Observe, CalibrationOK
  <1> HIDE DEF seen
  <1>4. next.gate = IF before.gate # None THEN before.gate ELSE before.current
    BY <1>1, <1>2, <1>3 DEF NextCalibration, seen
  <1>5. next # None
    <2>1. "gate" \in DOMAIN next
      BY <1>1, <1>3 DEF NextCalibration, seen
    <2> QED
      BY <2>1 DEF NoneHasNoFields
  <1> QED
    BY <1>1, <1>4, <1>5 DEF GateProfile

---------------------------------------------------------------------------
(* What a scan publishes *)

LEMMA PreviousTyped ==
    ASSUME Types
    PROVE  /\ DOMAIN PreviousEntries \subseteq Files
           /\ \A f \in DOMAIN PreviousEntries :
                /\ PreviousEntries[f] \in Entry
                /\ PreviousEntries[f].kind = None => PreviousEntries[f].hash = None
                /\ PreviousEntries[f].lang \in {None, LangOf[f]}
           /\ index = None => DOMAIN PreviousEntries = {}
  <1>1. CASE index = None
    BY <1>1 DEF PreviousEntries
  <1>2. CASE index # None
    BY <1>2 DEF PreviousEntries, Types, IndexOK
  <1> QED
    BY <1>1, <1>2

\* A number is told of each file that was parsed.
LEMMA ParsedTyped ==
    ASSUME Types, ScanTyped, scan # None, scan.step = "parsed",
           NEW f \in DOMAIN scan.parsed
    PROVE  /\ ParsedEntry(f) \in Entry
           /\ ParsedEntry(f).kind # None
           /\ ParsedEntry(f).lang = LangOf[f]
  <1>1. f \in Files /\ scan.parsed[f] \in Contents /\ DOMAIN scan.parsed \subseteq Files
    BY DEF ScanTyped
  <1>2. Kind(f) \in FileKinds /\ Kind(f) # None
    BY <1>1, KindKnown DEF Kind, ScanTyped, Types
  <1>3. scan.parsed[f].branch \in Nat /\ scan.parsed[f].imports \in SUBSET Files
    BY <1>1, GovernanceAssumption
  <1>4. LangOf[f] \in Langs /\ tree[f] \in Contents \cup {None}
    BY <1>1, GovernanceAssumption DEF Types
  <1>5. DOMAIN ScanGraph \subseteq Files
    <2>1. scan.reused \subseteq Files
      BY PreviousTyped DEF ScanTyped
    <2> QED
      BY <1>1, <2>1 DEF ScanGraph, BuildGraph, BuildGraphFromEdges, WithImplicit, ParsedProduction
  <1>6. Reach(ScanGraph, f) \in Nat
    <2>1. IsFiniteSet(DOMAIN ScanGraph) /\ MaxDepth \in Nat
      BY <1>5, FS_Subset, GovernanceAssumption
    <2> QED
      BY <2>1, ReachNumber
  <1>7. InDegree(ScanGraph, f) \in Nat
    <2>1. {m \in DOMAIN ScanGraph : f \in ScanGraph[m]} \subseteq Files
      BY <1>5
    <2> QED
      BY <2>1, FS_Subset, FS_CardinalityType, GovernanceAssumption DEF InDegree
  <1>8. ProductionCount \in Nat
    <2>1. ParsedProduction \subseteq Files
      BY <1>1 DEF ParsedProduction
    <2>2. {g \in scan.reused : Production(PreviousEntries[g].kind)} \subseteq Files
      BY PreviousTyped DEF ScanTyped
    <2> QED
      BY <2>1, <2>2, FS_Subset, FS_CardinalityType, GovernanceAssumption DEF ProductionCount
  <1>9. Has(f) => PreviousEntries[f].branch \in Nat \cup {None}
    BY PreviousTyped DEF Has, Entry
  <1> QED
    BY <1>2, <1>3, <1>4, <1>6, <1>7, <1>8, <1>9 DEF ParsedEntry, Entry

LEMMA EntriesTyped ==
    ASSUME Types, ScanTyped, scan # None, scan.step = "parsed"
    PROVE  /\ DOMAIN NewEntries \subseteq Files
           /\ NewEntries \in [DOMAIN NewEntries -> Entry]
           /\ \A f \in DOMAIN NewEntries :
                /\ NewEntries[f].kind = None => NewEntries[f].hash = None
                /\ NewEntries[f].lang \in {None, LangOf[f]}
  <1>1. DOMAIN NewEntries = scan.reused \cup DOMAIN scan.parsed
    BY DEF NewEntries
  <1>2. scan.reused \subseteq DOMAIN PreviousEntries /\ DOMAIN scan.parsed \subseteq Files
    BY DEF ScanTyped
  <1>3. \A f \in DOMAIN NewEntries :
          NewEntries[f] = IF f \in DOMAIN scan.parsed THEN ParsedEntry(f) ELSE PreviousEntries[f]
    BY DEF NewEntries
  <1>4. NewEntries = [f \in DOMAIN NewEntries |-> NewEntries[f]]
    BY DEF NewEntries
  <1> QED
    BY <1>1, <1>2, <1>3, <1>4, PreviousTyped, ParsedTyped

LEMMA PopulationTyped ==
    ASSUME NEW E, DOMAIN E \subseteq Files, E \in [DOMAIN E -> Entry],
           NEW S \in SUBSET DOMAIN E, NEW scope, NEW weight
    PROVE  ProfileOK(Profile(scope, weight, PopulationOf(E, S)))
  <1> DEFINE pop == PopulationOf(E, S)
             p == Profile(scope, weight, pop)
  <1>1. DOMAIN pop \subseteq S
    BY DEF PopulationOf
  <1>2. ASSUME NEW f \in DOMAIN pop PROVE pop[f].branch \in Nat
    <2>1. E[f].branch \in Nat \cup {None}
      BY <1>1, <1>2 DEF Entry
    <2>2. pop[f].branch = IF E[f].branch = None THEN 0 ELSE E[f].branch
      BY <1>2 DEF PopulationOf
    <2> QED
      BY <2>1, <2>2
  <1> HIDE DEF pop
  <1>3. p.scope = scope /\ p.weight = weight /\ p.population = pop
    BY DEF Profile
  <1>4. p = Profile(p.scope, p.weight, p.population)
    BY <1>3
  <1> HIDE DEF p
  <1>5. ProfileOK(p)
    BY <1>1, <1>2, <1>3, <1>4 DEF ProfileOK
  <1> QED
    BY <1>5 DEF p, pop

\* Every policy that has files has an epoch, and nobody else.
LEMMA PolicyTyped ==
    ASSUME Types, ScanTyped, scan # None, scan.step = "parsed", NEW scope
    PROVE  LET E == NewEntries
               cals == PolicyCalibrations(E, scope)
           IN  /\ DOMAIN cals = {p.id : p \in {q \in PoliciesOf(scan.config) :
                                              DOMAIN PolicyPopulation(E, q) # {}}}
               /\ DOMAIN cals \subseteq Ids
               /\ \A i \in DOMAIN cals : CalibrationOK(cals[i])
               /\ \A i \in DOMAIN cals :
                    index # None /\ i \in DOMAIN index.policyCalibrations /\ ~scan.seal =>
                      \E observed : cals[i] =
                        NextCalibration(observed, index.policyCalibrations[i], FALSE)
  <1> DEFINE E == NewEntries
             cals == PolicyCalibrations(E, scope)
             live == {q \in PoliciesOf(scan.config) : DOMAIN PolicyPopulation(E, q) # {}}
             before(p) == IF index = None THEN None
                          ELSE IF p.id \in DOMAIN index.policyCalibrations
                               THEN index.policyCalibrations[p.id] ELSE None
             observed(p, i) == Profile(<<scope, i>>, p.weight, PolicyPopulation(E, p))
  <1>1. DOMAIN cals = {p.id : p \in live}
    BY DEF PolicyCalibrations
  <1>2. scan.config \in Configs
    BY DEF ScanTyped
  <1>3. DOMAIN cals \subseteq Ids
    <2> SUFFICES ASSUME NEW p \in PoliciesOf(scan.config) PROVE p.id \in Ids
      BY <1>1
    <2> QED
      BY <1>2 DEF Ids
  <1>4. ASSUME NEW i \in DOMAIN cals
        PROVE  \E p \in live : /\ p.id = i
                              /\ cals[i] = NextCalibration(observed(p, i), before(p), scan.seal)
    <2> DEFINE p == CHOOSE q \in live : q.id = i
    <2>1. \E q \in live : q.id = i
      BY <1>1, <1>4
    <2>2. p \in live /\ p.id = i
      BY <2>1
    <2>3. cals[i] = NextCalibration(observed(p, i), before(p), scan.seal)
      BY <1>4, <1>1 DEF PolicyCalibrations
    <2> HIDE DEF p
    <2> QED
      BY <2>2, <2>3
  <1>5. ASSUME NEW i \in DOMAIN cals PROVE CalibrationOK(cals[i])
    <2>1. PICK p \in live : /\ p.id = i
                            /\ cals[i] = NextCalibration(observed(p, i), before(p), scan.seal)
      BY <1>4
    <2>2. ProfileOK(observed(p, i))
      <3>1. {f \in DOMAIN E : Matches(p, f, E[f].lang)} \in SUBSET DOMAIN E
        OBVIOUS
      <3>2. DOMAIN E \subseteq Files /\ E \in [DOMAIN E -> Entry]
        BY EntriesTyped
      <3> HIDE DEF E
      <3> QED
        BY <3>1, <3>2, PopulationTyped DEF PolicyPopulation
    <2>3. before(p) = None \/ CalibrationOK(before(p))
      BY DEF Types, IndexOK
    <2>4. scan.seal \in BOOLEAN
      BY DEF ScanTyped
    <2> HIDE DEF observed, before, cals, live
    <2> QED
      BY <2>1, <2>2, <2>3, <2>4, CalibrationStep
  <1>6. ASSUME NEW i \in DOMAIN cals,
               index # None, i \in DOMAIN index.policyCalibrations, ~scan.seal
        PROVE  \E o : cals[i] = NextCalibration(o, index.policyCalibrations[i], FALSE)
    <2>1. PICK p \in live : /\ p.id = i
                            /\ cals[i] = NextCalibration(observed(p, i), before(p), scan.seal)
      BY <1>4, <1>6
    <2>2. before(p) = index.policyCalibrations[i]
      BY <1>6, <2>1
    <2>3. scan.seal = FALSE
      BY <1>6 DEF ScanTyped
    <2> HIDE DEF observed, before, cals, live
    <2> QED
      BY <2>1, <2>2, <2>3
  <1> HIDE DEF cals
  <1> QED
    BY <1>1, <1>3, <1>5, <1>6 DEF cals

LEMMA PublishTyped ==
    ASSUME Types, ScanTyped, scan # None, scan.step = "parsed"
    PROVE  IndexOK(NewIndex(NewEntries)) /\ CalibrationOK(NewIndex(NewEntries).calibration)
  <1> DEFINE E == NewEntries
             scope == ScanScope(scan.config, layout)
             observed == Profile(scope, WeightOf(scan.config), PopulationOf(E, DOMAIN E))
             before == IF index = None THEN None ELSE index.calibration
             cals == PolicyCalibrations(E, scope)
             new == NewIndex(E)
  <1>1. /\ new.entries = E /\ new.p95 = ProfileP95(observed)
        /\ new.calibration = NextCalibration(observed, before, scan.seal)
        /\ new.policyCalibrations = cals
    BY DEF NewIndex
  <1>2. /\ DOMAIN E \subseteq Files /\ E \in [DOMAIN E -> Entry]
        /\ \A f \in DOMAIN E : /\ E[f].kind = None => E[f].hash = None
                               /\ E[f].lang \in {None, LangOf[f]}
    BY EntriesTyped
  <1>3. DOMAIN cals \subseteq Ids /\ \A i \in DOMAIN cals : CalibrationOK(cals[i])
    BY PolicyTyped
  <1>4. before = None \/ CalibrationOK(before)
    BY DEF Types, IndexOK
  <1>5. scan.seal \in BOOLEAN
    BY DEF ScanTyped
  <1> HIDE DEF E, cals, before
  <1>6. ProfileOK(observed)
    BY <1>2, PopulationTyped
  <1> HIDE DEF observed
  <1>7. ProfileP95(observed) \in Int
    BY <1>6, ProfileNumber
  <1>8. CalibrationOK(NextCalibration(observed, before, scan.seal))
    BY <1>4, <1>5, <1>6, CalibrationStep
  <1> HIDE DEF new
  <1>9. IndexOK(new) /\ CalibrationOK(new.calibration)
    BY <1>1, <1>2, <1>3, <1>7, <1>8 DEF IndexOK
  <1> QED
    BY <1>9 DEF new, E

---------------------------------------------------------------------------
(* Every step keeps the types *)

LEMMA InitExact == Init => IInv
  <1> SUFFICES ASSUME Init PROVE IInv
    OBVIOUS
  <1>1. scan = None /\ rebuilt = FALSE /\ edits = 0 /\ scans = 0
    BY DEF Init
  <1>2. layout \in BOOLEAN /\ tree \in [Files -> Contents \cup {None}] /\ config \in Configs
    BY GovernanceAssumption DEF Init
  <1>3. index # None => IndexOK(index)
    <2> SUFFICES ASSUME index # None PROVE IndexOK(index)
      OBVIOUS
    <2>1. index \in Legacy
      BY DEF Init
    <2>2. \A idx \in Legacy : IndexOK(idx)
      BY GovernanceAssumption
    <2> QED
      BY <2>1, <2>2
  <1>4. MaxEdits \in Nat /\ MaxScans \in Nat
    BY GovernanceAssumption
  <1>5. Types
    <2>1. edits \in 0..MaxEdits /\ scans \in 0..MaxScans
      BY <1>1, <1>4
    <2>2. rebuilt \in BOOLEAN
      BY <1>1
    <2> QED
      BY <1>2, <1>3, <2>1, <2>2, Zenon DEF Types
  <1>6. ScanTyped /\ QuietScan
    BY <1>1 DEF ScanTyped, QuietScan
  <1>7. RebuiltExact
    BY <1>1 DEF RebuiltExact
  <1> QED
    BY <1>5, <1>6, <1>7 DEF IInv

\* The snapshot of some files that are there holds contents.
LEMMA SnapshotTyped ==
    ASSUME Types, NEW S, S \subseteq Present
    PROVE  /\ DOMAIN SnapshotOf(S) = S /\ S \subseteq Files
           /\ \A f \in S : SnapshotOf(S)[f] = tree[f] /\ tree[f] \in Contents
  BY DEF Types, Present, SnapshotOf

LEMMA StepTyped == Types /\ ScanTyped /\ [Next]_vars => Types'
  <1> SUFFICES ASSUME Types, ScanTyped, [Next]_vars PROVE Types'
    OBVIOUS
  <1>n. MaxEdits \in Nat /\ MaxScans \in Nat
    BY GovernanceAssumption
  <1>k. index' = index => (index # None => IndexOK(index))'
    BY DEF Types
  <1>1. ASSUME NEW f \in Files, EditFile(f) PROVE Types'
    <2>1. tree' \in [Files -> Contents \cup {None}]
      BY <1>1 DEF Types, EditFile
    <2> QED
      BY <1>1, <1>n, <1>k, <2>1 DEF Types, EditFile, Edited
  <1>2. CASE EditConfig
    BY <1>2, <1>n, <1>k DEF Types, EditConfig, Edited
  <1>3. ASSUME NEW partial, NEW rebuild, NEW seal, ScanBegin(partial, rebuild, seal)
        PROVE  Types'
    <2>1. /\ scans < MaxScans /\ scans' = scans + 1
          /\ UNCHANGED <<layout, tree, config, index, rebuilt, edits>>
      BY <1>3 DEF ScanBegin
    <2> QED
      BY <2>1, <1>n, <1>k DEF Types
  <1>4. CASE scan # None /\ Ends
    BY <1>4, <1>k DEF Types, Ends
  <1>5. CASE ScanParse
    BY <1>5, <1>k DEF Types, ScanParse
  <1>6. CASE ScanPublish
    <2>1. IndexOK(NewIndex(NewEntries))
      BY <1>6, PublishTyped DEF ScanPublish
    <2>2. IndexOK(index)'
      BY <1>6, <2>1 DEF ScanPublish
    <2>3. rebuilt' \in BOOLEAN
      BY <1>6 DEF ScanPublish, ScanTyped
    <2> QED
      BY <1>6, <2>2, <2>3 DEF Types, ScanPublish
  <1>7. CASE UNCHANGED vars
    BY <1>7, <1>k DEF Types, vars
  <1> QED
    BY <1>1, <1>2, <1>3, <1>4, <1>5, <1>6, <1>7
    DEF Next, ScanFails, ScanUnchanged, ScanAmbiguous

LEMMA StepScanTyped == Types /\ ScanTyped /\ [Next]_vars => ScanTyped'
  <1> SUFFICES ASSUME Types, ScanTyped, [Next]_vars PROVE ScanTyped'
    OBVIOUS
  <1>k. index' = index => PreviousEntries' = PreviousEntries
    BY DEF PreviousEntries
  <1>1. CASE Edited
    <2>1. CASE scan = None
      BY <1>1, <2>1 DEF Edited, ScanTyped
    <2>2. CASE scan # None
      <3>1. scan' = [scan EXCEPT !.quiet = FALSE] /\ index' = index
        BY <1>1, <2>2 DEF Edited
      <3>2. /\ DOMAIN scan' = DOMAIN scan
            /\ \A x \in DOMAIN scan : scan'[x] = IF x = "quiet" THEN FALSE ELSE scan[x]
        BY <3>1
      <3>3. ScanFields \subseteq DOMAIN scan
        BY <2>2 DEF ScanTyped
      <3>4. /\ scan'.step = scan.step /\ scan'.paths = scan.paths /\ scan'.seal = scan.seal
            /\ scan'.complete = scan.complete /\ scan'.incremental = scan.incremental
            /\ scan'.config = scan.config /\ scan'.parsed = scan.parsed
            /\ scan'.reused = scan.reused /\ scan'.quiet = FALSE
        BY <3>2, <3>3 DEF ScanFields
      <3> QED
        BY <1>k, <2>2, <3>1, <3>2, <3>3, <3>4 DEF ScanTyped
    <2> QED
      BY <2>1, <2>2
  <1>2. ASSUME NEW partial, NEW rebuild \in BOOLEAN, NEW seal \in BOOLEAN,
               ScanBegin(partial, rebuild, seal)
        PROVE  ScanTyped'
    <2>1. scan'.paths \subseteq Files
      BY <1>2 DEF ScanBegin, SourceFiles, Present
    <2>2. /\ ScanFields \subseteq DOMAIN scan' /\ scan'.step = "begun"
          /\ scan'.complete = (partial = None) /\ scan'.seal = seal /\ scan'.quiet = TRUE
          /\ scan'.incremental = (partial = None /\ ~rebuild /\ ~ConfigChanged)
          /\ scan'.config = config
      BY <1>2 DEF ScanBegin, ScanFields
    <2> QED
      BY <2>1, <2>2 DEF ScanTyped, Types
  <1>3. CASE Ends
    BY <1>3 DEF Ends, ScanTyped
  <1>4. CASE ScanParse
    <2> DEFINE reused == IF IncrementalHere THEN DOMAIN PreviousEntries \ (ToParse \cup Deleted)
                         ELSE {}
    <2>1. ScanFields \subseteq DOMAIN scan /\ scan # None
      BY <1>4 DEF ScanParse, ScanTyped
    <2>2. /\ DOMAIN scan' = DOMAIN scan /\ scan'.step = "parsed"
          /\ scan'.parsed = SnapshotOf(Parsing) /\ scan'.incremental = IncrementalHere
          /\ scan'.reused = reused /\ scan'.paths = scan.paths
          /\ scan'.seal = scan.seal /\ scan'.complete = scan.complete
          /\ scan'.config = scan.config /\ scan'.quiet = scan.quiet
      BY <1>4, <2>1 DEF ScanParse, ScanFields
    <2>3. IncrementalHere \in BOOLEAN /\ (IncrementalHere => scan.complete)
      BY <2>1 DEF IncrementalHere, ScanTyped
    <2>4. Parsing \subseteq Present /\ index' = index
      BY <1>4 DEF ScanParse
    <2>5. /\ DOMAIN scan'.parsed \subseteq Files
          /\ \A f \in DOMAIN scan'.parsed : scan'.parsed[f] \in Contents
      BY <2>2, <2>4, SnapshotTyped
    <2>6. scan'.reused \subseteq DOMAIN PreviousEntries
      BY <2>2
    <2> QED
      BY <1>k, <2>1, <2>2, <2>3, <2>4, <2>5, <2>6 DEF ScanTyped
  <1>5. CASE ScanPublish
    BY <1>5 DEF ScanPublish, ScanTyped
  <1>6. CASE UNCHANGED vars
    BY <1>6, <1>k DEF ScanTyped, vars
  <1> QED
    BY <1>1, <1>2, <1>3, <1>4, <1>5, <1>6
    DEF Next, EditFile, EditConfig, ScanFails, ScanUnchanged, ScanAmbiguous

---------------------------------------------------------------------------
(* A quiet scan *)

\* What a scan is to parse, reuse and delete is read off the tree, the
\* index and its list of files.
LEMMA SameTask ==
    ASSUME tree' = tree, index' = index, scan'.paths = scan.paths
    PROVE  /\ PreviousEntries' = PreviousEntries /\ Present' = Present
           /\ ToParse' = ToParse /\ Deleted' = Deleted
           /\ \A S : SnapshotOf(S)' = SnapshotOf(S)
  BY DEF PreviousEntries, Present, ToParse, Deleted, Changed, Has, SnapshotOf

LEMMA StepQuiet == Types /\ ScanTyped /\ QuietScan /\ [Next]_vars => QuietScan'
  <1> SUFFICES ASSUME Types, ScanTyped, QuietScan, [Next]_vars PROVE QuietScan'
    OBVIOUS
  <1>1. CASE Edited
    <2>1. scan' # None => scan # None /\ scan' = [scan EXCEPT !.quiet = FALSE]
      BY <1>1 DEF Edited
    <2>2. scan' # None => ~scan'.quiet
      BY <2>1 DEF ScanTyped, ScanFields
    <2> QED
      BY <2>2 DEF QuietScan
  <1>2. ASSUME NEW partial, NEW rebuild \in BOOLEAN, NEW seal \in BOOLEAN,
               ScanBegin(partial, rebuild, seal)
        PROVE  QuietScan'
    <2> DEFINE paths == IF partial = None THEN SourceFiles(config)
                        ELSE partial \cap SourceFiles(config)
    <2>1. /\ scan'.step = "begun" /\ scan'.paths = paths /\ scan'.config = config
          /\ scan'.complete = (partial = None)
          /\ scan'.source = (IF partial = None THEN SnapshotOf(paths) ELSE None)
          /\ scan'.incremental = (partial = None /\ ~rebuild /\ ~ConfigChanged)
      BY <1>2 DEF ScanBegin
    <2>2. /\ config' = config /\ tree' = tree /\ index' = index
          /\ SourceFiles(config)' = SourceFiles(config) /\ ConfigChanged' = ConfigChanged
          /\ \A S : SnapshotOf(S)' = SnapshotOf(S)
      BY <1>2 DEF ScanBegin, SourceFiles, Present, ConfigChanged, SnapshotOf
    <2>3. SnapshotOf(SourceFiles(config))' = SnapshotOf(SourceFiles(config))
      BY <2>2 DEF SnapshotOf
    <2>4. scan'.paths \subseteq SourceFiles(config)
      BY <2>1
    <2>5. scan'.complete => /\ scan'.paths = SourceFiles(config)
                            /\ scan'.source = SnapshotOf(SourceFiles(config))
      BY <2>1
    <2>6. scan'.incremental => ~ConfigChanged
      BY <2>1
    <2> QED
      BY <2>1, <2>2, <2>3, <2>4, <2>5, <2>6 DEF QuietScan
  <1>3. CASE Ends
    BY <1>3 DEF Ends, QuietScan
  <1>4. CASE ScanParse
    <2> SUFFICES ASSUME scan'.quiet PROVE QuietScan'
      BY DEF QuietScan
    <2> DEFINE reused == IF IncrementalHere THEN DOMAIN PreviousEntries \ (ToParse \cup Deleted)
                         ELSE {}
    <2>1. ScanFields \subseteq DOMAIN scan /\ scan # None
      BY <1>4 DEF ScanParse, ScanTyped
    <2>2. /\ scan'.step = "parsed" /\ scan'.parsed = SnapshotOf(Parsing)
          /\ scan'.incremental = IncrementalHere /\ scan'.shapes = config.shapes
          /\ scan'.reused = reused /\ scan'.paths = scan.paths
          /\ scan'.complete = scan.complete /\ scan'.source = scan.source
          /\ scan'.config = scan.config /\ scan'.quiet = scan.quiet
      BY <1>4, <2>1 DEF ScanParse, ScanFields
    <2>3. config' = config /\ tree' = tree /\ index' = index /\ Parsing \subseteq Present
      BY <1>4 DEF ScanParse
    <2>4. /\ scan.config = config /\ scan.paths \subseteq SourceFiles(config)
          /\ scan.complete => /\ scan.paths = SourceFiles(config)
                              /\ scan.source = SnapshotOf(SourceFiles(config))
          /\ scan.incremental => ~ConfigChanged
      BY <2>1, <2>2 DEF QuietScan
    <2>5. /\ SourceFiles(config)' = SourceFiles(config) /\ ConfigChanged' = ConfigChanged
          /\ SnapshotOf(SourceFiles(config))' = SnapshotOf(SourceFiles(config))
      BY <2>3 DEF SourceFiles, Present, ConfigChanged, SnapshotOf
    <2>6. /\ PreviousEntries' = PreviousEntries /\ Present' = Present
          /\ ToParse' = ToParse /\ Deleted' = Deleted
      BY <2>2, <2>3, SameTask
    <2>7. /\ SnapshotOf(scan.paths)' = SnapshotOf(scan'.paths)
          /\ SnapshotOf(ToParse)' = SnapshotOf(ToParse)
      BY <2>2, <2>3, <2>6 DEF SnapshotOf
    <2>8. CASE IncrementalHere
      <3>1. scan.incremental /\ Parsing = ToParse
        BY <2>8 DEF IncrementalHere, Parsing
      <3> QED
        BY <2>2, <2>3, <2>4, <2>5, <2>6, <2>7, <2>8, <3>1 DEF QuietScan
    <2>9. CASE ~IncrementalHere
      <3>1. Parsing = scan.paths
        BY <2>9 DEF Parsing
      <3> QED
        BY <2>2, <2>3, <2>4, <2>5, <2>6, <2>7, <2>9, <3>1 DEF QuietScan
    <2> QED
      BY <2>8, <2>9
  <1>5. CASE ScanPublish
    BY <1>5 DEF ScanPublish, QuietScan
  <1>6. CASE UNCHANGED vars
    <2>1. /\ scan' = scan /\ config' = config /\ tree' = tree /\ index' = index
          /\ SourceFiles(config)' = SourceFiles(config) /\ ConfigChanged' = ConfigChanged
          /\ SnapshotOf(SourceFiles(config))' = SnapshotOf(SourceFiles(config))
      BY <1>6 DEF vars, SourceFiles, Present, ConfigChanged, SnapshotOf
    <2>2. /\ PreviousEntries' = PreviousEntries /\ Present' = Present
          /\ ToParse' = ToParse /\ Deleted' = Deleted
      BY <2>1, SameTask
    <2>3. /\ SnapshotOf(scan.paths)' = SnapshotOf(scan.paths)
          /\ SnapshotOf(ToParse)' = SnapshotOf(ToParse)
      BY <2>1, <2>2 DEF SnapshotOf
    <2> QED
      BY <2>1, <2>2, <2>3 DEF QuietScan
  <1> QED
    BY <1>1, <1>2, <1>3, <1>4, <1>5, <1>6
    DEF Next, EditFile, EditConfig, ScanFails, ScanUnchanged, ScanAmbiguous

---------------------------------------------------------------------------
(* What a quiet scan publishes is exact *)

\* The entries a scan is about to write are those of the tree as it is.
EntriesNow ==
    /\ DOMAIN NewEntries = SourceFiles(config)
    /\ \A f \in SourceFiles(config) :
         /\ NewEntries[f].kind = KindIn(config, layout, f)
         /\ NewEntries[f].lang = LangOf[f]
         /\ NewEntries[f].branch = tree[f].branch
         /\ NewEntries[f].imports = tree[f].imports
         /\ NewEntries[f].hash = tree[f]

\* A file that was parsed while nobody edited.
LEMMA ParsedNow ==
    ASSUME scan.config = config, NEW S, scan.parsed = SnapshotOf(S), NEW f \in S
    PROVE  /\ NewEntries[f] = ParsedEntry(f)
           /\ ParsedEntry(f).kind = KindIn(config, layout, f)
           /\ ParsedEntry(f).lang = LangOf[f]
           /\ ParsedEntry(f).branch = tree[f].branch
           /\ ParsedEntry(f).imports = tree[f].imports
           /\ ParsedEntry(f).hash = tree[f]
  <1>1. DOMAIN scan.parsed = S /\ scan.parsed[f] = tree[f]
    BY DEF SnapshotOf
  <1>2. NewEntries[f] = ParsedEntry(f)
    BY <1>1 DEF NewEntries
  <1>3. /\ ParsedEntry(f).kind = Kind(f) /\ ParsedEntry(f).lang = LangOf[f]
        /\ ParsedEntry(f).branch = scan.parsed[f].branch
        /\ ParsedEntry(f).imports = scan.parsed[f].imports
        /\ ParsedEntry(f).hash = tree[f]
    BY DEF ParsedEntry
  <1> QED
    BY <1>1, <1>2, <1>3 DEF Kind

LEMMA FullNow ==
    ASSUME Types, ScanTyped, QuietScan, scan # None, scan.step = "parsed", scan.quiet,
           scan.complete, ~scan.incremental
    PROVE  EntriesNow
  <1>1. /\ scan.config = config /\ scan.reused = {}
        /\ scan.parsed = SnapshotOf(SourceFiles(config))
    BY DEF QuietScan
  <1>2. DOMAIN NewEntries = SourceFiles(config)
    BY <1>1 DEF NewEntries, SnapshotOf
  <1> QED
    BY <1>1, <1>2, ParsedNow DEF EntriesNow

\* An incremental scan of an exact index parses every file that differs from
\* it, and what it reuses is as it was.
LEMMA IncrementalNow ==
    ASSUME Types, ScanTyped, QuietScan, scan # None, scan.step = "parsed", scan.quiet,
           scan.incremental,
           index # None, index.config # None, EntriesExact(index, layout)
    PROVE  EntriesNow
  <1> DEFINE now == SourceFiles(config)
             old == DOMAIN index.source
  <1>1. /\ scan.config = config /\ scan.paths = now
        /\ scan.parsed = SnapshotOf(ToParse) /\ ToParse \subseteq Present
        /\ scan.reused = DOMAIN PreviousEntries \ (ToParse \cup Deleted)
    BY DEF QuietScan, ScanTyped
  <1>2. index.config = config
    BY DEF QuietScan, ConfigChanged
  <1>3. PreviousEntries = index.entries /\ DOMAIN PreviousEntries = old
    BY DEF PreviousEntries, EntriesExact
  <1>4. \A f \in old :
          /\ InScope(config.langs, f)
          /\ index.source[f] \in Contents
          /\ PreviousEntries[f].kind = KindIn(config, layout, f)
          /\ PreviousEntries[f].lang = LangOf[f]
          /\ PreviousEntries[f].branch = index.source[f].branch
          /\ PreviousEntries[f].imports = index.source[f].imports
          /\ PreviousEntries[f].hash = index.source[f]
    BY <1>2, <1>3 DEF EntriesExact
  <1>5. now \subseteq Present /\ now \cap Present = now
    BY DEF SourceFiles
  <1>6. Changed = {f \in now : f \notin old \/ index.source[f] # tree[f]}
    BY <1>1, <1>3, <1>4, <1>5 DEF Changed, Has
  <1>7. Deleted = old \ now
    <2>1. \A f \in old : PreviousEntries[f].hash # None
      BY <1>4, GovernanceAssumption
    <2> QED
      BY <1>1, <1>3, <1>5, <2>1 DEF Deleted
  <1>8. Changed \subseteq ToParse /\ ToParse \subseteq Changed \cup old
    BY <1>3 DEF ToParse
  <1>9. ToParse \subseteq now
    <2> SUFFICES ASSUME NEW f \in ToParse, f \in old PROVE f \in now
      BY <1>6, <1>8
    <2>1. f \in Present /\ InScope(config.langs, f)
      BY <1>1, <1>4
    <2> QED
      BY <2>1 DEF SourceFiles
  <1>10. scan.reused \subseteq now /\ now \subseteq scan.reused \cup ToParse
    BY <1>1, <1>3, <1>6, <1>7, <1>8
  <1>11. DOMAIN NewEntries = now
    <2>1. DOMAIN scan.parsed = ToParse
      BY <1>1 DEF SnapshotOf
    <2> QED
      BY <1>9, <1>10, <2>1 DEF NewEntries
  <1>12. ASSUME NEW f \in now, f \notin ToParse
         PROVE  /\ NewEntries[f] = PreviousEntries[f]
                /\ f \in old /\ index.source[f] = tree[f]
    <2>1. f \in scan.reused /\ f \notin DOMAIN scan.parsed
      BY <1>1, <1>10, <1>12 DEF SnapshotOf
    <2>2. f \in old /\ index.source[f] = tree[f]
      BY <1>6, <1>8, <1>12
    <2> QED
      BY <2>1, <2>2 DEF NewEntries
  <1> HIDE DEF now, old
  <1>13. ASSUME NEW f \in now
         PROVE  /\ NewEntries[f].kind = KindIn(config, layout, f)
                /\ NewEntries[f].lang = LangOf[f]
                /\ NewEntries[f].branch = tree[f].branch
                /\ NewEntries[f].imports = tree[f].imports
                /\ NewEntries[f].hash = tree[f]
    <2>1. CASE f \in ToParse
      BY <1>1, <2>1, ParsedNow
    <2>2. CASE f \notin ToParse
      BY <1>4, <1>12, <2>2
    <2> QED
      BY <2>1, <2>2
  <1> QED
    BY <1>11, <1>13 DEF EntriesNow, now

LEMMA PublishExact ==
    ASSUME NoneHasNoFields, Types, ScanTyped, QuietScan,
           scan # None, scan.step = "parsed", scan.quiet, scan.complete,
           ~Ambiguous(NewEntries), EntriesNow
    PROVE  EntriesExact(NewIndex(NewEntries), layout) /\ MetaExact(NewIndex(NewEntries), layout)
  <1> DEFINE E == NewEntries
             new == NewIndex(E)
             now == SourceFiles(config)
             scope == ScanScope(config, layout)
             production == {f \in now : KindIn(config, layout, f) = "production"}
  <1>1. /\ scan.config = config /\ scan.shapes = config.shapes
        /\ scan.source = SnapshotOf(now)
    BY DEF QuietScan
  <1>2. /\ new.entries = E /\ new.source = SnapshotOf(now) /\ new.config = config
        /\ new.scope = scope /\ new.shapes = config.shapes
        /\ new.identity = TRUE /\ new.contract = Contract
        /\ new.policyCalibrations = PolicyCalibrations(E, scope)
        /\ new.p95 = ProfileP95(Profile(scope, WeightOf(config), PopulationOf(E, DOMAIN E)))
    BY <1>1 DEF NewIndex
  <1>3. /\ now \subseteq Present /\ \A f \in now : InScope(config.langs, f)
        /\ DOMAIN new.source = now
        /\ \A f \in now : new.source[f] = tree[f] /\ tree[f] \in Contents
    BY <1>2, SnapshotTyped DEF SourceFiles
  <1>4. /\ DOMAIN E = now
        /\ \A f \in now : /\ E[f].kind = KindIn(config, layout, f)
                           /\ E[f].lang = LangOf[f]
                           /\ E[f].branch = tree[f].branch
                           /\ E[f].imports = tree[f].imports
                           /\ E[f].hash = tree[f]
    BY DEF EntriesNow
  <1>5. config \in Configs /\ layout \in BOOLEAN /\ now \subseteq Files
    BY DEF Types, SourceFiles, Present
  <1>6. new.p95 = P95([f \in production |-> tree[f].branch])
    <2> DEFINE pop == PopulationOf(E, DOMAIN E)
    <2>1. \A f \in now : Production(E[f].kind) <=> KindIn(config, layout, f) = "production"
      BY <1>4, <1>5, KindKnown DEF Production
    <2>2. \A f \in now : tree[f].branch # None
      BY <1>3, GovernanceAssumption
    <2> HIDE DEF E, now
    <2>3. DOMAIN pop = production
      BY <1>4, <2>1 DEF PopulationOf
    <2>4. \A f \in production : pop[f].branch = tree[f].branch
      BY <1>4, <2>1, <2>2, <2>3 DEF PopulationOf
    <2> HIDE DEF pop, production
    <2>5. ProfileP95(Profile(scope, WeightOf(config), pop)) = P95([f \in production |-> tree[f].branch])
      BY <2>3, <2>4 DEF ProfileP95, Profile
    <2> QED
      BY <1>2, <2>5 DEF pop
  <1>7. CalibrationOK(new.calibration)
    BY PublishTyped
  <1>8. UnambiguousIn(config, E)
    BY <1>1 DEF Ambiguous, UnambiguousIn
  <1>9. \A p \in PoliciesOf(config) :
          DOMAIN PolicyPopulation(E, p) # {} => p.id \in DOMAIN new.policyCalibrations
    BY <1>1, <1>2, PolicyTyped
  <1> HIDE DEF E, new, now
  <1>10. EntriesExact(new, layout)
    <2>1. [f \in {g \in DOMAIN new.source : KindIn(new.config, layout, g) = "production"} |->
             new.source[f].branch]
            = [f \in production |-> tree[f].branch]
      BY <1>2, <1>3
    <2> HIDE DEF production
    <2> QED
      BY <1>2, <1>3, <1>4, <1>6, <2>1 DEF EntriesExact
  <1>11. MetaExact(new, layout)
    BY <1>2, <1>5, <1>7, <1>8, <1>9, CalibrationExists DEF MetaExact
  <1> QED
    BY <1>10, <1>11 DEF new, E

LEMMA StepExact ==
    NoneHasNoFields /\ IInv /\ [Next]_vars => RebuiltExact'
  <1> SUFFICES ASSUME NoneHasNoFields, IInv, [Next]_vars PROVE RebuiltExact'
    OBVIOUS
  <1>1. CASE UNCHANGED <<layout, index, rebuilt>>
    BY <1>1 DEF IInv, RebuiltExact
  <1>2. CASE ScanPublish
    <2> DEFINE new == NewIndex(NewEntries)
    <2> SUFFICES ASSUME rebuilt' PROVE RebuiltExact'
      BY DEF RebuiltExact
    <2>1. /\ scan # None /\ scan.step = "parsed" /\ ~Ambiguous(NewEntries)
          /\ index' = new /\ layout' = layout
          /\ scan.quiet /\ (scan.incremental => rebuilt /\ index.config # None)
      BY <1>2 DEF ScanPublish
    <2>2. new.complete = scan.complete /\ (new.config # None => new.complete)
      BY DEF NewIndex
    <2>3. new # None
      <3>1. "entries" \in DOMAIN new
        BY DEF NewIndex
      <3> QED
        BY <3>1 DEF NoneHasNoFields
    <2>4. ASSUME scan.complete PROVE EntriesExact(new, layout) /\ MetaExact(new, layout)
      <3>1. EntriesNow
        <4>1. CASE scan.incremental
          <5>1. index # None /\ index.config # None /\ EntriesExact(index, layout)
            BY <2>1, <4>1 DEF IInv, RebuiltExact
          <5> QED
            BY <2>1, <4>1, <5>1, IncrementalNow DEF IInv
        <4>2. CASE ~scan.incremental
          BY <2>1, <2>4, <4>2, FullNow DEF IInv
        <4> QED
          BY <4>1, <4>2
      <3> QED
        BY <2>1, <2>4, <3>1, PublishExact DEF IInv
    <2> HIDE DEF new
    <2>5. index' # None /\ (index'.config # None => index'.complete)
      BY <2>1, <2>2, <2>3
    <2>6. index'.complete => EntriesExact(index', layout') /\ MetaExact(index', layout')
      BY <2>1, <2>2, <2>4
    <2> QED
      BY <2>5, <2>6 DEF RebuiltExact
  <1> QED
    BY <1>1, <1>2
    DEF Next, EditFile, EditConfig, Edited, ScanBegin, ScanFails, ScanUnchanged, ScanParse,
        ScanAmbiguous, Ends, vars

LEMMA StepInv == NoneHasNoFields /\ IInv /\ [Next]_vars => IInv'
  BY StepTyped, StepScanTyped, StepQuiet, StepExact DEF IInv

LEMMA Invariance == NoneHasNoFields => (Spec => []IInv)
  <1> SUFFICES ASSUME NoneHasNoFields PROVE Spec => []IInv
    OBVIOUS
  <1>1. Init => IInv
    BY InitExact
  <1>2. IInv /\ [Next]_vars => IInv'
    BY StepInv
  <1> QED
    BY <1>1, <1>2, PTL DEF Spec

---------------------------------------------------------------------------
(* What status says *)

\* A fresh baseline was made of the files as they are, under a configuration
\* with the same languages and kinds.
LEMMA FreshFromExact == RebuiltExact => FreshMeansExact
  <1> SUFFICES ASSUME RebuiltExact, rebuilt, Freshness = "current" PROVE AsRescanned
    BY DEF FreshMeansExact
  <1> DEFINE now == SourceFiles(config)
  <1>1. /\ index # None /\ index.complete /\ index.scope = ScanScope(config, layout)
        /\ index.source = SnapshotOf(now)
    BY DEF Freshness
  <1>2. EntriesExact(index, layout) /\ MetaExact(index, layout)
    BY <1>1 DEF RebuiltExact
  <1>3. index.config.langs = config.langs /\ index.config.kinds = config.kinds
    BY <1>1, <1>2 DEF MetaExact, ScanScope, ScopeOf
  <1>4. \A f : KindIn(index.config, layout, f) = KindIn(config, layout, f)
    BY <1>3 DEF KindIn
  <1>5. DOMAIN index.source = now /\ \A f \in now : index.source[f] = tree[f]
    BY <1>1 DEF SnapshotOf
  <1>6. DOMAIN index.entries = now
    BY <1>2, <1>5 DEF EntriesExact
  <1>7. \A f \in now : /\ index.entries[f].kind = KindIn(config, layout, f)
                       /\ index.entries[f].branch = tree[f].branch
                       /\ index.entries[f].imports = tree[f].imports
    BY <1>2, <1>4, <1>5 DEF EntriesExact
  <1> HIDE DEF now
  <1>8. index.p95 = P95([f \in {g \in now : KindIn(config, layout, g) = "production"} |->
                           tree[f].branch])
    <2>1. [f \in {g \in DOMAIN index.source : KindIn(index.config, layout, g) = "production"} |->
             index.source[f].branch]
            = [f \in {g \in now : KindIn(config, layout, g) = "production"} |-> tree[f].branch]
      BY <1>4, <1>5
    <2> QED
      BY <1>2, <2>1 DEF EntriesExact
  <1> QED
    BY <1>6, <1>7, <1>8 DEF AsRescanned, now

---------------------------------------------------------------------------
(* What the gate says *)

\* A gate that has no reason to refuse found an index that is complete, was
\* made for its scope, and names a language for every file it judges.
LEMMA NoReason ==
    ASSUME NEW cfg, NEW idx, GateReason(cfg, idx) = None
    PROVE  /\ idx # None /\ idx.complete /\ idx.scope = GateScope(cfg)
           /\ \A f \in Judged(cfg, idx) : idx.entries[f].lang # None
  <1>1. None \notin RescanReasons \cup ConfigReasons
    BY GovernanceAssumption
  <1>2. Incompatibility(idx, GateScope(cfg), cfg.shapes) = None
    BY <1>1 DEF GateReason, ConfigReasons
  <1>3. idx # None /\ idx.complete /\ idx.scope = GateScope(cfg)
    BY <1>1, <1>2 DEF Incompatibility, RescanReasons
  <1>4. MetricsReason(cfg, idx) = None
    BY <1>1, <1>2 DEF GateReason, ConfigReasons
  <1>5. \A f \in Judged(cfg, idx) : idx.entries[f].lang # None
    BY <1>1, <1>4 DEF MetricsReason, RescanReasons, ConfigReasons
  <1> QED
    BY <1>3, <1>5

LEMMA VerdictMeansNoReason ==
    ASSUME NEW cfg, NEW idx, GateApp(cfg, idx).verdict \in {"PASS", "WARN", "BLOCK"}
    PROVE  GateReason(cfg, idx) = None
  <1>1. Unavailable(GateReason(cfg, idx)).verdict = "UNAVAILABLE"
    BY DEF Unavailable
  <1>2. [Unavailable("defect") EXCEPT !.verdict = "DEFECT"].verdict = "DEFECT"
    BY DEF Unavailable
  <1>3. Invalid(cfg) => GateApp(cfg, idx).verdict = "DEFECT"
    BY <1>2 DEF GateApp
  <1>4. ~Invalid(cfg) /\ GateReason(cfg, idx) # None => GateApp(cfg, idx).verdict = "UNAVAILABLE"
    BY <1>1 DEF GateApp
  <1> QED
    BY <1>3, <1>4

LEMMA FaithfulFromInv == IInv => VerdictFaithful
  <1> SUFFICES ASSUME IInv, rebuilt, GateApp(config, index).verdict \in {"PASS", "WARN", "BLOCK"}
               PROVE  Judged(config, index) = {f \in DOMAIN index.entries :
                        KindIn(config, FALSE, f) = "production" /\ InScope(config.langs, f)}
    BY DEF VerdictFaithful
  <1>1. GateReason(config, index) = None
    BY VerdictMeansNoReason
  <1>2. index # None /\ index.complete /\ index.scope = GateScope(config)
    BY <1>1, NoReason
  <1>3. EntriesExact(index, layout) /\ MetaExact(index, layout)
    BY <1>2 DEF IInv, RebuiltExact
  <1>4. \A f : KindIn(index.config, layout, f) = KindIn(config, FALSE, f)
    <2>1. index.config.kinds = config.kinds /\ ~layout
      BY <1>2, <1>3 DEF MetaExact, ScanScope, GateScope, ScopeOf, IInv, Types
    <2> QED
      BY <2>1 DEF KindIn
  <1>5. \A f \in DOMAIN index.entries :
          f \in Files /\ index.entries[f].kind = KindIn(config, FALSE, f)
    BY <1>2, <1>3, <1>4 DEF EntriesExact, IInv, Types, IndexOK
  <1>6. \A f \in DOMAIN index.entries : KindIn(config, FALSE, f) # None
    BY <1>5, KindKnown DEF IInv, Types
  <1> QED
    BY <1>5, <1>6 DEF Judged, Production

\* The gate never asks for another scan of a project it was just scanned for.
LEMMA ReadyFromInv == NoneHasNoFields /\ IInv => GateReadyAfterScan
  <1> SUFFICES ASSUME NoneHasNoFields, IInv, Scanned, ~layout
               PROVE  GateReason(config, index) \notin RescanReasons
    BY DEF GateReadyAfterScan
  <1>1. /\ index # None /\ index.complete /\ index.config = config
        /\ EntriesExact(index, layout) /\ MetaExact(index, layout)
    BY DEF IInv, RebuiltExact, Scanned
  <1>2. layout = FALSE /\ config \in Configs
    BY DEF IInv, Types
  <1>3. Incompatibility(index, GateScope(config), config.shapes) = None
    BY <1>1, <1>2 DEF Incompatibility, MetaExact, ScanScope, GateScope
  <1> DEFINE judged == Judged(config, index)
             policies == PoliciesOf(config)
             matching(f) == Cardinality(PoliciesFor(policies, f, index.entries[f].lang))
             enforced == {p \in policies : p.mode = "enforce" /\ Selected(p, index, judged) # {}}
  <1>4. IndexOK(index)
    BY <1>1 DEF IInv, Types
  <1>5. \A f \in judged :
          /\ f \in DOMAIN index.entries /\ f \in DOMAIN index.source
          /\ Production(index.entries[f].kind)
    BY <1>1 DEF Judged, EntriesExact
  <1>6. \A f \in judged : index.entries[f].branch # None
    <2> SUFFICES ASSUME NEW f \in judged PROVE index.entries[f].branch # None
      OBVIOUS
    <2>1. index.entries[f].branch = index.source[f].branch /\ index.source[f] \in Contents
      BY <1>1, <1>5 DEF EntriesExact
    <2>2. index.source[f].branch \in Nat
      BY <2>1, GovernanceAssumption
    <2> QED
      BY <2>1, <2>2, GovernanceAssumption
  <1>7. \A f \in judged : index.entries[f].lang # None
    <2> SUFFICES ASSUME NEW f \in judged PROVE index.entries[f].lang # None
      OBVIOUS
    <2>1. index.entries[f].lang = LangOf[f] /\ f \in Files
      BY <1>1, <1>4, <1>5 DEF EntriesExact, IndexOK
    <2> QED
      BY <2>1, GovernanceAssumption
  <1>8. \A f \in judged : ~(matching(f) > 1)
    BY <1>1, <1>5 DEF MetaExact, UnambiguousIn
  <1>9. ASSUME NEW p \in enforced PROVE Denominator(config, index, p) # None
    <2> DEFINE cal == CalibrationFor(config, index, p)
    <2>1. PICK f \in judged : Matches(p, f, index.entries[f].lang)
      BY <1>9 DEF Selected
    <2>2. f \in DOMAIN PolicyPopulation(index.entries, p)
      BY <1>5, <2>1 DEF PolicyPopulation, PopulationOf
    <2>3. p.id \in DOMAIN index.policyCalibrations
      BY <1>1, <2>2 DEF MetaExact
    <2>4. CalibrationOK(cal)
      BY <1>1, <1>4, <2>3 DEF CalibrationFor, MetaExact, IndexOK
    <2> HIDE DEF cal
    <2>5. ProfileOK(GateProfile(cal))
      BY <2>4, CalibrationExists DEF GateProfile, CalibrationOK
    <2>6. GateProfile(cal) # None /\ ProfileP95(GateProfile(cal)) \in Int
      BY <2>5, ProfileExists, ProfileNumber
    <2>7. Denominator(config, index, p) = ProfileP95(GateProfile(cal))
      BY <2>6 DEF Denominator, cal
    <2> QED
      BY <2>6, <2>7, GovernanceAssumption
  <1>10. MetricsReason(config, index) \in {None, "unconfigured_language_policy"}
    BY <1>6, <1>7, <1>8, <1>9 DEF MetricsReason
  <1>11. GateReason(config, index)
           \in {None, "languages_empty", "unsupported_gate_metric", "unconfigured_language_policy"}
    BY <1>3, <1>10 DEF GateReason
  <1>12. None \notin RescanReasons
    BY GovernanceAssumption
  <1> QED
    BY <1>11, <1>12 DEF RescanReasons

\* The rules that fire on a file: those of the enforced policies that select
\* it, at the denominator of each.
LEMMA FiredRules ==
    ASSUME NEW idx, Calibrated(idx), NEW f \in Judged(config, idx), NEW r
    PROVE  r \in FiredOn(idx, f) <=>
             \E p \in PoliciesOf(config) :
                /\ p.mode = "enforce" /\ Matches(p, f, idx.entries[f].lang)
                /\ r \in Triggers(p.rules, idx.entries[f], Denominator(config, idx, p), p.weight)
  <1> DEFINE judged == Judged(config, idx)
             enforced == {p \in PoliciesOf(config) : p.mode = "enforce"}
             active == {p \in enforced : Selected(p, idx, judged) # {}}
             firedBy(p) == GatePerFile(p, idx.entries, Selected(p, idx, judged),
                                       Denominator(config, idx, p))
             fired == UNION {firedBy(p) : p \in active}
             Fires(p) == r \in Triggers(p.rules, idx.entries[f], Denominator(config, idx, p), p.weight)
  <1>1. GateApp(config, idx).triggered = fired
    BY DEF Calibrated, GateApp
  <1>2. \A p : <<f, r>> \in firedBy(p) <=> f \in Selected(p, idx, judged) /\ Fires(p)
    BY DEF GatePerFile, Triggers
  <1>3. \A p : f \in Selected(p, idx, judged) <=> Matches(p, f, idx.entries[f].lang)
    BY DEF Selected
  <1>4. \A p : \A t \in firedBy(p) : t = <<t[1], t[2]>>
    BY DEF GatePerFile
  <1> HIDE DEF firedBy, Fires
  <1>5. <<f, r>> \in fired <=> \E p \in enforced : Matches(p, f, idx.entries[f].lang) /\ Fires(p)
    BY <1>2, <1>3
  <1>6. \A t \in fired : t = <<t[1], t[2]>>
    BY <1>4
  <1> HIDE DEF fired
  <1>7. r \in FiredOn(idx, f) <=> <<f, r>> \in fired
    <2>1. FiredOn(idx, f) = {t[2] : t \in {u \in fired : u[1] = f}}
      BY <1>1 DEF FiredOn
    <2>2. ASSUME r \in FiredOn(idx, f) PROVE <<f, r>> \in fired
      <3>1. PICK t \in fired : t[1] = f /\ t[2] = r
        BY <2>1, <2>2
      <3> QED
        BY <1>6, <3>1
    <2>3. ASSUME <<f, r>> \in fired PROVE r \in FiredOn(idx, f)
      <3>1. <<f, r>>[1] = f /\ <<f, r>>[2] = r
        OBVIOUS
      <3>2. <<f, r>> \in {u \in fired : u[1] = f}
        BY <2>3, <3>1
      <3> QED
        BY <2>1, <3>1, <3>2
    <2> QED
      BY <2>2, <2>3
  <1> QED
    BY <1>5, <1>7 DEF Fires

LEMMA FiredSame ==
    ASSUME NEW i, NEW j, Calibrated(i), Calibrated(j),
           NEW f \in Judged(config, i) \cap Judged(config, j),
           i.entries[f].branch = j.entries[f].branch,
           i.entries[f].lang \in {None, LangOf[f]}, j.entries[f].lang \in {None, LangOf[f]},
           \A p \in PoliciesOf(config) :
             /\ GateProfile(CalibrationFor(config, i, p)) # None
             /\ GateProfile(CalibrationFor(config, j, p)) = GateProfile(CalibrationFor(config, i, p))
    PROVE  FiredOn(i, f) = FiredOn(j, f)
  <1>1. i.entries[f].lang = LangOf[f] /\ j.entries[f].lang = LangOf[f]
    BY NoReason DEF Calibrated
  <1>2. \A p \in PoliciesOf(config) : Denominator(config, i, p) = Denominator(config, j, p)
    BY DEF Denominator
  <1>3. \A rules, d, w :
          Triggers(rules, i.entries[f], d, w) = Triggers(rules, j.entries[f], d, w)
    BY DEF Triggers
  <1>4. \A r : r \in FiredOn(i, f) <=> r \in FiredOn(j, f)
    BY <1>1, <1>2, <1>3, FiredRules
  <1> QED
    BY <1>4

LEMMA StepStable ==
    ASSUME NoneHasNoFields, IInv, [Next]_vars,
           scan # None, ~scan.seal, Calibrated(index), Calibrated(index'),
           NEW f \in Judged(config, index) \cap Judged(config, index'),
           index.entries[f].branch = index'.entries[f].branch
    PROVE  FiredOn(index, f) = FiredOn(index', f)
  <1>1. CASE index' = index
    BY <1>1
  <1>2. CASE ScanPublish
    <2> DEFINE new == NewIndex(NewEntries)
               scope == ScanScope(scan.config, layout)
    <2>1. /\ Types /\ ScanTyped /\ scan.step = "parsed" /\ index' = new
          /\ index # None /\ scan.seal = FALSE
      BY <1>2 DEF IInv, ScanPublish, Calibrated, ScanTyped
    <2>2. IndexOK(index) /\ IndexOK(new)
      BY <2>1, PublishTyped DEF Types
    <2>3. /\ \E observed : new.calibration = NextCalibration(observed, index.calibration, FALSE)
          /\ new.policyCalibrations = PolicyCalibrations(NewEntries, scope)
      BY <2>1 DEF NewIndex
    <2>4. \A i \in DOMAIN new.policyCalibrations \cap DOMAIN index.policyCalibrations :
            \E observed : new.policyCalibrations[i] =
              NextCalibration(observed, index.policyCalibrations[i], FALSE)
      <3> DEFINE cals == PolicyCalibrations(NewEntries, scope)
      <3>1. \A i \in DOMAIN cals :
              index # None /\ i \in DOMAIN index.policyCalibrations /\ ~scan.seal =>
                \E observed : cals[i] = NextCalibration(observed, index.policyCalibrations[i], FALSE)
        BY <2>1, PolicyTyped
      <3> HIDE DEF cals, new
      <3>2. new.policyCalibrations = cals
        BY <2>3 DEF cals
      <3> QED
        BY <2>1, <3>1, <3>2
    <2> HIDE DEF new
    <2>5. ASSUME NEW p \in PoliciesOf(config)
          PROVE  /\ GateProfile(CalibrationFor(config, index, p)) # None
                 /\ GateProfile(CalibrationFor(config, new, p))
                      = GateProfile(CalibrationFor(config, index, p))
      <3> DEFINE before == CalibrationFor(config, index, p)
                 after == CalibrationFor(config, new, p)
      <3>1. before # None /\ after # None
        BY <2>1 DEF Calibrated
      <3>2. CalibrationOK(before) /\ \E observed : after = NextCalibration(observed, before, FALSE)
        <4>1. CASE ~Explicit(config)
          BY <2>2, <2>3, <3>1, <4>1 DEF CalibrationFor, IndexOK
        <4>2. CASE Explicit(config)
          <5>1. /\ p.id \in DOMAIN index.policyCalibrations
                /\ p.id \in DOMAIN new.policyCalibrations
            BY <3>1, <4>2 DEF CalibrationFor
          <5> QED
            BY <2>2, <2>4, <4>2, <5>1 DEF CalibrationFor, IndexOK
        <4> QED
          BY <4>1, <4>2
      <3> HIDE DEF before, after
      <3>3. GateProfile(after) = GateProfile(before)
        BY <3>2, GateKept
      <3>4. ProfileOK(GateProfile(before))
        BY <3>1, <3>2 DEF GateProfile, CalibrationOK
      <3> QED
        BY <3>3, <3>4, ProfileExists DEF before, after
    <2>6. /\ index.entries[f].lang \in {None, LangOf[f]}
          /\ new.entries[f].lang \in {None, LangOf[f]}
      BY <2>1, <2>2 DEF IndexOK, Judged
    <2>7. /\ Calibrated(new) /\ f \in Judged(config, index) \cap Judged(config, new)
          /\ index.entries[f].branch = new.entries[f].branch
      BY <2>1
    <2>8. FiredOn(index, f) = FiredOn(new, f)
      BY <2>5, <2>6, <2>7, FiredSame
    <2> QED
      BY <2>1, <2>8
  <1> QED
    BY <1>1, <1>2
    DEF Next, EditFile, EditConfig, Edited, ScanBegin, ScanFails, ScanUnchanged, ScanParse,
        ScanAmbiguous, Ends, vars

---------------------------------------------------------------------------
(* The theorems *)

\* What `openarch status` calls current is what a rebuild would give: the
\* entries and the P95 of an incremental scan (scanEntries.ts) are those of a
\* full one, for any files, contents and configurations.
THEOREM FreshIsExact == NoneHasNoFields => (Spec => []FreshMeansExact)
  BY Invariance, FreshFromExact, PTL DEF IInv

\* gateApp (governance/gateApp.ts) refuses no baseline that a complete scan
\* wrote under the configuration it has.
THEOREM ScanSuffices == NoneHasNoFields => (Spec => []GateReadyAfterScan)
  <1> SUFFICES ASSUME NoneHasNoFields PROVE Spec => []GateReadyAfterScan
    OBVIOUS
  <1>1. IInv => GateReadyAfterScan
    BY ReadyFromInv
  <1> QED
    BY <1>1, Invariance, PTL

\* The types, and that a verdict is about the production files of the
\* configuration the gate was called with (gateConfig.ts).
THEOREM VerdictsSound == NoneHasNoFields => (Spec => []VerdictSound)
  <1>1. IInv => VerdictSound
    <2>1. IInv => TypeOK
      BY DEF IInv, Types, ScanTyped, TypeOK
    <2> QED
      BY <2>1, FaithfulFromInv DEF VerdictSound
  <1> QED
    BY <1>1, Invariance, PTL

\* A scan that does not seal moves no verdict on a file with the same branch
\* under the same policy (domain/calibration.ts).
THEOREM VerdictsStable == NoneHasNoFields => (Spec => VerdictStable)
  <1> SUFFICES ASSUME NoneHasNoFields PROVE Spec => VerdictStable
    OBVIOUS
  <1>1. IInv /\ [Next]_vars =>
          [scan # None /\ ~scan.seal /\ Calibrated(index) /\ Calibrated(index') =>
             \A f \in Judged(config, index) \cap Judged(config, index') :
                index.entries[f].branch = index'.entries[f].branch
                  => FiredOn(index, f) = FiredOn(index', f)]_vars
    BY StepStable
  <1> QED
    BY <1>1, Invariance, PTL DEF Spec, VerdictStable

---------------------------------------------------------------------------
(* Change impact (ChangeImpact), for every input *)

CI == INSTANCE ChangeImpact

\* No silent zero (computeChangeSurfaceForProfiles): a changed declaration with importers is
\* confirmed to reach somebody, or marked unconfirmed by complete references, or its file is a
\* gap - whatever the profiles, the reports of the providers and the import graph are.
THEOREM NoSilentZeros ==
    \A profiles, reports, importers : CI!NoSilentZero(profiles, reports, importers)
  <1> SUFFICES ASSUME NEW profiles, NEW reports, NEW importers,
                      NEW p \in profiles, NEW c \in CI!DeclarationChanges(p),
                      \A d \in CI!Dossiers(profiles, reports, importers) : d.profile = p => ~CI!Gap(d)
               PROVE  \E s \in CI!Surfaces(profiles, reports, importers) :
                        /\ s.file = p.file /\ s.change = c
                        /\ \/ s.consumers # {}
                           \/ s.unconfirmed /\ CI!StaticConsumers(p, importers) # {}
                                /\ (\/ CI!ReferencesReliable(CI!ReportFor(p, reports))
                                    \/ \E t \in CI!Surfaces(profiles, reports, importers) :
                                          t.file = p.file /\ t.consumers # {})
    BY DEF CI!NoSilentZero
  <1> DEFINE d == [profile |-> p, evidence |-> CI!Evidence(p, reports, importers)]
             report == CI!ReportFor(p, reports)
             at(x) == CI!AnchorConsumers(p, report, x)
             entry(x) == [file |-> p.file, change |-> x, consumers |-> at(x), unconfirmed |-> at(x) = {}]
  <1>1. d \in CI!Dossiers(profiles, reports, importers)
    BY DEF CI!Dossiers
  <1>2. d.profile = p /\ d.evidence = "symbol" /\ CI!Evidence(p, reports, importers) = "symbol"
    BY <1>1 DEF CI!Gap
  <1>3. ASSUME NEW x \in CI!DeclarationChanges(p)
        PROVE  entry(x) \in CI!Surfaces(profiles, reports, importers)
    <2>1. entry(x) \in CI!Surface(d, reports)
      <3>1. CI!Surface(d, reports) =
              {[file |-> p.file, change |-> y, consumers |-> at(y), unconfirmed |-> at(y) = {}] : y \in CI!DeclarationChanges(p)}
        BY <1>2 DEF CI!Surface
      <3> QED BY <3>1
    <2>2. d \in {e \in CI!Dossiers(profiles, reports, importers) : e.evidence # "provider-unavailable"}
      BY <1>1, <1>2
    <2> QED BY <2>1, <2>2 DEF CI!Surfaces
  <1>4. CI!StaticConsumers(p, importers) # {}
    BY <1>2 DEF CI!Evidence
  <1>5. CI!ReferencesReliable(report) \/ \E x \in CI!DeclarationChanges(p) : at(x) # {}
    BY <1>2 DEF CI!Evidence
  <1>6. \/ CI!ReferencesReliable(report)
        \/ \E t \in CI!Surfaces(profiles, reports, importers) : t.file = p.file /\ t.consumers # {}
    <2>1. ASSUME NEW x \in CI!DeclarationChanges(p), at(x) # {}
          PROVE  \E t \in CI!Surfaces(profiles, reports, importers) : t.file = p.file /\ t.consumers # {}
      BY <1>3, <2>1
    <2> QED BY <1>5, <2>1
  <1> QED BY <1>3, <1>4, <1>6

\* Consumers that are reported for a file include an importer of it
\* (computeChangeSurfaceForProfiles), for reports with one profile per file.
THEOREM ConsumersAgree ==
    ASSUME NEW profiles, NEW reports, NEW importers,
           \A p, q \in profiles : p.file = q.file => p = q
    PROVE  CI!ConsumersOverlap(profiles, reports, importers)
  <1> SUFFICES ASSUME NEW p \in profiles
               PROVE  LET all == UNION {s.consumers : s \in {t \in CI!Surfaces(profiles, reports, importers) : t.file = p.file}}
                      IN  all # {} => all \cap CI!StaticConsumers(p, importers) # {}
    BY DEF CI!ConsumersOverlap
  <1> DEFINE all == UNION {s.consumers : s \in {t \in CI!Surfaces(profiles, reports, importers) : t.file = p.file}}
             report == CI!ReportFor(p, reports)
             symbol == UNION {CI!AnchorConsumers(p, report, c) : c \in CI!DeclarationChanges(p)}
             d == [profile |-> p, evidence |-> CI!Evidence(p, reports, importers)]
  <1> SUFFICES ASSUME all # {} PROVE all \cap CI!StaticConsumers(p, importers) # {}
    OBVIOUS
  <1>1. PICK s \in CI!Surfaces(profiles, reports, importers) : s.file = p.file /\ s.consumers # {}
    OBVIOUS
  <1>2. PICK q \in profiles : /\ CI!DeclarationChanges(q) # {}
                              /\ s \in CI!Surface([profile |-> q, evidence |-> CI!Evidence(q, reports, importers)], reports)
    BY <1>1 DEF CI!Surfaces, CI!Dossiers
  <1>3. q = p
    BY <1>1, <1>2 DEF CI!Surface
  <1>4. CI!Evidence(p, reports, importers) = "symbol"
    BY <1>1, <1>2, <1>3 DEF CI!Surface
  <1>5. CI!Surface(d, reports) \subseteq CI!Surfaces(profiles, reports, importers)
    <2>1. d \in CI!Dossiers(profiles, reports, importers)
      BY <1>2, <1>3 DEF CI!Dossiers
    <2>2. d \in {e \in CI!Dossiers(profiles, reports, importers) : e.evidence # "provider-unavailable"}
      BY <1>4, <2>1
    <2> QED BY <2>2 DEF CI!Surfaces
  <1>6. symbol \subseteq all
    <2> SUFFICES ASSUME NEW c \in CI!DeclarationChanges(p), NEW x \in CI!AnchorConsumers(p, report, c)
                 PROVE  x \in all
      OBVIOUS
    <2> DEFINE e == [file |-> p.file, change |-> c, consumers |-> CI!AnchorConsumers(p, report, c),
                     unconfirmed |-> CI!AnchorConsumers(p, report, c) = {}]
    <2>1. e \in CI!Surface(d, reports)
      BY <1>4 DEF CI!Surface
    <2>2. e \in CI!Surfaces(profiles, reports, importers) /\ e.file = p.file /\ x \in e.consumers
      BY <2>1, <1>5
    <2> QED BY <2>2
  <1>7. symbol # {}
    <2>1. s.consumers \subseteq symbol
      BY <1>2, <1>3, <1>4 DEF CI!Surface
    <2> QED BY <1>1, <2>1
  <1>8. symbol \cap CI!StaticConsumers(p, importers) # {}
    <2>1. \/ symbol = {} \/ symbol \cap CI!StaticConsumers(p, importers) # {}
          \/ CI!Evidence(p, reports, importers) \in {"static-bound-empty", "provider-unavailable"}
      BY Zenon DEF CI!Evidence
    <2>2. ASSUME symbol \cap CI!StaticConsumers(p, importers) = {} PROVE FALSE
      <3>1. CI!Evidence(p, reports, importers) \in {"static-bound-empty", "provider-unavailable"}
        BY <1>7, <2>1, <2>2, Zenon
      <3> QED BY <1>4, <3>1
    <2> QED BY <2>2, Zenon
  <1> QED BY <1>6, <1>8

\* What a surface looks up was asked for: every changed declaration is in the demand of its
\* file (symbolUseDemandForProfiles).
THEOREM DemandsCover == \A profiles : CI!DemandCovers(profiles)
  <1> SUFFICES ASSUME NEW profiles, NEW p \in profiles, NEW c \in CI!DeclarationChanges(p), c.kind # "comment_whitespace"
               PROVE  \E d \in CI!Demand(profiles) :
                         d.file = p.file /\ (d.names = {} \/ c.type # "decl" \/ c.leaf \in d.names)
    BY DEF CI!DemandCovers
  <1> DEFINE d == [file |-> p.file, names |-> CI!ChangedNames(p)]
  <1>1. d \in CI!Demand(profiles)
    BY DEF CI!Demand, CI!DeclarationChanges
  <1>2. c.type # "decl" \/ c.leaf \in d.names
    BY DEF CI!ChangedNames, CI!DeclarationChanges
  <1> QED BY <1>1, <1>2

\* The diagnosis calls a file new only when the report says so or nothing knows it, and
\* normalises only what it can compare (resolveSemanticBefore, computeMRDiagnosis).
THEOREM NewIsNew ==
    ASSUME NEW state \in {"git", "introduced", "unavailable", None},
           NEW coldStart, NEW gitHasIt, NEW oldEntry, NEW p95
    PROVE  CI!NewMeansNew(state, coldStart, gitHasIt, oldEntry, p95)
  <1> DEFINE s == CI!ResolveBefore(state, coldStart, gitHasIt)
             source == CI!BeforeSource(s, oldEntry, p95)
             d == CI!Diagnosis(source, p95)
  <1>1. d.scope = "introduced" => source = "introduced"
    BY DEF CI!Diagnosis
  <1>2. d.normalized => source \in {"git", "baseline"}
    BY DEF CI!Diagnosis
  <1>3. source = "introduced" => s = "introduced" \/ (s # "git" /\ s # "unavailable" /\ ~oldEntry)
    BY DEF CI!BeforeSource
  <1>4. source \in {"git", "baseline"} => s = "git" \/ oldEntry
    BY DEF CI!BeforeSource
  <1>5. s \in {"git", "introduced", "unavailable", None}
    BY DEF CI!ResolveBefore
  <1> QED BY <1>1, <1>2, <1>3, <1>4, <1>5 DEF CI!NewMeansNew

---------------------------------------------------------------------------
(* Test governance (TestGovernance), for every input *)

TR == INSTANCE TestGovernance WITH Providers <- Adapters, proc <- None

\* The first provider that supports a file is one of the selected.
LEMMA ProviderSupports ==
    ASSUME NEW run, TR!ActiveProviders(run) \in Seq(Adapters), NEW f, TR!ProviderOf(run, f) # None
    PROVE  TR!ProviderOf(run, f) \in TR!Selected(run) /\ f \in run.supports[TR!ProviderOf(run, f)]
  <1> DEFINE active == TR!ActiveProviders(run)
             able == {i \in DOMAIN active : f \in run.supports[active[i]]}
  <1>1. able # {} /\ TR!ProviderOf(run, f) = active[TR!Min(able)]
    BY DEF TR!ProviderOf
  <1>2. able \subseteq Nat
    OBVIOUS
  <1> HIDE DEF able
  <1>3. TR!Min(able) \in able
    BY <1>1, <1>2, SmallestOf DEF TR!Min
  <1> QED BY <1>1, <1>3 DEF TR!Selected, able

\* What a run is: outcomes of its files, findings in them, and a policy.
RunOK(run) ==
    /\ TR!ActiveProviders(run) \in Seq(Adapters)
    /\ \A f \in run.files : run.outcome[f] \in {"ok", "malformed", "rejects"}
    /\ \A x \in run.found : x.file \in run.files
    /\ \A k \in DOMAIN run.rules : run.rules[k] \in {"block", "warn", "review"}

\* A file that was read without failure was read well.
LEMMA ReadWell ==
    ASSUME NEW run, RunOK(run), ~TR!Dies(run), NEW f \in run.files, TR!ProviderOf(run, f) # None,
           f \notin TR!Failed(run)
    PROVE  run.outcome[f] = "ok"
  BY DEF RunOK, TR!Dies, TR!Failed, TR!Handled, TR!Unrecognized

\* An assessment without a reason finds every file in the baseline and read.
LEMMA NoReasons ==
    ASSUME NEW run, TR!Reasons(run) = {}
    PROVE  /\ run.scope /\ run.shapes
           /\ TR!Unbaselined(run) = {} /\ TR!Unrecognized(run) = {} /\ TR!Failed(run) = {}
  BY DEF TR!Reasons

\* An available coverage has files and no reason against it.
LEMMA AvailableCoverage ==
    ASSUME NEW run, TR!Coverage(run).status = "available"
    PROVE  run.files # {} /\ TR!Reasons(run) = {}
  BY DEF TR!Coverage

\* openarch test calls its evidence available only when every discovered test file is in
\* the baseline and was read by a provider that supports it (assessTestGovernanceCoverage).
THEOREM AvailableCoversAll ==
    ASSUME NEW run, RunOK(run)
    PROVE  TR!AvailableMeansAll(run)
  <1> SUFFICES ASSUME ~TR!Dies(run), TR!Coverage(run).status = "available"
               PROVE  /\ run.files # {} /\ run.files \subseteq run.baseline /\ run.scope /\ run.shapes
                      /\ \A f \in run.files : run.outcome[f] = "ok" /\ \E p \in TR!Selected(run) : f \in run.supports[p]
    BY DEF TR!AvailableMeansAll
  <1>1. run.files # {} /\ TR!Reasons(run) = {}
    BY AvailableCoverage
  <1>2. /\ run.scope /\ run.shapes
        /\ TR!Unbaselined(run) = {} /\ TR!Unrecognized(run) = {} /\ TR!Failed(run) = {}
    BY <1>1, NoReasons
  <1>3. \A f \in run.files : TR!ProviderOf(run, f) # None
    BY <1>2 DEF TR!Unrecognized
  <1>4. \A f \in run.files : run.outcome[f] = "ok"
    BY <1>2, <1>3, ReadWell
  <1>5. \A f \in run.files : \E p \in TR!Selected(run) : f \in run.supports[p]
    BY <1>3, ProviderSupports DEF RunOK
  <1> QED BY <1>1, <1>2, <1>4, <1>5 DEF TR!Unbaselined

\* Scripts are told the spans of the test cases only when every file was read well
\* (testCaseSpanFacts).
THEOREM SpansAreAll ==
    ASSUME NEW run, RunOK(run)
    PROVE  TR!SpansHonest(run)
  <1> SUFFICES ASSUME ~TR!Dies(run), TR!CaseSpans(run) = "available"
               PROVE  \A f \in run.files : run.outcome[f] = "ok" /\ TR!ProviderOf(run, f) # None
    BY DEF TR!SpansHonest
  <1>1. TR!Unrecognized(run) = {} /\ TR!Failed(run) = {}
    BY DEF TR!CaseSpans
  <1>2. \A f \in run.files : TR!ProviderOf(run, f) # None
    BY <1>1 DEF TR!Unrecognized
  <1> QED BY <1>1, <1>2, ReadWell

\* The coverage of a run and those of its providers never contradict each other
\* (assessTestGovernanceCoverage, assessTestProviderCoverage).
THEOREM CoveragesAgree ==
    ASSUME NEW run, RunOK(run)
    PROVE  TR!CoverageAgrees(run)
  <1> DEFINE all == {TR!ProviderCoverage(run, p) : p \in TR!Selected(run)}
  <1> SUFFICES ASSUME ~TR!Dies(run)
               PROVE  /\ TR!Coverage(run).status = "available" => all \subseteq {"available", "not_applicable"}
                      /\ TR!Coverage(run).status = "partial" /\ run.scope /\ run.shapes /\ TR!Unrecognized(run) = {}
                           => "partial" \in all
    BY DEF TR!CoverageAgrees
  <1>1. ASSUME TR!Coverage(run).status = "available" PROVE all \subseteq {"available", "not_applicable"}
    <2>1. TR!Unbaselined(run) = {} /\ TR!Failed(run) = {}
      BY <1>1, AvailableCoverage, NoReasons
    <2>2. \A p \in TR!Selected(run) : TR!ProviderCoverage(run, p) \in {"available", "not_applicable"}
      BY <2>1 DEF TR!ProviderCoverage
    <2> QED BY <2>2
  <1>2. ASSUME TR!Coverage(run).status = "partial", run.scope, run.shapes, TR!Unrecognized(run) = {}
        PROVE  "partial" \in all
    <2>1. TR!Reasons(run) # {}
      BY <1>2 DEF TR!Coverage
    <2>2. TR!Failed(run) \cup TR!Unbaselined(run) # {}
      BY <1>2, <2>1 DEF TR!Reasons
    <2>3. PICK f \in run.files : f \in TR!Failed(run) \cup TR!Unbaselined(run)
      BY <2>2 DEF TR!Failed, TR!Handled, TR!Unbaselined
    <2>4. TR!ProviderOf(run, f) # None
      BY <1>2 DEF TR!Unrecognized
    <2>5. TR!ProviderOf(run, f) \in TR!Selected(run)
      BY <2>4, ProviderSupports DEF RunOK
    <2>6. TR!ProviderCoverage(run, TR!ProviderOf(run, f)) = "partial"
      BY <2>3 DEF TR!ProviderCoverage, TR!Candidates
    <2> QED BY <2>5, <2>6
  <1> QED BY <1>1, <1>2

\* A verdict PASS leaves no finding out: each is exempted by a live exemption or asks for
\* review only, and nothing that was to be run failed (testGovernance).
THEOREM PassIsForAll ==
    ASSUME NEW run, RunOK(run)
    PROVE  TR!PassSpeaksForAll(run)
  <1> SUFFICES ASSUME ~TR!Dies(run), TR!Verdict(run) = "PASS"
               PROVE  /\ \A x \in run.found : TR!ProviderOf(run, x.file) # None =>
                            \/ \E e \in run.exempt : e.rule = x.rule /\ ~e.expired /\ e.file \in {None, x.file}
                            \/ TR!Action(run, x) = "review"
                      /\ "failed" \notin run.runners
                      /\ \A f \in run.files : TR!ProviderOf(run, f) # None => run.outcome[f] = "ok"
    BY DEF TR!PassSpeaksForAll
  <1>1. ~TR!Errors(run) /\ TR!Triggered(run, "block") = {} /\ TR!Triggered(run, "warn") = {}
    BY DEF TR!Verdict
  <1>2. TR!Failed(run) = {} /\ "failed" \notin run.runners
    BY <1>1 DEF TR!Errors
  <1>3. \A f \in run.files : TR!ProviderOf(run, f) # None => run.outcome[f] = "ok"
    BY <1>2, ReadWell
  <1>4. ASSUME NEW x \in run.found, TR!ProviderOf(run, x.file) # None, TR!Action(run, x) # "review"
        PROVE  \E e \in run.exempt : e.rule = x.rule /\ ~e.expired /\ e.file \in {None, x.file}
    <2> DEFINE y == [file |-> x.file, rule |-> x.rule, kind |-> x.kind, unbaselined |-> x.file \in TR!Unbaselined(run)]
    <2>1. x.file \in TR!Handled(run) \ TR!Failed(run)
      BY <1>2, <1>4 DEF RunOK, TR!Handled, TR!Unrecognized
    <2>2. y \in TR!AllFindings(run)
      BY <2>1 DEF TR!AllFindings, TR!Collected
    <2>3. TR!Action(run, y) = TR!Action(run, x)
      BY DEF TR!Action
    <2>4. TR!Action(run, x) \in {"block", "warn"}
      BY <1>4 DEF TR!Action, RunOK
    <2>5. TR!Exempt(run, y)
      BY <1>1, <2>2, <2>3, <2>4 DEF TR!Triggered
    <2> QED BY <2>5 DEF TR!Exempt
  <1> QED BY <1>2, <1>3, <1>4

\* Every file whose repeated blocks nothing is known of is charged for all of them, and
\* what is known of a file only ever lowers what it is charged (codeSimilarityBuckets).
THEOREM EvidenceOnlyLowers ==
    ASSUME NEW texts, NEW evidence, NEW window
    PROVE  TR!EvidenceLowers(texts, evidence, window)
  <1> DEFINE blind == [f \in DOMAIN texts |-> None]
             R == TR!Repeated(texts, window)
             kind(b) == TR!BlockKind(blind[b.file], b.start..(b.start + window - 1))
  <1>1. \A b \in R : b.file \in DOMAIN texts
    BY DEF TR!Repeated, TR!BlocksOf
  <1>2. \A lines : TR!BlockKind(None, lines) = "assembly"
    BY Zenon DEF TR!BlockKind
  <1>3. \A b \in R : kind(b) = "assembly"
    <2> HIDE DEF R
    <2> QED BY <1>1, <1>2
  <1>4. TR!ChargedBlocks(texts, blind, window) = {b \in R : kind(b) \in {"assembly", "unclassified"}}
    BY DEF TR!ChargedBlocks
  <1>5. TR!ChargedBlocks(texts, evidence, window) \subseteq R
    BY DEF TR!ChargedBlocks
  <1> HIDE DEF kind, R
  <1>6. TR!ChargedBlocks(texts, blind, window) = R
    BY <1>3, <1>4
  <1> QED BY <1>5, <1>6, Zenon DEF TR!EvidenceLowers, R

---------------------------------------------------------------------------
(* The change classifier (SemanticChanges), for every input *)

SC == INSTANCE SemanticChanges

\* Declarations as the parsers report them: a signature is never the marker of
\* a declaration without a counterpart.
DeclarationsOver(names, kinds, sigs, bodies) ==
    [id : Seq(names) \ {<<>>}, kind : kinds, sig : sigs, body : bodies,
     public : BOOLEAN, additive : BOOLEAN, reexport : BOOLEAN]
Marked(s) == \E i \in DOMAIN s : s[i].sig = "*"
Listed(s) == \E n \in Nat : DOMAIN s = 1..n

\* The first declaration of a signature stands for each of that signature.
LEMMA DistinctFound ==
    ASSUME NEW s, Listed(s), NEW i \in DOMAIN s
    PROVE  \E j \in SC!Distinct(s, SC!Base(s[i])) : s[j].sig = s[i].sig
  <1> DEFINE base == SC!Base(s[i])
             X == {j \in DOMAIN s : SC!Base(s[j]) = base /\ s[j].sig = s[i].sig}
  <1>1. PICK n \in Nat : DOMAIN s = 1..n
    BY DEF Listed
  <1>2. X \subseteq Nat /\ X # {}
    BY <1>1
  <1>3. PICK j \in X : \A m \in X : j <= m
    BY <1>2, SmallestOf
  <1>4. \A m \in 1..(j - 1) : ~(SC!Base(s[m]) = base /\ s[m].sig = s[j].sig)
    BY <1>1, <1>3
  <1> QED BY <1>3, <1>4 DEF SC!Distinct

\* One declaration stands for a signature.
LEMMA DistinctOnce ==
    ASSUME NEW s, Listed(s), NEW base, NEW i \in SC!Distinct(s, base), NEW j \in SC!Distinct(s, base),
           s[i].sig = s[j].sig
    PROVE  i = j
  <1>1. PICK n \in Nat : DOMAIN s = 1..n
    BY DEF Listed
  <1>2. /\ i \in 1..n /\ j \in 1..n /\ SC!Base(s[i]) = base /\ SC!Base(s[j]) = base
        /\ i \notin 1..(j - 1) /\ j \notin 1..(i - 1)
    BY <1>1 DEF SC!Distinct
  <1> QED BY <1>2

\* What is distinct under a base is a declaration of that base.
LEMMA DistinctOf ==
    ASSUME NEW s, NEW base, NEW i \in SC!Distinct(s, base)
    PROVE  i \in DOMAIN s /\ SC!Base(s[i]) = base /\ base \in SC!Bases(s)
  BY DEF SC!Distinct, SC!Bases

\* The signatures of a base are those of all its declarations.
LEMMA SignaturesAre ==
    ASSUME NEW s, Listed(s), NEW base
    PROVE  SC!Signatures(s, base) = {s[i].sig : i \in {j \in DOMAIN s : SC!Base(s[j]) = base}}
  BY DistinctFound, DistinctOf DEF SC!Signatures

\* The keys of a revision.
LEMMA KeysAre ==
    ASSUME NEW s, Listed(s), ~Marked(s), NEW other, NEW k \in DOMAIN SC!Identity(s, other)
    PROVE  \/ /\ k = <<k[1], "*">> /\ SC!OnlyIn(s, other, k[1]) # {}
           \/ /\ k = <<k[1], k[2]>> /\ k[2] # "*"
              /\ k[2] \in SC!Signatures(s, k[1]) /\ k[2] \in SC!Signatures(other, k[1])
  <1> DEFINE matched == {<<base, s[i].sig>> : base \in SC!Bases(s), i \in DOMAIN s}
             first == {x \in matched : x[2] \in SC!Signatures(s, x[1]) \cap SC!Signatures(other, x[1])}
             rest == {<<base, "*">> : base \in {c \in SC!Bases(s) : SC!OnlyIn(s, other, c) # {}}}
  <1>1. DOMAIN SC!Identity(s, other) = first \cup rest
    BY DEF SC!Identity
  <1>2. CASE k \in first
    <2>1. PICK base \in SC!Bases(s), i \in DOMAIN s : k = <<base, s[i].sig>>
      BY <1>2
    <2>2. s[i].sig # "*"
      BY DEF Marked
    <2> QED BY <1>2, <2>1, <2>2
  <1>3. CASE k \in rest
    <2>1. PICK base \in {c \in SC!Bases(s) : SC!OnlyIn(s, other, c) # {}} : k = <<base, "*">>
      BY <1>3
    <2> QED BY <2>1
  <1> QED BY <1>1, <1>2, <1>3

\* A base with a declaration of its own in this revision has a key.
LEMMA KeyOfRest ==
    ASSUME NEW s, NEW other, NEW base, SC!OnlyIn(s, other, base) # {}
    PROVE  <<base, "*">> \in DOMAIN SC!Identity(s, other)
  <1>1. base \in SC!Bases(s)
    BY DistinctOf DEF SC!OnlyIn
  <1>2. <<base, "*">> \in {<<b, "*">> : b \in {c \in SC!Bases(s) : SC!OnlyIn(s, other, c) # {}}}
    BY <1>1
  <1> QED BY <1>2 DEF SC!Identity

\* A signature that both revisions have is a key.
LEMMA KeyOfMatch ==
    ASSUME NEW s, Listed(s), NEW other, NEW base, NEW sig,
           sig \in SC!Signatures(s, base), sig \in SC!Signatures(other, base)
    PROVE  <<base, sig>> \in DOMAIN SC!Identity(s, other)
  <1> DEFINE matched == {<<b, s[i].sig>> : b \in SC!Bases(s), i \in DOMAIN s}
             first == {x \in matched : x[2] \in SC!Signatures(s, x[1]) \cap SC!Signatures(other, x[1])}
  <1>1. PICK i \in SC!Distinct(s, base) : s[i].sig = sig
    BY DEF SC!Signatures
  <1>2. i \in DOMAIN s /\ base \in SC!Bases(s)
    BY DistinctOf
  <1>3. <<base, sig>> \in matched
    BY <1>1, <1>2
  <1>4. <<base, sig>> \in first
    BY <1>3
  <1>5. first \subseteq DOMAIN SC!Identity(s, other)
    BY DEF SC!Identity
  <1> QED BY <1>4, <1>5

\* What a key stands for.
LEMMA ValueOfKey ==
    ASSUME NEW s, Listed(s), ~Marked(s), NEW other, NEW k \in DOMAIN SC!Identity(s, other)
    PROVE  \E i \in SC!Distinct(s, k[1]) :
              /\ SC!Identity(s, other)[k] = s[i]
              /\ IF k[2] = "*" THEN i \in SC!OnlyIn(s, other, k[1]) ELSE s[i].sig = k[2]
  <1> DEFINE only == SC!OnlyIn(s, other, k[1])
             chosen(i) == IF k[2] = "*" THEN i \in only /\ \A j \in only : i =< j ELSE s[i].sig = k[2]
             value == CHOOSE i \in SC!Distinct(s, k[1]) : chosen(i)
  <1>1. SC!Identity(s, other)[k] = s[value]
    BY DEF SC!Identity
  <1>2. \E i \in SC!Distinct(s, k[1]) : chosen(i)
    <2>1. CASE k[2] = "*"
      <3>1. only # {}
        BY <2>1, KeysAre
      <3>2. only \subseteq SC!Distinct(s, k[1])
        BY DEF SC!OnlyIn
      <3>3. only \subseteq Nat
        BY <3>2, DistinctOf DEF Listed
      <3> HIDE DEF only
      <3>4. PICK i \in only : \A j \in only : i <= j
        BY <3>1, <3>3, SmallestOf
      <3> QED BY <2>1, <3>2, <3>4
    <2>2. CASE k[2] # "*"
      <3>1. k[2] \in SC!Signatures(s, k[1])
        BY <2>2, KeysAre
      <3> QED BY <2>2, <3>1 DEF SC!Signatures
    <2> QED BY <2>1, <2>2
  <1> HIDE DEF chosen
  <1>3. value \in SC!Distinct(s, k[1]) /\ chosen(value)
    BY <1>2
  <1> QED BY <1>1, <1>3 DEF chosen

\* Both revisions know a key by the same declaration.
LEMMA ValueOfBase ==
    ASSUME NEW s, Listed(s), ~Marked(s), NEW other, NEW k \in DOMAIN SC!Identity(s, other)
    PROVE  SC!Base(SC!Identity(s, other)[k]) = k[1]
           /\ SC!Identity(s, other)[k].id = k[1][1] /\ SC!Identity(s, other)[k].kind = k[1][2]
  <1>1. PICK i \in SC!Distinct(s, k[1]) : SC!Identity(s, other)[k] = s[i]
    BY ValueOfKey
  <1>2. SC!Base(s[i]) = k[1]
    BY DistinctOf
  <1> QED BY <1>1, <1>2 DEF SC!Base

\* Normalising keeps the ids, and all of a declaration that is no re-export or is not on
\* the other side.
LEMMA NormalizedIs ==
    ASSUME NEW names, NEW kinds, NEW sigs, NEW bodies, "*" \notin sigs,
           NEW s \in Seq(DeclarationsOver(names, kinds, sigs, bodies)),
           NEW other \in Seq(DeclarationsOver(names, kinds, sigs, bodies))
    PROVE  LET n == SC!Normalized(s, other)
           IN  /\ DOMAIN n = DOMAIN s /\ Listed(n) /\ ~Marked(n)
               /\ \A i \in DOMAIN s : /\ n[i] \in DeclarationsOver(names, kinds, sigs, bodies)
                                      /\ n[i].id = s[i].id /\ n[i].public = s[i].public
                                      /\ (~s[i].reexport \/ \A j \in DOMAIN other : other[j].id # s[i].id) => n[i] = s[i]
  <1> DEFINE D == DeclarationsOver(names, kinds, sigs, bodies)
             n == SC!Normalized(s, other)
             same(i) == {j \in DOMAIN other : other[j].id = s[i].id}
             o(i) == other[CHOOSE j \in same(i) : TRUE]
             new(i) == IF s[i].reexport /\ SC!Cardinality(same(i)) = 1
                       THEN [s[i] EXCEPT !.kind = o(i).kind, !.sig = o(i).sig,
                                         !.body = IF o(i).body = "" THEN @ ELSE o(i).body]
                       ELSE s[i]
  <1>1. n = [i \in DOMAIN s |-> new(i)]
    BY DEF SC!Normalized
  <1>2. DOMAIN s = 1..Len(s) /\ Len(s) \in Nat /\ \A i \in DOMAIN s : s[i] \in D
    OBVIOUS
  <1>3. \A i \in DOMAIN other : other[i] \in D
    OBVIOUS
  <1>4. ASSUME NEW i \in DOMAIN s
        PROVE  /\ new(i) \in D /\ new(i).id = s[i].id /\ new(i).public = s[i].public
               /\ (~s[i].reexport \/ \A j \in DOMAIN other : other[j].id # s[i].id) => new(i) = s[i]
    <2>1. CASE s[i].reexport /\ SC!Cardinality(same(i)) = 1
      <3>1. same(i) # {}
        <4>1. SC!Cardinality({}) = 0
          BY FS_EmptySet DEF SC!Cardinality, Cardinality
        <4>2. SC!Cardinality(same(i)) = 1
          BY <2>1
        <4> HIDE DEF same
        <4>3. 0 # 1
          OBVIOUS
        <4> QED BY <4>1, <4>2, <4>3
      <3>2. o(i) \in D
        BY <1>3, <3>1
      <3> HIDE DEF o, same
      <3>3. new(i) = [s[i] EXCEPT !.kind = o(i).kind, !.sig = o(i).sig,
                                  !.body = IF o(i).body = "" THEN @ ELSE o(i).body]
        BY <2>1
      <3>4. new(i) \in D /\ new(i).id = s[i].id /\ new(i).public = s[i].public
        <4> HIDE DEF new
        <4> QED BY <1>2, <3>2, <3>3 DEF DeclarationsOver
      <3>5. ~(~s[i].reexport \/ \A j \in DOMAIN other : other[j].id # s[i].id)
        BY <2>1, <3>1 DEF same
      <3> QED BY <3>4, <3>5
    <2>2. CASE ~(s[i].reexport /\ SC!Cardinality(same(i)) = 1)
      BY <1>2, <2>2
    <2> QED BY <2>1, <2>2
  <1> HIDE DEF new, n
  <1>5. DOMAIN n = DOMAIN s /\ \A i \in DOMAIN s : n[i] = new(i)
    BY <1>1
  <1>6. Listed(n)
    BY <1>2, <1>5 DEF Listed
  <1>7. ~Marked(n)
    <2>1. \A x \in D : x.sig # "*"
      BY DEF DeclarationsOver
    <2> QED BY <1>4, <1>5, <2>1 DEF Marked
  <1> QED BY <1>4, <1>5, <1>6, <1>7 DEF n

\* Who is ambiguous does not depend on the direction.
LEMMA UnresolvedEither ==
    ASSUME NEW b, NEW a PROVE SC!Unresolved(b, a) = SC!Unresolved(a, b)
  BY DEF SC!Unresolved, SC!Alignable

\* A change is a record of an anchor and a kind; that nothing can be compared is
\* no set of changes.
NoAnswerApart == \A S : (\A c \in S : c = [anchor |-> c.anchor, kind |-> c.kind]) => S # Absent

Anchors(S) == {c.anchor : c \in S}
ChangeOf(anchor, kind) == [anchor |-> anchor, kind |-> kind]

\* The fields of a change.
LEMMA ChangeIs ==
    \A anchor, kind : /\ ChangeOf(anchor, kind).anchor = anchor /\ ChangeOf(anchor, kind).kind = kind
                      /\ ChangeOf(anchor, kind) = [anchor |-> ChangeOf(anchor, kind).anchor, kind |-> ChangeOf(anchor, kind).kind]
  BY DEF ChangeOf

Topmost(here, there) ==
    LET changed == {here[k] : k \in DOMAIN here \ DOMAIN there}
    IN  {d \in changed : ~SC!HasAncestor(d, changed)}
TopmostIds(here, there) == {d.id : d \in Topmost(here, there)}

\* The additions and removals are those of the topmost declarations.
LEMMA AddedAre ==
    ASSUME NEW here, NEW there, NEW operation
    PROVE  SC!AddedOrRemoved(here, there, operation)
             = {ChangeOf(d.id, SC!DeclarationKind(d, operation)) : d \in Topmost(here, there)}
  BY DEF SC!AddedOrRemoved, Topmost, ChangeOf

\* Their anchors are the ids of these.
LEMMA AddedAnchors ==
    ASSUME NEW here, NEW there, NEW operation
    PROVE  Anchors(SC!AddedOrRemoved(here, there, operation)) = TopmostIds(here, there)
  BY AddedAre, ChangeIs DEF Anchors, TopmostIds

\* The two sides of the keys both revisions have are the same declaration.
Paired(b, a) ==
    \A k \in DOMAIN b \cap DOMAIN a : b[k].id = a[k].id /\ b[k].kind = a[k].kind

\* Changed declarations have the same anchors in either direction.
LEMMA UnitAnchors ==
    ASSUME NEW b, NEW a, Paired(b, a)
    PROVE  Anchors(SC!ChangedUnits(b, a)) = Anchors(SC!ChangedUnits(a, b))
  <1> DEFINE common(x, y) == DOMAIN x \cap DOMAIN y
             shape(x, y, k) == x[k].sig # y[k].sig \/ x[k].public # y[k].public
             body(x, y, k) == x[k].kind = "function" /\ x[k].body # y[k].body
             units(x, y) == {x[k].id : k \in {c \in common(x, y) : shape(x, y, c) \/ body(x, y, c)}}
  <1>1. ASSUME NEW x, NEW y PROVE Anchors(SC!ChangedUnits(x, y)) = units(x, y)
    <2>1. SC!ChangedUnits(x, y) =
            {ChangeOf(x[k].id, SC!SignatureKind(x[k], y[k])) : k \in {c \in common(x, y) : shape(x, y, c)}}
              \cup {ChangeOf(x[k].id, "function_body") :
                       k \in {c \in common(x, y) : ~shape(x, y, c) /\ body(x, y, c)}}
      BY DEF SC!ChangedUnits, ChangeOf
    <2> HIDE DEF common, shape, body
    <2> QED BY <2>1, ChangeIs DEF Anchors
  <1>2. \A k \in common(b, a) : /\ shape(b, a, k) <=> shape(a, b, k)
                                /\ body(b, a, k) <=> body(a, b, k)
                                /\ b[k].id = a[k].id
    BY DEF Paired
  <1>3. common(b, a) = common(a, b)
    OBVIOUS
  <1> HIDE DEF common, shape, body
  <1>4. units(b, a) = units(a, b)
    BY <1>2, <1>3
  <1> QED BY <1>1, <1>4

\* So do the changed imports.
LEMMA ImportAnchors ==
    ASSUME NEW b, NEW a
    PROVE  Anchors(SC!ImportChanges(b, a)) = Anchors(SC!ImportChanges(a, b))
  <1> DEFINE at(m) == <<"import", m>>
  <1>1. ASSUME NEW x, NEW y
        PROVE  Anchors(SC!ImportChanges(x, y)) = {at(m) : m \in (x \ y) \cup (y \ x)}
    <2>1. SC!ImportChanges(x, y) = {ChangeOf(at(m), "dependency_add") : m \in y \ x}
                                      \cup {ChangeOf(at(m), "dependency_remove") : m \in x \ y}
      BY DEF SC!ImportChanges, ChangeOf
    <2> HIDE DEF at
    <2> QED BY <2>1, ChangeIs DEF Anchors
  <1>2. (b \ a) \cup (a \ b) = (a \ b) \cup (b \ a)
    OBVIOUS
  <1> HIDE DEF at
  <1>3. Anchors(SC!ImportChanges(b, a)) = {at(m) : m \in (b \ a) \cup (a \ b)}
    BY <1>1
  <1>4. Anchors(SC!ImportChanges(a, b)) = {at(m) : m \in (a \ b) \cup (b \ a)}
    BY <1>1
  <1> QED BY <1>2, <1>3, <1>4

\* What an analysis compares.
Sides(before, after) == SC!Identity(SC!Normalized(SC!Decls(before), SC!Decls(after)),
                                    SC!Normalized(SC!Decls(after), SC!Decls(before)))
Changes(before, after) ==
    SC!AddedOrRemoved(Sides(after, before), Sides(before, after), "add")
      \cup SC!AddedOrRemoved(Sides(before, after), Sides(after, before), "remove")
      \cup SC!ChangedUnits(Sides(before, after), Sides(after, before))
      \cup SC!ImportChanges(SC!Imports(before), SC!Imports(after))
Incomparable(before, after) ==
    \/ before = Absent /\ after = Absent
    \/ SC!Unresolved(SC!Normalized(SC!Decls(before), SC!Decls(after)),
                     SC!Normalized(SC!Decls(after), SC!Decls(before))) # {}

\* The three ways an analysis ends.
LEMMA AnalysisIs ==
    ASSUME NEW before, NEW after
    PROVE  \E kind \in {"function_body", "comment_whitespace"} :
              SC!Analyze(before, after) = IF Incomparable(before, after) THEN Absent
                                          ELSE IF Changes(before, after) # {} THEN Changes(before, after)
                                          ELSE {[anchor |-> <<"file">>, kind |-> kind]}
  <1> DEFINE restChanged == before # Absent /\ after # Absent /\ before.rest # after.rest
             kind == IF restChanged THEN "function_body" ELSE "comment_whitespace"
  <1>1. SC!Analyze(before, after) = IF Incomparable(before, after) THEN Absent
                                    ELSE IF Changes(before, after) # {} THEN Changes(before, after)
                                    ELSE {[anchor |-> <<"file">>, kind |-> kind]}
    BY Zenon DEF SC!Analyze, Incomparable, Changes, Sides
  <1>2. kind \in {"function_body", "comment_whitespace"}
    OBVIOUS
  <1> QED BY <1>1, <1>2

\* Each change is a record; none is called a change of comments only.
LEMMA ChangesAre ==
    ASSUME NEW before, NEW after, NEW c \in Changes(before, after)
    PROVE  c = [anchor |-> c.anchor, kind |-> c.kind] /\ c.kind # "comment_whitespace"
  <1>1. \A d, operation : SC!DeclarationKind(d, operation) # "comment_whitespace"
    BY DEF SC!DeclarationKind
  <1>2. \A x, y : SC!SignatureKind(x, y) # "comment_whitespace"
    BY DEF SC!SignatureKind
  <1>3. ASSUME NEW here, NEW there, NEW operation, c \in SC!AddedOrRemoved(here, there, operation)
        PROVE  c = [anchor |-> c.anchor, kind |-> c.kind] /\ c.kind # "comment_whitespace"
    BY <1>1, <1>3, AddedAre, ChangeIs
  <1>4. ASSUME NEW b, NEW a, c \in SC!ChangedUnits(b, a)
        PROVE  c = [anchor |-> c.anchor, kind |-> c.kind] /\ c.kind # "comment_whitespace"
    BY <1>2, <1>4 DEF SC!ChangedUnits
  <1>5. ASSUME NEW b, NEW a, c \in SC!ImportChanges(b, a)
        PROVE  c = [anchor |-> c.anchor, kind |-> c.kind] /\ c.kind # "comment_whitespace"
    BY <1>5 DEF SC!ImportChanges
  <1> QED BY <1>3, <1>4, <1>5 DEF Changes

\* The two sides of a comparison pair the same declarations.
LEMMA SidesPaired ==
    ASSUME NEW names, NEW kinds, NEW sigs, NEW bodies, "*" \notin sigs, NEW before, NEW after,
           SC!Decls(before) \in Seq(DeclarationsOver(names, kinds, sigs, bodies)),
           SC!Decls(after) \in Seq(DeclarationsOver(names, kinds, sigs, bodies))
    PROVE  Paired(Sides(before, after), Sides(after, before))
  <1> DEFINE b == SC!Normalized(SC!Decls(before), SC!Decls(after))
             a == SC!Normalized(SC!Decls(after), SC!Decls(before))
  <1>1. Listed(b) /\ ~Marked(b) /\ Listed(a) /\ ~Marked(a)
    BY NormalizedIs
  <1>2. Sides(before, after) = SC!Identity(b, a) /\ Sides(after, before) = SC!Identity(a, b)
    BY DEF Sides
  <1> HIDE DEF b, a
  <1>3. \A k \in DOMAIN SC!Identity(b, a) : SC!Identity(b, a)[k].id = k[1][1] /\ SC!Identity(b, a)[k].kind = k[1][2]
    BY <1>1, ValueOfBase
  <1>4. \A k \in DOMAIN SC!Identity(a, b) : SC!Identity(a, b)[k].id = k[1][1] /\ SC!Identity(a, b)[k].kind = k[1][2]
    BY <1>1, ValueOfBase
  <1> QED BY <1>2, <1>3, <1>4 DEF Paired

\* The anchors of changes of several sorts.
LEMMA AnchorsOfUnion ==
    ASSUME NEW R, NEW S, NEW T, NEW U
    PROVE  Anchors(R \cup S \cup T \cup U) = Anchors(R) \cup Anchors(S) \cup Anchors(T) \cup Anchors(U)
  BY DEF Anchors

\* The anchors of all the changes of a comparison.
LEMMA AnchorsOfChanges ==
    ASSUME NEW x, NEW y, NEW b, NEW a
    PROVE  Anchors(SC!AddedOrRemoved(y, x, "add") \cup SC!AddedOrRemoved(x, y, "remove")
                    \cup SC!ChangedUnits(x, y) \cup SC!ImportChanges(b, a))
            = TopmostIds(y, x) \cup TopmostIds(x, y)
                \cup Anchors(SC!ChangedUnits(x, y)) \cup Anchors(SC!ImportChanges(b, a))
  <1>1. /\ Anchors(SC!AddedOrRemoved(y, x, "add")) = TopmostIds(y, x)
        /\ Anchors(SC!AddedOrRemoved(x, y, "remove")) = TopmostIds(x, y)
    BY AddedAnchors
  <1>2. Anchors(SC!AddedOrRemoved(y, x, "add") \cup SC!AddedOrRemoved(x, y, "remove")
                    \cup SC!ChangedUnits(x, y) \cup SC!ImportChanges(b, a))
            = Anchors(SC!AddedOrRemoved(y, x, "add")) \cup Anchors(SC!AddedOrRemoved(x, y, "remove"))
                \cup Anchors(SC!ChangedUnits(x, y)) \cup Anchors(SC!ImportChanges(b, a))
    BY AnchorsOfUnion
  <1> QED BY <1>1, <1>2

\* Swapping the revisions decides only between add and remove: there is an answer in the
\* same cases and on the same anchors (analyzeSemanticChanges).
THEOREM DiffReverses ==
    ASSUME NoAnswerApart, NEW names, NEW kinds, NEW sigs, NEW bodies, "*" \notin sigs, NEW before, NEW after,
           SC!Decls(before) \in Seq(DeclarationsOver(names, kinds, sigs, bodies)),
           SC!Decls(after) \in Seq(DeclarationsOver(names, kinds, sigs, bodies))
    PROVE  SC!Reversible(before, after)
  <1> DEFINE there == SC!Analyze(before, after)
             back == SC!Analyze(after, before)
             C == Changes(before, after)
             R == Changes(after, before)
  <1>1. Anchors(C) = Anchors(R)
    <2> DEFINE x == Sides(before, after)
               y == Sides(after, before)
               b == SC!Imports(before)
               a == SC!Imports(after)
    <2>1. Paired(x, y)
      BY SidesPaired
    <2> HIDE DEF x, y, b, a
    <2>2. Anchors(SC!AddedOrRemoved(y, x, "add") \cup SC!AddedOrRemoved(x, y, "remove")
                    \cup SC!ChangedUnits(x, y) \cup SC!ImportChanges(b, a))
            = TopmostIds(y, x) \cup TopmostIds(x, y)
                \cup Anchors(SC!ChangedUnits(x, y)) \cup Anchors(SC!ImportChanges(b, a))
      BY AnchorsOfChanges
    <2>3. Anchors(SC!AddedOrRemoved(x, y, "add") \cup SC!AddedOrRemoved(y, x, "remove")
                    \cup SC!ChangedUnits(y, x) \cup SC!ImportChanges(a, b))
            = TopmostIds(x, y) \cup TopmostIds(y, x)
                \cup Anchors(SC!ChangedUnits(y, x)) \cup Anchors(SC!ImportChanges(a, b))
      BY AnchorsOfChanges
    <2>4. Anchors(SC!ChangedUnits(x, y)) = Anchors(SC!ChangedUnits(y, x))
          /\ Anchors(SC!ImportChanges(b, a)) = Anchors(SC!ImportChanges(a, b))
      BY <2>1, UnitAnchors, ImportAnchors
    <2>5. \A P, Q, T, U : P \cup Q \cup T \cup U = Q \cup P \cup T \cup U
      OBVIOUS
    <2> QED BY <2>2, <2>3, <2>4, <2>5 DEF Changes, x, y, b, a
  <1>2. Incomparable(before, after) <=> Incomparable(after, before)
    BY UnresolvedEither DEF Incomparable
  <1>3. PICK p : there = IF Incomparable(before, after) THEN Absent
                         ELSE IF C # {} THEN C ELSE {[anchor |-> <<"file">>, kind |-> p]}
    BY AnalysisIs
  <1>4. PICK q : back = IF Incomparable(after, before) THEN Absent
                        ELSE IF R # {} THEN R ELSE {[anchor |-> <<"file">>, kind |-> q]}
    BY AnalysisIs
  <1>5. \A c \in C \cup R : c = [anchor |-> c.anchor, kind |-> c.kind]
    BY ChangesAre
  <1>6. C # Absent /\ R # Absent
    <2> HIDE DEF C, R
    <2> QED BY <1>5 DEF NoAnswerApart
  <1>7. \A kind : {[anchor |-> <<"file">>, kind |-> kind]} # Absent
    <2> SUFFICES ASSUME NEW kind PROVE {[anchor |-> <<"file">>, kind |-> kind]} # Absent
      OBVIOUS
    <2> DEFINE S == {[anchor |-> <<"file">>, kind |-> kind]}
    <2>1. \A c \in S : c = [anchor |-> c.anchor, kind |-> c.kind]
      OBVIOUS
    <2> HIDE DEF S
    <2>2. S # Absent
      BY <2>1 DEF NoAnswerApart
    <2> QED BY <2>2 DEF S
  <1>8. C = {} <=> R = {}
    BY <1>1 DEF Anchors
  <1>9. \A kind : Anchors({[anchor |-> <<"file">>, kind |-> kind]}) = {<<"file">>}
    BY DEF Anchors
  <1> HIDE DEF C, R, there, back
  <1>10. (there = Absent) = (back = Absent)
    BY <1>2, <1>3, <1>4, <1>6, <1>7
  <1>11. there # Absent => Anchors(there) = Anchors(back)
    BY <1>1, <1>2, <1>3, <1>4, <1>8, <1>9
  <1> QED BY <1>10, <1>11, Zenon DEF SC!Reversible, Anchors, there, back

\* Below whatever is there in one revision only is a topmost such declaration,
\* which is reported.
LEMMA TopmostAbove ==
    ASSUME NEW names, NEW here, NEW there, NEW k \in DOMAIN here \ DOMAIN there,
           \A l \in DOMAIN here : here[l].id \in Seq(names) \ {<<>>}
    PROVE  \E e \in Topmost(here, there) : \E n \in 1..Len(here[k].id) : e.id = SubSeq(here[k].id, 1, n)
  <1> DEFINE changed == {here[l] : l \in DOMAIN here \ DOMAIN there}
             id == here[k].id
             X == {n \in 1..Len(id) : \E e \in changed : e.id = SubSeq(id, 1, n)}
  <1>1. id \in Seq(names) /\ id # <<>> /\ here[k] \in changed
    OBVIOUS
  <1>2. Len(id) \in Nat /\ Len(id) >= 1
    BY <1>1, EmptySeq, LenProperties
  <1>3. SubSeq(id, 1, Len(id)) = id
    BY <1>1, SubSeqFull
  <1> HIDE DEF id, changed
  <1>4. X \subseteq Nat /\ X # {}
    <2>1. Len(id) \in X
      BY <1>1, <1>2, <1>3 DEF id
    <2> QED BY <2>1, <1>2
  <1>5. PICK n \in X : \A m \in X : n <= m
    <2> HIDE DEF X
    <2> QED BY <1>4, SmallestOf
  <1>6. PICK e \in changed : e.id = SubSeq(id, 1, n)
    BY <1>5
  <1>7. n \in 1..Len(id) /\ n \in Nat /\ n >= 1
    BY <1>2, <1>5
  <1>8. Len(e.id) = n
    BY <1>1, <1>6, <1>7, SubSeqProperties, <1>2
  <1>9. ASSUME SC!HasAncestor(e, changed) PROVE FALSE
    <2>1. PICK f \in changed, m \in 1..(Len(e.id) - 1) : f.id = SubSeq(e.id, 1, m)
      BY <1>9 DEF SC!HasAncestor
    <2>2. m \in 1..Len(id) /\ m < n /\ m \in 1..n
      BY <1>2, <1>7, <1>8, <2>1
    <2>3. SubSeq(SubSeq(id, 1, n), 1, m) = SubSeq(id, 1, m)
      BY <1>1, <1>2, <1>7, <2>2, SubSeqOfSubSeq
    <2>4. m \in X
      BY <1>6, <2>1, <2>2, <2>3
    <2> QED BY <1>5, <1>7, <2>2, <2>4
  <1> QED BY <1>6, <1>7, <1>9 DEF Topmost, changed, id

\* What may not differ in a declaration both revisions have.
SameDeclaration(d, e) ==
    /\ d.id = e.id /\ d.kind = e.kind /\ d.sig = e.sig /\ d.public = e.public
    /\ d.kind = "function" => d.body = e.body

\* A declaration that is not reported as changed has not changed.
LEMMA NoUnitNoChange ==
    ASSUME NEW b, NEW a, SC!ChangedUnits(b, a) = {}, NEW k \in DOMAIN b \cap DOMAIN a
    PROVE  b[k].sig = a[k].sig /\ b[k].public = a[k].public /\ (b[k].kind = "function" => b[k].body = a[k].body)
  <1> DEFINE common == DOMAIN b \cap DOMAIN a
             shape(l) == b[l].sig # a[l].sig \/ b[l].public # a[l].public
             body(l) == b[l].kind = "function" /\ b[l].body # a[l].body
  <1>1. SC!ChangedUnits(b, a) =
          {ChangeOf(b[l].id, SC!SignatureKind(b[l], a[l])) : l \in {c \in common : shape(c)}}
            \cup {ChangeOf(b[l].id, "function_body") : l \in {c \in common : ~shape(c) /\ body(c)}}
    BY DEF SC!ChangedUnits, ChangeOf
  <1>2. ~shape(k) /\ ~body(k)
    <2> HIDE DEF common, shape, body
    <2>1. k \in common
      BY DEF common
    <2> QED BY <1>1, <2>1
  <1> QED BY <1>2

PlainList(s) ==
    \A i, j \in DOMAIN s : i # j => SC!Base(s[i]) # SC!Base(s[j]) \/ s[i].sig # s[j].sig

\* When nothing is reported, each declaration has a counterpart in the other revision.
LEMMA CounterpartFound ==
    ASSUME NEW x, NEW y, Listed(x), ~Marked(x), Listed(y), ~Marked(y), PlainList(x),
           DOMAIN SC!Identity(x, y) = DOMAIN SC!Identity(y, x),
           SC!ChangedUnits(SC!Identity(x, y), SC!Identity(y, x)) = {}, NEW i \in DOMAIN x
    PROVE  \E j \in DOMAIN y : SameDeclaration(x[i], y[j])
  <1> DEFINE X == SC!Identity(x, y)
             Y == SC!Identity(y, x)
             base == SC!Base(x[i])
  <1>1. i \in SC!Distinct(x, base)
    <2>1. PICK n \in Nat : DOMAIN x = 1..n
      BY DEF Listed
    <2>2. \A j \in 1..(i - 1) : j \in DOMAIN x /\ j # i
      BY <2>1
    <2>3. \A j \in 1..(i - 1) : ~(SC!Base(x[j]) = base /\ x[j].sig = x[i].sig)
      BY <2>2 DEF PlainList
    <2> QED BY <2>3 DEF SC!Distinct
  <1>2. x[i].sig \in SC!Signatures(x, base)
    BY <1>1 DEF SC!Signatures
  <1> HIDE DEF X, Y
  <1>3. CASE x[i].sig \in SC!Signatures(y, base)
    <2> DEFINE k == <<base, x[i].sig>>
    <2>1. k \in DOMAIN X /\ k \in DOMAIN Y
      BY <1>2, <1>3, KeyOfMatch DEF X, Y
    <2>2. k[1] = base /\ k[2] = x[i].sig /\ k[2] # "*"
      BY DEF Marked
    <2> HIDE DEF k, base
    <2>3. PICK m \in SC!Distinct(x, k[1]) : X[k] = x[m] /\ (IF k[2] = "*" THEN m \in SC!OnlyIn(x, y, k[1]) ELSE x[m].sig = k[2])
      BY <2>1, ValueOfKey DEF X
    <2>4. PICK j \in SC!Distinct(y, k[1]) : Y[k] = y[j] /\ (IF k[2] = "*" THEN j \in SC!OnlyIn(y, x, k[1]) ELSE y[j].sig = k[2])
      BY <2>1, ValueOfKey DEF Y
    <2>5. m = i
      BY <1>1, <2>2, <2>3, DistinctOnce
    <2>6. SC!Base(x[i]) = base /\ SC!Base(y[j]) = base /\ j \in DOMAIN y
      BY <1>1, <2>2, <2>4, DistinctOf
    <2>7. X[k].sig = Y[k].sig /\ X[k].public = Y[k].public /\ (X[k].kind = "function" => X[k].body = Y[k].body)
      BY <2>1, NoUnitNoChange DEF X, Y
    <2>8. x[i].id = y[j].id /\ x[i].kind = y[j].kind
      BY <2>6 DEF SC!Base
    <2> QED BY <2>3, <2>4, <2>5, <2>6, <2>7, <2>8 DEF SameDeclaration
  <1>4. CASE x[i].sig \notin SC!Signatures(y, base)
    <2> DEFINE k == <<base, "*">>
    <2>1. i \in SC!OnlyIn(x, y, base)
      BY <1>1, <1>4 DEF SC!OnlyIn
    <2>2. k \in DOMAIN X /\ k \in DOMAIN Y
      BY <2>1, KeyOfRest DEF X, Y
    <2>3. k[1] = base /\ k[2] = "*"
      OBVIOUS
    <2> HIDE DEF k, base
    <2>4. PICK m \in SC!Distinct(x, k[1]) : X[k] = x[m] /\ (IF k[2] = "*" THEN m \in SC!OnlyIn(x, y, k[1]) ELSE x[m].sig = k[2])
      BY <2>2, ValueOfKey DEF X
    <2>5. PICK j \in SC!Distinct(y, k[1]) : Y[k] = y[j]
      BY <2>2, ValueOfKey DEF Y
    <2>6. X[k].sig \notin SC!Signatures(y, base)
      BY <2>3, <2>4 DEF SC!OnlyIn
    <2>7. Y[k].sig \in SC!Signatures(y, base)
      BY <2>3, <2>5 DEF SC!Signatures
    <2>8. X[k].sig = Y[k].sig
      BY <2>2, NoUnitNoChange DEF X, Y
    <2> QED BY <2>6, <2>7, <2>8
  <1> QED BY <1>3, <1>4

\* What a reader sees of a declaration.
Seen(d) == [[d EXCEPT !.body = IF d.kind = "function" THEN @ ELSE ""] EXCEPT !.additive = FALSE]

BodySeen(kind, body) == IF kind = "function" THEN body ELSE ""

Unmarked == FALSE
Declaration(i, k, s, b, p, a, r) ==
    [id |-> i, kind |-> k, sig |-> s, body |-> b, public |-> p, additive |-> a, reexport |-> r]

\* The fields a reader sees.
LEMMA SeenIs ==
    \A i, k, s, b, p, a, r :
        Seen(Declaration(i, k, s, b, p, a, r)) = Declaration(i, k, s, BodySeen(k, b), p, Unmarked, r)
  <1> TAKE i, k, s, b, p, a, r
  <1> DEFINE x == [id |-> i, kind |-> k, sig |-> s, body |-> b, public |-> p, additive |-> a, reexport |-> r]
             v == IF x.kind = "function" THEN x.body ELSE ""
  <1>1. Seen(x) = [[x EXCEPT !.body = v] EXCEPT !.additive = FALSE]
    BY Zenon DEF Seen
  <1>2. v = BodySeen(k, b)
    BY DEF BodySeen
  <1> HIDE DEF v
  <1> DEFINE y == [x EXCEPT !.body = v]
  <1>3. y = [id |-> i, kind |-> k, sig |-> s, body |-> v, public |-> p, additive |-> a, reexport |-> r]
    OBVIOUS
  <1>4. Seen(x) = [y EXCEPT !.additive = FALSE]
    BY Zenon, <1>1
  <1>5. [y EXCEPT !.additive = FALSE]
          = [id |-> i, kind |-> k, sig |-> s, body |-> v, public |-> p, additive |-> FALSE, reexport |-> r]
    <2> HIDE DEF y
    <2>1. ASSUME NEW f
          PROVE  [y EXCEPT !.additive = f]
                   = [id |-> i, kind |-> k, sig |-> s, body |-> v, public |-> p, additive |-> f, reexport |-> r]
      BY <1>3
    <2> QED BY Zenon, <2>1
  <1> QED BY Zenon, <1>2, <1>4, <1>5 DEF Declaration, Unmarked

\* Declarations without a difference that is reported look the same.
LEMMA SeenAlike ==
    ASSUME NEW names, NEW kinds, NEW sigs, NEW bodies,
           NEW d \in DeclarationsOver(names, kinds, sigs, bodies), NEW e \in DeclarationsOver(names, kinds, sigs, bodies),
           SameDeclaration(d, e), d.reexport = e.reexport
    PROVE  Seen(d) = Seen(e)
  <1>1. ASSUME NEW x \in DeclarationsOver(names, kinds, sigs, bodies)
        PROVE  Seen(x) = Declaration(x.id, x.kind, x.sig, BodySeen(x.kind, x.body), x.public, Unmarked, x.reexport)
    <2>1. x = Declaration(x.id, x.kind, x.sig, x.body, x.public, x.additive, x.reexport)
      BY DEF DeclarationsOver, Declaration
    <2> QED BY <2>1, SeenIs
  <1>2. BodySeen(d.kind, d.body) = BodySeen(e.kind, e.body)
    BY DEF SameDeclaration, BodySeen
  <1> QED BY <1>1, <1>2 DEF SameDeclaration

\* The declarations of a surface, without the mark that only the kind of an
\* addition depends on.
AsSeen(surface) == {[d EXCEPT !.additive = FALSE] : d \in surface}

\* The surface of a revision, seen from its declarations.
LEMMA SurfaceOf ==
    ASSUME NEW names, NEW kinds, NEW sigs, NEW bodies, NEW r,
           SC!Decls(r) \in Seq(DeclarationsOver(names, kinds, sigs, bodies))
    PROVE  /\ AsSeen(SC!Surface(r)) = {Seen(SC!Decls(r)[i]) : i \in DOMAIN SC!Decls(r)}
           /\ \A i \in DOMAIN SC!Decls(r) : \E d \in SC!Surface(r) :
                 d.id = SC!Decls(r)[i].id /\ d.public = SC!Decls(r)[i].public /\ d.reexport = SC!Decls(r)[i].reexport
           /\ \A d \in SC!Surface(r) : \E i \in DOMAIN SC!Decls(r) :
                 d.id = SC!Decls(r)[i].id /\ d.public = SC!Decls(r)[i].public /\ d.reexport = SC!Decls(r)[i].reexport
  <1> DEFINE s == SC!Decls(r)
             D == DeclarationsOver(names, kinds, sigs, bodies)
             cut(d) == [d EXCEPT !.body = IF d.kind = "function" THEN @ ELSE ""]
  <1>1. SC!Surface(r) = {cut(s[i]) : i \in DOMAIN s}
    BY DEF SC!Surface
  <1>2. \A i \in DOMAIN s : s[i] \in D
    OBVIOUS
  <1>3. \A d \in D : cut(d).id = d.id /\ cut(d).public = d.public /\ cut(d).reexport = d.reexport
    BY DEF DeclarationsOver
  <1>4. \A d : Seen(d) = [cut(d) EXCEPT !.additive = FALSE]
    BY DEF Seen
  <1> HIDE DEF cut, s, D
  <1>5. AsSeen(SC!Surface(r)) = {Seen(s[i]) : i \in DOMAIN s}
    BY <1>1, <1>4 DEF AsSeen
  <1>6. ASSUME NEW i \in DOMAIN s
        PROVE  \E d \in SC!Surface(r) : d.id = s[i].id /\ d.public = s[i].public /\ d.reexport = s[i].reexport
    <2>1. cut(s[i]) \in SC!Surface(r)
      BY <1>1
    <2> QED BY <1>2, <1>3, <2>1
  <1>7. ASSUME NEW d \in SC!Surface(r)
        PROVE  \E i \in DOMAIN s : d.id = s[i].id /\ d.public = s[i].public /\ d.reexport = s[i].reexport
    <2>1. PICK i \in DOMAIN s : d = cut(s[i])
      BY <1>1
    <2> QED BY <1>2, <1>3, <2>1
  <1> QED BY <1>5, <1>6, <1>7 DEF s

\* An answer of comments only comes from no change of a declaration.
LEMMA CosmeticUnchanged ==
    ASSUME NoAnswerApart, NEW before, NEW after, SC!Analyze(before, after) = SC!Cosmetic
    PROVE  /\ SC!AddedOrRemoved(Sides(after, before), Sides(before, after), "add") = {}
           /\ SC!AddedOrRemoved(Sides(before, after), Sides(after, before), "remove") = {}
           /\ SC!ChangedUnits(Sides(before, after), Sides(after, before)) = {}
  <1> DEFINE S == SC!Cosmetic
  <1>1. S = {ChangeOf(<<"file">>, "comment_whitespace")}
    BY DEF SC!Cosmetic, ChangeOf
  <1>2. \A c \in S : c = [anchor |-> c.anchor, kind |-> c.kind] /\ c.kind = "comment_whitespace"
    BY <1>1, ChangeIs
  <1> HIDE DEF S
  <1>3. S # Absent /\ S # {}
    BY <1>1, <1>2 DEF NoAnswerApart
  <1>4. PICK kind : SC!Analyze(before, after) = IF Incomparable(before, after) THEN Absent
                                                ELSE IF Changes(before, after) # {} THEN Changes(before, after)
                                                ELSE {[anchor |-> <<"file">>, kind |-> kind]}
    BY AnalysisIs
  <1>5. SC!Analyze(before, after) = S
    BY DEF S
  <1>6. Changes(before, after) = {}
    <2> SUFFICES ASSUME Changes(before, after) # {} PROVE FALSE
      OBVIOUS
    <2>1. Changes(before, after) = S
      BY <1>3, <1>4, <1>5
    <2>2. PICK c \in S : TRUE
      BY <1>3
    <2> QED BY <1>2, <2>1, <2>2, ChangesAre
  <1> QED BY <1>6 DEF Changes

\* A change of what a file declares is never called one of comments only
\* (analyzeSemanticChanges), in files without re-exports and without two declarations of one
\* identity and signature.
THEOREM CosmeticIsCosmetic ==
    ASSUME NoAnswerApart, NEW names, NEW kinds, NEW sigs, NEW bodies, "*" \notin sigs, NEW before, NEW after,
           SC!Decls(before) \in Seq(DeclarationsOver(names, kinds, sigs, bodies)),
           SC!Decls(after) \in Seq(DeclarationsOver(names, kinds, sigs, bodies))
    PROVE  SC!NeverSilent(before, after)
  <1> DEFINE D == DeclarationsOver(names, kinds, sigs, bodies)
             p == SC!Decls(before)
             q == SC!Decls(after)
             b == SC!Normalized(p, q)
             a == SC!Normalized(q, p)
             B == SC!Identity(b, a)
             A == SC!Identity(a, b)
  <1> SUFFICES ASSUME SC!Plain(before), SC!Plain(after),
                      \A d \in SC!Surface(before) \cup SC!Surface(after) : ~d.reexport,
                      SC!Analyze(before, after) = SC!Cosmetic
               PROVE  AsSeen(SC!Surface(before)) = AsSeen(SC!Surface(after))
    BY DEF SC!NeverSilent, AsSeen
  <1>1. (\A i \in DOMAIN p : p[i] \in D /\ ~p[i].reexport) /\ (\A j \in DOMAIN q : q[j] \in D /\ ~q[j].reexport)
    <2>1. (\A i \in DOMAIN p : p[i] \in D) /\ (\A j \in DOMAIN q : q[j] \in D)
      OBVIOUS
    <2>2. \A i \in DOMAIN p : ~p[i].reexport
      BY SurfaceOf
    <2>3. \A j \in DOMAIN q : ~q[j].reexport
      BY SurfaceOf
    <2> QED BY <2>1, <2>2, <2>3
  <1>2. /\ DOMAIN b = DOMAIN p /\ Listed(b) /\ ~Marked(b) /\ \A i \in DOMAIN p : b[i] = p[i]
        /\ DOMAIN a = DOMAIN q /\ Listed(a) /\ ~Marked(a) /\ \A j \in DOMAIN q : a[j] = q[j]
    BY <1>1, NormalizedIs
  <1>3. PlainList(b) /\ PlainList(a)
    <2>1. \A i, j \in DOMAIN p : i # j => SC!Base(p[i]) # SC!Base(p[j]) \/ p[i].sig # p[j].sig
      BY DEF SC!Plain
    <2>2. \A i, j \in DOMAIN q : i # j => SC!Base(q[i]) # SC!Base(q[j]) \/ q[i].sig # q[j].sig
      BY DEF SC!Plain
    <2> HIDE DEF b, a, p, q
    <2> QED BY <1>2, <2>1, <2>2 DEF PlainList
  <1>4. /\ SC!AddedOrRemoved(A, B, "add") = {} /\ SC!AddedOrRemoved(B, A, "remove") = {}
        /\ SC!ChangedUnits(B, A) = {} /\ Paired(B, A)
    BY CosmeticUnchanged, SidesPaired DEF Sides
  <1> HIDE DEF b, a
  <1>5. \A k \in DOMAIN B : B[k].id \in Seq(names) \ {<<>>}
    <2> SUFFICES ASSUME NEW k \in DOMAIN B PROVE B[k].id \in Seq(names) \ {<<>>}
      OBVIOUS
    <2>1. PICK i \in SC!Distinct(b, k[1]) : B[k] = b[i]
      BY <1>2, ValueOfKey
    <2>2. i \in DOMAIN p /\ b[i] \in D
      BY <1>1, <1>2, DistinctOf
    <2> QED BY <2>1, <2>2 DEF DeclarationsOver
  <1>6. \A k \in DOMAIN A : A[k].id \in Seq(names) \ {<<>>}
    <2> SUFFICES ASSUME NEW k \in DOMAIN A PROVE A[k].id \in Seq(names) \ {<<>>}
      OBVIOUS
    <2>1. PICK i \in SC!Distinct(a, k[1]) : A[k] = a[i]
      BY <1>2, ValueOfKey
    <2>2. i \in DOMAIN q /\ a[i] \in D
      BY <1>1, <1>2, DistinctOf
    <2> QED BY <2>1, <2>2 DEF DeclarationsOver
  <1> HIDE DEF A, B
  <1>7. DOMAIN B = DOMAIN A
    <2>1. ASSUME NEW k \in DOMAIN B \ DOMAIN A PROVE FALSE
      <3>1. Topmost(B, A) # {}
        BY <1>5, TopmostAbove
      <3> QED BY <1>4, <3>1, AddedAre
    <2>2. ASSUME NEW k \in DOMAIN A \ DOMAIN B PROVE FALSE
      <3>1. Topmost(A, B) # {}
        BY <1>6, TopmostAbove
      <3> QED BY <1>4, <3>1, AddedAre
    <2> QED BY <2>1, <2>2
  <1>8. SC!ChangedUnits(A, B) = {}
    <2>1. Anchors(SC!ChangedUnits(A, B)) = Anchors(SC!ChangedUnits(B, A))
      BY <1>4, UnitAnchors
    <2> QED BY <1>4, <2>1 DEF Anchors
  <1>9. \A i \in DOMAIN p : \E j \in DOMAIN q : Seen(p[i]) = Seen(q[j])
    <2> SUFFICES ASSUME NEW i \in DOMAIN p PROVE \E j \in DOMAIN q : Seen(p[i]) = Seen(q[j])
      OBVIOUS
    <2>1. PICK j \in DOMAIN a : SameDeclaration(b[i], a[j])
      BY <1>2, <1>3, <1>4, <1>7, CounterpartFound DEF A, B
    <2>2. SameDeclaration(p[i], q[j]) /\ j \in DOMAIN q /\ p[i] \in D /\ q[j] \in D
      BY <1>1, <1>2, <2>1
    <2>3. p[i].reexport = q[j].reexport
      BY <1>1, <2>2 DEF DeclarationsOver
    <2> HIDE DEF p, q
    <2> QED BY <2>2, <2>3, SeenAlike
  <1>10. \A j \in DOMAIN q : \E i \in DOMAIN p : Seen(q[j]) = Seen(p[i])
    <2> SUFFICES ASSUME NEW j \in DOMAIN q PROVE \E i \in DOMAIN p : Seen(q[j]) = Seen(p[i])
      OBVIOUS
    <2>1. PICK i \in DOMAIN b : SameDeclaration(a[j], b[i])
      BY <1>2, <1>3, <1>7, <1>8, CounterpartFound DEF A, B
    <2>2. SameDeclaration(q[j], p[i]) /\ i \in DOMAIN p /\ p[i] \in D /\ q[j] \in D
      BY <1>1, <1>2, <2>1
    <2>3. p[i].reexport = q[j].reexport
      BY <1>1, <2>2 DEF DeclarationsOver
    <2> HIDE DEF p, q
    <2> QED BY <2>2, <2>3, SeenAlike
  <1>11. {Seen(p[i]) : i \in DOMAIN p} = {Seen(q[j]) : j \in DOMAIN q}
    <2> HIDE DEF p, q
    <2> QED BY <1>9, <1>10
  <1>12. AsSeen(SC!Surface(before)) = {Seen(p[i]) : i \in DOMAIN p}
    BY SurfaceOf
  <1>13. AsSeen(SC!Surface(after)) = {Seen(q[j]) : j \in DOMAIN q}
    BY SurfaceOf
  <1> QED BY <1>11, <1>12, <1>13

\* A declaration whose name is gone, public like all it belonged to, is reported as a change
\* of the public contract, there or at one of these (analyzeSemanticChanges).
THEOREM RemovalsAreReported ==
    ASSUME NEW names, NEW kinds, NEW sigs, NEW bodies, "*" \notin sigs, NEW before, NEW after,
           SC!Decls(before) \in Seq(DeclarationsOver(names, kinds, sigs, bodies)),
           SC!Decls(after) \in Seq(DeclarationsOver(names, kinds, sigs, bodies))
    PROVE  SC!RemovalIsPublic(before, after)
  <1> DEFINE D == DeclarationsOver(names, kinds, sigs, bodies)
             p == SC!Decls(before)
             q == SC!Decls(after)
             b == SC!Normalized(p, q)
             a == SC!Normalized(q, p)
             B == SC!Identity(b, a)
             A == SC!Identity(a, b)
             above(d) == {SubSeq(d.id, 1, n) : n \in 1..Len(d.id)}
  <1> SUFFICES ASSUME SC!Analyze(before, after) # Absent, NEW d \in SC!Surface(before),
                      \A e \in SC!Surface(after) : e.id # d.id,
                      \A e \in SC!Surface(before) : e.id \in above(d) => e.public
               PROVE  \E c \in SC!Analyze(before, after) : c.anchor \in above(d) /\ c.kind \in SC!PublicKinds
    BY DEF SC!RemovalIsPublic
  <1>1. PICK i \in DOMAIN p : d.id = p[i].id
    BY SurfaceOf
  <1>2. /\ \A j \in DOMAIN q : q[j].id # d.id
        /\ \A j \in DOMAIN p : p[j].id \in above(d) => p[j].public
    <2>1. ASSUME NEW j \in DOMAIN q PROVE q[j].id # d.id
      <3>1. PICK e \in SC!Surface(after) : e.id = q[j].id
        BY SurfaceOf
      <3> QED BY <3>1
    <2>2. ASSUME NEW j \in DOMAIN p, p[j].id \in above(d) PROVE p[j].public
      <3>1. PICK e \in SC!Surface(before) : e.id = p[j].id /\ e.public = p[j].public
        BY SurfaceOf
      <3> HIDE DEF above
      <3> QED BY <2>2, <3>1
    <2> QED BY <2>1, <2>2
  <1>3. /\ DOMAIN b = DOMAIN p /\ Listed(b) /\ ~Marked(b)
        /\ \A j \in DOMAIN p : b[j] \in D /\ b[j].id = p[j].id /\ b[j].public = p[j].public
        /\ DOMAIN a = DOMAIN q /\ Listed(a) /\ ~Marked(a)
        /\ \A j \in DOMAIN q : a[j].id = q[j].id
    BY NormalizedIs
  <1>4. Sides(before, after) = B /\ Sides(after, before) = A
    BY DEF Sides
  <1> HIDE DEF b, a, p, q
  <1> DEFINE base == SC!Base(b[i])
             k == <<base, "*">>
  <1>5. \A j \in DOMAIN a : SC!Base(a[j]) # base
    BY <1>1, <1>2, <1>3 DEF SC!Base
  <1>6. k \in DOMAIN B \ DOMAIN A
    <2>1. SC!Signatures(a, base) = {} /\ SC!Distinct(a, base) = {}
      BY <1>5, DistinctOf DEF SC!Signatures
    <2>2. PICK j \in SC!Distinct(b, base) : TRUE
      BY <1>1, <1>3, DistinctFound
    <2>3. SC!OnlyIn(b, a, base) # {}
      BY <2>1, <2>2 DEF SC!OnlyIn
    <2>4. k \in DOMAIN B
      BY <2>3, KeyOfRest
    <2>5. k[1] = base /\ k[2] = "*"
      OBVIOUS
    <2> HIDE DEF k, base
    <2>6. ASSUME k \in DOMAIN A PROVE FALSE
      <3>1. SC!OnlyIn(a, b, base) # {}
        BY <1>3, <2>5, <2>6, KeysAre
      <3> QED BY <2>1, <3>1 DEF SC!OnlyIn
    <2> QED BY <2>4, <2>6
  <1>7. \A l \in DOMAIN B : \E j \in DOMAIN p : B[l] = b[j]
    <2> SUFFICES ASSUME NEW l \in DOMAIN B PROVE \E j \in DOMAIN p : B[l] = b[j]
      OBVIOUS
    <2>1. PICK j \in SC!Distinct(b, l[1]) : B[l] = b[j]
      BY <1>3, ValueOfKey
    <2> QED BY <1>3, <2>1, DistinctOf
  <1>8. \A l \in DOMAIN B : B[l].id \in Seq(names) \ {<<>>}
    BY <1>3, <1>7 DEF DeclarationsOver
  <1>9. B[k].id = d.id
    <2>1. B[k].id = k[1][1]
      BY <1>3, <1>6, ValueOfBase
    <2>2. k[1][1] = b[i].id
      BY DEF SC!Base
    <2> QED BY <1>1, <1>3, <2>1, <2>2
  <1> HIDE DEF A, B, k
  <1>10. PICK e \in Topmost(B, A), n \in 1..Len(B[k].id) : e.id = SubSeq(B[k].id, 1, n)
    BY <1>6, <1>8, TopmostAbove
  <1>11. e.id \in above(d)
    BY <1>9, <1>10
  <1>12. e.public
    <2>1. PICK l \in DOMAIN B : e = B[l]
      BY DEF Topmost
    <2>2. PICK j \in DOMAIN p : e = b[j]
      BY <1>7, <2>1
    <2> HIDE DEF above
    <2> QED BY <1>2, <1>3, <1>11, <2>2
  <1> DEFINE c == ChangeOf(e.id, SC!DeclarationKind(e, "remove"))
  <1>13. c \in SC!AddedOrRemoved(B, A, "remove") /\ c.anchor = e.id /\ c.kind = SC!DeclarationKind(e, "remove")
    BY AddedAre, ChangeIs
  <1>14. SC!DeclarationKind(e, "remove") \in SC!PublicKinds
    BY <1>12 DEF SC!DeclarationKind, SC!PublicKinds
  <1> HIDE DEF c, above
  <1>15. c \in Changes(before, after)
    BY <1>4, <1>13 DEF Changes
  <1>16. PICK kind : SC!Analyze(before, after) = IF Incomparable(before, after) THEN Absent
                                                 ELSE IF Changes(before, after) # {} THEN Changes(before, after)
                                                 ELSE {[anchor |-> <<"file">>, kind |-> kind]}
    BY AnalysisIs
  <1>17. c \in SC!Analyze(before, after)
    BY <1>15, <1>16
  <1> QED BY <1>11, <1>13, <1>14, <1>17
=============================================================================
