------------------------- MODULE GovernanceCommands -------------------------
(***************************************************************************)
(* A project under governance: people edit its files and its config.yml,   *)
(* `openarch scan` (cli/src/commands/scan.ts, core application/scan.ts,    *)
(* scanIncremental.ts, scanEntries.ts, scanMeta.ts, baselineEntry.ts)      *)
(* rebuilds or updates the baseline index, `openarch gate` and `openarch   *)
(* status` read it.  Editing is not locked out while a scan runs: a scan   *)
(* takes the identity of the sources first, parses them later, and hashes  *)
(* their contents when it has parsed them all.                             *)
(***************************************************************************)
EXTENDS GatePolicy

CONSTANTS
    Contents,     \* what a file may hold: records [branch, imports]
    Configs,      \* the config.yml files people write
    Layouts,      \* whether the project layout derives file-kind rules
    Legacy,       \* older indexes a project may start with
    Partials,     \* the file sets people scan by pattern
    Trees,        \* the projects people start with
    MaxEdits, MaxScans   \* bounds

VARIABLES
    layout,       \* the derived rules apply
    tree,         \* the files on disk: a function from Files, None if absent
    config,       \* config.yml
    index,        \* the published baseline index, None before the first scan
    scan,         \* the running scan, None when there is none
    rebuilt,      \* history: the index stands on a full scan and on updates
                  \* of it that nobody edited during and that knew the config
    edits, scans  \* how often each happened

vars == <<layout, tree, config, index, scan, rebuilt, edits, scans>>

Present == {f \in Files : tree[f] # None}

\* defaultScanPaths / listProjectSourceFiles: the files in scope on disk.
SourceFiles(cfg) == {f \in Present : InScope(cfg.langs, f)}

\* sourceSnapshotSha256 and contentHashesOf: the contents themselves.
SnapshotOf(S) == [f \in S |-> tree[f]]

---------------------------------------------------------------------------
(* What an index records *)

Entry ==
    [kind : FileKinds \cup {None}, lang : Langs \cup {None}, branch : Nat \cup {None},
     alpha : (Nat \X Nat) \cup {None}, inDegree : Nat, imports : SUBSET Files,
     hash : Contents \cup {None}, prev : Nat \cup {None}]
Ids == {"legacy-global"} \cup UNION {{p.id : p \in PoliciesOf(c)} : c \in Configs}

ProfileOK(p) ==
    /\ p = Profile(p.scope, p.weight, p.population)
    /\ DOMAIN p.population \subseteq Files
    /\ \A f \in DOMAIN p.population : p.population[f].branch \in Nat

CalibrationOK(state) ==
    /\ state = [current |-> state.current, previous |-> state.previous, gate |-> state.gate]
    /\ ProfileOK(state.current)
    /\ state.gate = None \/ ProfileOK(state.gate)

\* An older index knows the language of a file or records none, and has no
\* hash of a file whose kind it does not know.
IndexOK(idx) ==
    /\ DOMAIN idx.entries \subseteq Files
    /\ idx.entries \in [DOMAIN idx.entries -> Entry]
    /\ \A f \in DOMAIN idx.entries :
         /\ idx.entries[f].kind = None => idx.entries[f].hash = None
         /\ idx.entries[f].lang \in {None, LangOf[f]}
    /\ idx.p95 \in Int
    /\ idx.calibration = None \/ CalibrationOK(idx.calibration)
    /\ DOMAIN idx.policyCalibrations \subseteq Ids
    /\ \A i \in DOMAIN idx.policyCalibrations : CalibrationOK(idx.policyCalibrations[i])

\* The reasons that ask for a new scan.
RescanReasons ==
    {"missing_baseline_index", "baseline_scope_incompatible", "baseline_shapes_incompatible",
     "missing_snapshot_identity", "metric_contract_incompatible", "missing_max_function_branch",
     "missing_metric_language", "ambiguous_structural_policy", "policy_calibration_missing"}

\* Those that ask for another configuration.
ConfigReasons == {"languages_empty", "unsupported_gate_metric", "unconfigured_language_policy"}

ConfigOK(cfg) ==
    /\ cfg.langs \subseteq Langs
    /\ cfg.kinds \in [Files -> FileKinds \cup {None}]
    /\ cfg.weight \in Nat
    /\ \A p \in PoliciesOf(cfg) : p.weight \in Nat

ASSUME GovernanceAssumption ==
    /\ IsFiniteSet(Files) /\ {MaxDepth, DefaultWeight, MaxEdits, MaxScans} \subseteq Nat
    /\ LangOf \in [Files -> Langs]
    /\ DefaultKind \in [Files -> FileKinds]
    /\ DerivedKind \in [Files -> FileKinds \cup {None}]
    /\ Contents \subseteq [branch : Nat, imports : SUBSET Files]
    /\ \A c \in Configs : ConfigOK(c)
    /\ \A idx \in Legacy : IndexOK(idx)
    /\ Layouts \subseteq BOOLEAN
    /\ Trees \subseteq [Files -> Contents \cup {None}]
    /\ None \notin Int \cup FileKinds \cup Langs \cup Contents \cup Configs
    /\ None \notin RescanReasons \cup ConfigReasons

TypeOK ==
    /\ layout \in BOOLEAN
    /\ tree \in [Files -> Contents \cup {None}]
    /\ config \in Configs
    /\ index # None => IndexOK(index)
    /\ scan # None => scan.step \in {"begun", "parsed"} /\ scan.paths \subseteq Files
    /\ rebuilt \in BOOLEAN /\ edits \in 0..MaxEdits /\ scans \in 0..MaxScans

Init ==
    /\ layout \in Layouts
    /\ tree \in Trees
    /\ config \in Configs
    /\ index \in {None} \cup Legacy
    /\ scan = None /\ rebuilt = FALSE /\ edits = 0 /\ scans = 0

---------------------------------------------------------------------------
(* People *)

Edited ==
    /\ edits < MaxEdits /\ edits' = edits + 1
    /\ scan' = IF scan = None THEN None ELSE [scan EXCEPT !.quiet = FALSE]
    /\ UNCHANGED <<layout, index, rebuilt, scans>>

EditFile(f) ==
    /\ Edited
    /\ \E c \in (Contents \cup {None}) \ {tree[f]} : tree' = [tree EXCEPT ![f] = c]
    /\ UNCHANGED config

EditConfig ==
    /\ Edited
    /\ \E c \in Configs \ {config} : config' = c
    /\ UNCHANGED tree

---------------------------------------------------------------------------
(* scan *)

\* A mutant of ConfigChanged: a changed config.yml does not force a rebuild.
ConfigChangedNever == FALSE

\* The hash of config.yml recorded in the index differs; an index without
\* one cannot tell.
ConfigChanged == index # None /\ index.config # None /\ index.config # config

\* scanCommand: the scan of the whole project, or of the files of a pattern.
ScanBegin(partial, rebuild, seal) ==
    LET paths == IF partial = None THEN SourceFiles(config)
                 ELSE partial \cap SourceFiles(config)
    IN  /\ scan = None /\ scans < MaxScans /\ scans' = scans + 1
        /\ paths # {}
        /\ partial # None => ~rebuild /\ ~seal
        /\ scan' = [step |-> "begun", paths |-> paths, complete |-> partial = None,
                    incremental |-> partial = None /\ ~rebuild /\ ~ConfigChanged,
                    seal |-> seal, config |-> config,
                    source |-> IF partial = None THEN SnapshotOf(paths) ELSE None,
                    parsed |-> None, reused |-> {}, shapes |-> "", quiet |-> TRUE]
        /\ UNCHANGED <<layout, tree, config, index, rebuilt, edits>>

\* The scan releases the write lock and leaves the index as it is.
Ends == scan' = None /\ UNCHANGED <<layout, tree, config, index, rebuilt, edits, scans>>

PreviousEntries == IF index = None THEN <<>> ELSE index.entries
Has(f) == f \in DOMAIN PreviousEntries

\* incrementalChangeSet, over the files of the scan that can be read now.
Changed == {f \in scan.paths \cap Present : ~Has(f) \/ PreviousEntries[f].hash # tree[f]}
Deleted == {f \in DOMAIN PreviousEntries :
              PreviousEntries[f].hash # None /\ f \notin scan.paths \cap Present}

\* prepareIncrementalScan parses the changed files and the recorded consumers
\* of the changed and deleted ones.
ToParse ==
    Changed \cup {g \in DOMAIN PreviousEntries :
                    PreviousEntries[g].imports \cap (Changed \cup Deleted) # {}}

\* Without a recorded hash there is nothing to compare with.
IncrementalHere ==
    /\ scan.incremental /\ DOMAIN PreviousEntries # {}
    /\ \E f \in DOMAIN PreviousEntries : PreviousEntries[f].hash # None

Parsing == IF IncrementalHere THEN ToParse ELSE scan.paths

\* An unusable shapes declaration, or a file that cannot be read, fails the
\* scan and leaves the index as it is.
ScanFails ==
    /\ scan # None /\ scan.step = "begun"
    /\ config.shapes = "bad" \/ Parsing \ Present # {}
    /\ Ends

\* Nothing changed: the scan returns without writing anything.
ScanUnchanged ==
    /\ scan # None /\ scan.step = "begun" /\ config.shapes # "bad"
    /\ IncrementalHere /\ Changed = {} /\ Deleted = {}
    /\ Ends

ScanParse ==
    /\ scan # None /\ scan.step = "begun" /\ config.shapes # "bad"
    /\ ~(IncrementalHere /\ Changed = {} /\ Deleted = {})
    /\ Parsing \subseteq Present
    /\ scan' = [scan EXCEPT !.step = "parsed", !.parsed = SnapshotOf(Parsing),
                            !.incremental = IncrementalHere, !.shapes = config.shapes,
                            !.reused = IF IncrementalHere
                                       THEN DOMAIN PreviousEntries \ (ToParse \cup Deleted)
                                       ELSE {}]
    /\ UNCHANGED <<layout, tree, config, index, rebuilt, edits, scans>>

\* fileKindClassifier of the parsed files; reused entries keep their kind.
Kind(f) == KindIn(scan.config, layout, f)
ParsedProduction == {f \in DOMAIN scan.parsed : Kind(f) = "production"}

\* A full scan draws edges between production files; an incremental one
\* takes the recorded imports of every file it reuses or parsed.
ScanGraph ==
    IF scan.incremental
    THEN BuildGraphFromEdges([f \in scan.reused \cup DOMAIN scan.parsed |->
             IF f \in scan.reused THEN PreviousEntries[f].imports ELSE scan.parsed[f].imports])
    ELSE BuildGraph([f \in ParsedProduction |-> scan.parsed[f].imports])

ProductionCount ==
    Cardinality(ParsedProduction)
      + Cardinality({f \in scan.reused : Production(PreviousEntries[f].kind)})

\* computeEntryForAst and projectBaselineEntry; the content hash is read
\* from the file again after everything was parsed.
ParsedEntry(f) ==
    [kind |-> Kind(f), lang |-> LangOf[f], branch |-> scan.parsed[f].branch,
     alpha |-> IF Kind(f) = "production" THEN <<Reach(ScanGraph, f), ProductionCount>> ELSE None,
     inDegree |-> InDegree(ScanGraph, f), imports |-> scan.parsed[f].imports,
     hash |-> tree[f],
     prev |-> IF Has(f) /\ Kind(f) = "production" THEN PreviousEntries[f].branch ELSE None]

\* computeEntries
NewEntries ==
    [f \in scan.reused \cup DOMAIN scan.parsed |->
        IF f \in DOMAIN scan.parsed THEN ParsedEntry(f) ELSE PreviousEntries[f]]

\* The production population of some files, with what the profile hashes.
PopulationOf(entries, S) ==
    [f \in {g \in S : Production(entries[g].kind)} |->
        [branch |-> IF entries[f].branch = None THEN 0 ELSE entries[f].branch,
         alpha |-> entries[f].alpha]]

PolicyPopulation(entries, policy) ==
    PopulationOf(entries, {f \in DOMAIN entries : Matches(policy, f, entries[f].lang)})

\* A mutant of Ambiguous: overlapping policies are accepted.
AmbiguousNever(entries) == FALSE

Ambiguous(entries) ==
    \E f \in DOMAIN entries :
        /\ Production(entries[f].kind)
        /\ Cardinality(PoliciesFor(PoliciesOf(scan.config), f, entries[f].lang)) > 1

\* computePolicyCalibrations: one epoch for each policy that has files.
PolicyCalibrations(entries, scope) ==
    LET live == {p \in PoliciesOf(scan.config) :
                   DOMAIN PolicyPopulation(entries, p) # {}}
        before(p) == IF index = None THEN None
                     ELSE IF p.id \in DOMAIN index.policyCalibrations
                          THEN index.policyCalibrations[p.id] ELSE None
    IN  [i \in {p.id : p \in live} |->
            LET p == CHOOSE q \in live : q.id = i
            IN  NextCalibration(Profile(<<scope, i>>, p.weight, PolicyPopulation(entries, p)),
                                before(p), scan.seal)]

\* buildScanMeta
NewIndex(entries) ==
    LET scope == ScanScope(scan.config, layout)
        population == PopulationOf(entries, DOMAIN entries)
        observed == Profile(scope, WeightOf(scan.config), population)
    IN  [scope |-> scope, complete |-> scan.complete, shapes |-> scan.shapes,
         contract |-> Contract, identity |-> TRUE,
         source |-> IF scan.complete THEN scan.source ELSE None,
         config |-> IF scan.complete THEN scan.config ELSE None,
         p95 |-> ProfileP95(observed),
         calibration |-> NextCalibration(observed, IF index = None THEN None
                                                   ELSE index.calibration, scan.seal),
         policyCalibrations |-> PolicyCalibrations(entries, scope),
         entries |-> entries]

\* writeBaseline or publishIncrementalEntries.
ScanPublish ==
    /\ scan # None /\ scan.step = "parsed" /\ ~Ambiguous(NewEntries)
    /\ index' = NewIndex(NewEntries)
    /\ rebuilt' = (scan.quiet /\ (scan.incremental => rebuilt /\ index.config # None))
    /\ scan' = None /\ UNCHANGED <<layout, tree, config, edits, scans>>

\* A production file with two policies fails the scan before it writes.
ScanAmbiguous == scan # None /\ scan.step = "parsed" /\ Ambiguous(NewEntries) /\ Ends

Next ==
    \/ \E f \in Files : EditFile(f)
    \/ EditConfig
    \/ \E rebuild, seal \in BOOLEAN : ScanBegin(None, rebuild, seal)
    \/ \E P \in Partials : ScanBegin(P, FALSE, FALSE)
    \/ ScanFails \/ ScanUnchanged \/ ScanParse \/ ScanPublish \/ ScanAmbiguous

Spec == Init /\ [][Next]_vars

---------------------------------------------------------------------------
(* status *)

\* projectGovernanceStatus(...).baseline.freshness: the recorded identity of
\* the sources is compared only under a compatible scope.
Freshness ==
    IF index = None THEN "unknown"
    ELSE IF ~index.complete \/ index.scope # ScanScope(config, layout) THEN "unknown"
    ELSE IF index.source = None THEN "unknown"
    ELSE IF index.source = SnapshotOf(SourceFiles(config)) THEN "current" ELSE "stale"

---------------------------------------------------------------------------
(* Properties *)

\* What a full scan of the tree as it is now would say of the files: which
\* there are, their kinds, branches and imports, and the P95 they give.
AsRescanned ==
    LET now == SourceFiles(config)
        production == {f \in now : KindIn(config, layout, f) = "production"}
    IN  /\ DOMAIN index.entries = now
        /\ \A f \in now : /\ index.entries[f].kind = KindIn(config, layout, f)
                          /\ index.entries[f].branch = tree[f].branch
                          /\ index.entries[f].imports = tree[f].imports
        /\ index.p95 = P95([f \in production |-> tree[f].branch])

\* When `openarch status` calls the baseline current, its entries and its P95
\* are those a rebuild would give, however many incremental scans updated it
\* (scanEntries.ts: the P95 of an incremental scan is that of a full one).
\* Left out are the index that an edit during a scan tore, and the one that
\* was updated without a record of the configuration it was made under.
FreshMeansExact == rebuilt /\ Freshness = "current" => AsRescanned

\* The same without the two exceptions.
FreshAlwaysExact == Freshness = "current" => AsRescanned

\* A scan is enough: the gate never asks for another one of a project whose
\* complete scan was written under the configuration it has.
Scanned == rebuilt /\ index.complete /\ index.config = config
GateReadyAfterScan == Scanned /\ ~layout => GateReason(config, index) \notin RescanReasons

\* projectFiles.ts: classification and the scope fingerprint both take their
\* rules from readProjectFileKindRules, so the layout makes no difference.
GateReadyAnyLayout == Scanned => GateReason(config, index) \notin RescanReasons

\* gateApp never passes judgement by rules for other files: when it gives a
\* verdict, the files it judged are the production files of the configuration
\* it was called with, whatever was edited since the scan.
VerdictFaithful ==
    rebuilt /\ GateApp(config, index).verdict \in {"PASS", "WARN", "BLOCK"} =>
        Judged(config, index) = {f \in DOMAIN index.entries :
            KindIn(config, FALSE, f) = "production" /\ InScope(config.langs, f)}

\* VerdictFaithful in well-typed states, calibrations of known policies included.
VerdictSound == TypeOK /\ VerdictFaithful

\* calibration.ts: only an explicit seal moves the gate epoch.  A scan that
\* does not seal changes nothing in the verdict on a file with the same branch
\* under the same policy, whatever happened to the other files.
FiredOn(idx, f) == {t[2] : t \in {u \in GateApp(config, idx).triggered : u[1] = f}}
Calibrated(idx) ==
    /\ idx # None
    /\ GateReason(config, idx) = None /\ ~Invalid(config)
    /\ \A p \in PoliciesOf(config) : CalibrationFor(config, idx, p) # None
VerdictStable ==
    [][scan # None /\ ~scan.seal /\ Calibrated(index) /\ Calibrated(index') =>
         \A f \in Judged(config, index) \cap Judged(config, index') :
            index.entries[f].branch = index'.entries[f].branch
              => FiredOn(index, f) = FiredOn(index', f)]_vars
=============================================================================
