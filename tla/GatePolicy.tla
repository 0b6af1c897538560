----------------------------- MODULE GatePolicy -----------------------------
(***************************************************************************)
(* What `openarch gate` decides from a project configuration and a         *)
(* baseline index (application/governance/gateApp.ts, gate.ts,             *)
(* gateConfig.ts, calibrationGate.ts, application/baselineCompatibility.ts *)
(* and domain/structuralPolicy.ts).  The gate changes no state: it is an   *)
(* operator of the configuration and the index it reads.                   *)
(*                                                                         *)
(* A rule is a record [name, on, over, level]: on "branch" it compares     *)
(* max_func_branch with the threshold over, on "burden" crl_local (in per  *)
(* cent), on "retired" it names a metric rules may not use.                *)
(***************************************************************************)
EXTENDS StructuralMetrics

CONSTANTS
    Files, Langs,
    LangOf,          \* the language the parser confirms for a file
    DefaultKind,     \* classifyFileKind
    DerivedKind,     \* layoutDerivedFileKindRules, None where it has no rule
    DefaultWeight    \* DEFAULT_CRL_STATE_WEIGHTS

FileKinds == {"production", "test", "generated", "auxiliary"}
Contract == "metric-contract-v5"

---------------------------------------------------------------------------
(* Configuration *)

\* A config.yml: the declared languages, the file_kinds rules (None: no rule
\* for the file), the policies or None, the legacy rules, the weight, the
\* shapes fingerprint ("" when undeclared, "bad" when unusable), and whether
\* the policies parse.
Invalid(cfg) == ~cfg.valid \/ cfg.shapes = "bad"

\* classifyFileKindWithPolicy: project rules, derived rules, the default.
KindIn(cfg, layout, f) ==
    IF cfg.kinds[f] # None THEN cfg.kinds[f]
    ELSE IF layout /\ DerivedKind[f] # None THEN DerivedKind[f]
    ELSE DefaultKind[f]

\* createAnalysisScope(...).fingerprint over the given file-kind rules.
\* scan passes readProjectFileKindRules (derived rules included), the gate
\* configuration only the rules of config.yml.
ScopeOf(cfg, layout) == [langs |-> cfg.langs, kinds |-> cfg.kinds, derived |-> layout]
ScanScope(cfg, layout) == ScopeOf(cfg, layout)
GateScope(cfg) == ScopeOf(cfg, FALSE)

InScope(langs, f) == LangOf[f] \in langs

\* readGateConfig: explicit policies, or one global policy of the legacy
\* rules; loadGateConfig answers no policy for an invalid file.
PoliciesOf(cfg) ==
    IF Invalid(cfg) THEN {}
    ELSE IF cfg.policies # None THEN cfg.policies
    ELSE {[id |-> "legacy-global", langs |-> cfg.langs, include |-> Files,
           mode |-> "enforce", rules |-> cfg.rules, weight |-> cfg.weight]}

Explicit(cfg) == ~Invalid(cfg) /\ cfg.policies # None
WeightOf(cfg) == IF Invalid(cfg) THEN DefaultWeight ELSE cfg.weight

\* participatesInPopulation(kind, "production-governance"); an entry of an
\* older baseline has no kind and counts as production.
Production(kind) == kind \in {"production", None}

\* matchesStructuralPolicy
Matches(policy, f, lang) == lang \in policy.langs /\ f \in policy.include
PoliciesFor(policies, f, lang) == {p \in policies : Matches(p, f, lang)}

---------------------------------------------------------------------------
(* Evaluation *)

\* A mutant of Incompatibility: the scope fingerprint is not compared.
IncompatibilityNoScope(idx, scope, shapes) ==
    IF idx = None THEN "missing_baseline_index"
    ELSE IF ~idx.complete THEN "baseline_scope_incompatible"
    ELSE IF idx.shapes # shapes THEN "baseline_shapes_incompatible"
    ELSE IF ~idx.identity THEN "missing_snapshot_identity"
    ELSE IF idx.contract # Contract THEN "metric_contract_incompatible"
    ELSE None

\* baselineCompatibilityOf: the first reason the index cannot be used, else
\* None.  An index without a shapes fingerprint was written with "".
Incompatibility(idx, scope, shapes) ==
    IF idx = None THEN "missing_baseline_index"
    ELSE IF idx.scope # scope \/ ~idx.complete THEN "baseline_scope_incompatible"
    ELSE IF idx.shapes # shapes THEN "baseline_shapes_incompatible"
    ELSE IF ~idx.identity THEN "missing_snapshot_identity"
    ELSE IF idx.contract # Contract THEN "metric_contract_incompatible"
    ELSE None

\* evaluateRules on one file with the given denominator.
Triggers(rules, entry, p, weight) ==
    {r \in rules :
        \/ r.on = "branch" /\ entry.branch > r.over
        \/ r.on = "burden" /\ Above(LocalBurden(entry.branch, p, weight), r.over)}

\* gatePerFile over the selected entries: the pairs (file, rule) that fire.
GatePerFile(policy, entries, selected, p) ==
    {t \in selected \X policy.rules : t[2] \in Triggers(policy.rules, entries[t[1]], p, policy.weight)}

\* calibrationShiftCandidates and calibrationThresholdShifts: the files whose
\* own inputs did not change, whose burden differs between the sealed and the
\* observed denominator, and on which the burden rules disagree.
ShiftedFiles(policy, entries, selected, state) ==
    LET sealed == GateProfile(state)
        seen == IF state = None THEN None ELSE state.current
        burden(f, profile) == LocalBurden(entries[f].branch, ProfileP95(profile), policy.weight)
        rules == {r \in policy.rules : r.on = "burden"}
    IN  IF ~Comparable(sealed, seen) THEN {}
        ELSE {f \in selected :
                /\ entries[f].prev = entries[f].branch
                /\ ~SameBurden(burden(f, sealed), burden(f, seen))
                /\ Triggers(rules, entries[f], ProfileP95(sealed), policy.weight)
                     # Triggers(rules, entries[f], ProfileP95(seen), policy.weight)}

\* The production entries the gate judges, and those a policy selects.
Judged(cfg, idx) ==
    {f \in DOMAIN idx.entries : Production(idx.entries[f].kind) /\ InScope(cfg.langs, f)}
Selected(policy, idx, judged) ==
    {f \in judged : Matches(policy, f, idx.entries[f].lang)}

CalibrationFor(cfg, idx, policy) ==
    IF ~Explicit(cfg) THEN idx.calibration
    ELSE IF policy.id \in DOMAIN idx.policyCalibrations
         THEN idx.policyCalibrations[policy.id] ELSE None

\* The denominator: the gate profile, else for the legacy policy meta.p95.
Denominator(cfg, idx, policy) ==
    LET profile == GateProfile(CalibrationFor(cfg, idx, policy))
    IN  IF profile # None THEN ProfileP95(profile)
        ELSE IF Explicit(cfg) THEN None ELSE idx.p95

Unavailable(reason) ==
    [verdict |-> "UNAVAILABLE", reason |-> reason, triggered |-> {}, shifts |-> {}]

\* The part of gateApp that checks the metrics before it judges.
MetricsReason(cfg, idx) ==
    LET judged == Judged(cfg, idx)
        policies == PoliciesOf(cfg)
        matching(f) == Cardinality(PoliciesFor(policies, f, idx.entries[f].lang))
        enforced == {p \in policies : p.mode = "enforce" /\ Selected(p, idx, judged) # {}}
    IN  IF \E f \in judged : idx.entries[f].branch = None THEN "missing_max_function_branch"
        ELSE IF \E f \in judged : idx.entries[f].lang = None THEN "missing_metric_language"
        ELSE IF \/ ~Explicit(cfg) /\ Cardinality({idx.entries[f].lang : f \in judged}) > 1
                \/ \E f \in judged : matching(f) = 0
             THEN "unconfigured_language_policy"
        ELSE IF \E f \in judged : matching(f) > 1 THEN "ambiguous_structural_policy"
        ELSE IF \E p \in enforced : Denominator(cfg, idx, p) = None THEN "policy_calibration_missing"
        ELSE None

\* gateApp up to the verdict.  An invalid configuration rejects the promise
\* of loadGateConfigStrict, which no handler of gateApp catches.
GateReason(cfg, idx) ==
    IF cfg.langs = {} THEN "languages_empty"
    ELSE IF Incompatibility(idx, GateScope(cfg), cfg.shapes) # None
         THEN Incompatibility(idx, GateScope(cfg), cfg.shapes)
    ELSE IF \E p \in PoliciesOf(cfg) : \E r \in p.rules : r.on = "retired"
         THEN "unsupported_gate_metric"
    ELSE MetricsReason(cfg, idx)

GateApp(cfg, idx) ==
    IF Invalid(cfg) THEN [Unavailable("defect") EXCEPT !.verdict = "DEFECT"]
    ELSE IF GateReason(cfg, idx) # None THEN Unavailable(GateReason(cfg, idx))
    ELSE LET judged == Judged(cfg, idx)
             enforced == {p \in PoliciesOf(cfg) : p.mode = "enforce"}
             fired == UNION {GatePerFile(p, idx.entries, Selected(p, idx, judged),
                                         Denominator(cfg, idx, p)) :
                               p \in {q \in enforced : Selected(q, idx, judged) # {}}}
             shifts == UNION {ShiftedFiles(p, idx.entries, Selected(p, idx, judged),
                                           CalibrationFor(cfg, idx, p)) : p \in enforced}
         IN  [verdict |-> IF \E t \in fired : t[2].level = "block" THEN "BLOCK"
                          ELSE IF fired # {} THEN "WARN" ELSE "PASS",
              reason |-> None, triggered |-> fired, shifts |-> shifts]
=============================================================================
