----------------------------- MODULE ChangeImpact -----------------------------
(***************************************************************************)
(* What a diff says about the reach of a change: symbol evidence and its   *)
(* gaps, change surfaces, the impact plan and the questions put to the     *)
(* symbol-use providers (application/changeSurface.ts, impactPlan.ts,      *)
(* domain/changeSurfaceImpact.ts), the before side a file is compared with *)
(* (application/diff.ts, diffImpact.ts, domain/mrDiagnosis.ts), the graph  *)
(* it is measured on (application/diffGraph.ts), and the groups of similar *)
(* definition surfaces (application/definitionSurface*.ts).                *)
(*                                                                         *)
(* A change is a record [type, leaf, kind]: its anchor names a             *)
(* declaration, an import, or a whole file.  Scores are products of        *)
(* logarithms and weights and are left out; what is kept is what they are  *)
(* computed from.                                                          *)
(***************************************************************************)
EXTENDS Naturals, Sequences, FiniteSets

CONSTANT None

PublicKinds == {"interface_add_remove", "class_add_remove", "public_method_sig", "field_add_remove"}
DependencyKinds == {"dependency_add", "dependency_remove"}

---------------------------------------------------------------------------
(* Symbol evidence *)

\* declarationChanges, and the anchors that stand for the whole file.
DeclarationChanges(profile) == {c \in profile.changes : c.type # "import"}
WholeFile(c) == c.type \in {"file", "manual"}

\* staticConsumersFor: the importers of the file, without the file itself.
StaticConsumers(profile, importers) == importers[profile.file] \ {profile.file}

\* referencesReliable: the provider says so, or nothing speaks against it.
ReferencesReliable(report) ==
    IF report.incomplete # None THEN ~report.incomplete
    ELSE report.references # "unavailable" /\ ~report.reasonSaysIncomplete

\* symbolConsumersByAnchor.
AnchorConsumers(profile, report, c) ==
    UNION {f.consumers : f \in {g \in report.facts : /\ g.file = profile.file
                                                     /\ WholeFile(c) \/ g.name = c.leaf}}
        \ {profile.file}

ReportFor(profile, reports) ==
    IF \E r \in reports : r.language = profile.language
    THEN CHOOSE r \in reports : r.language = profile.language ELSE None

\* symbolEvidenceDossiersForProfiles, the evidence of one profile.
Evidence(profile, reports, importers) ==
    LET static == StaticConsumers(profile, importers)
        report == ReportFor(profile, reports)
        symbol == UNION {AnchorConsumers(profile, report, c) : c \in DeclarationChanges(profile)}
    IN  IF static = {} THEN "static-bound-empty"
        ELSE IF report = None THEN "provider-unavailable"
        ELSE IF report.availability = "unavailable" THEN "provider-unavailable"
        ELSE IF symbol # {} /\ symbol \cap static = {} THEN "provider-unavailable"
        ELSE IF ~ReferencesReliable(report) /\ symbol = {} THEN "provider-unavailable"
        ELSE "symbol"

Dossiers(profiles, reports, importers) ==
    {[profile |-> p, evidence |-> Evidence(p, reports, importers)] :
        p \in {q \in profiles : DeclarationChanges(q) # {}}}

\* The gap of a dossier: anything but symbol evidence.
Gap(d) == d.evidence # "symbol"

\* computeChangeSurfaceForProfiles and computeChangeSurfaceImpact: one
\* contribution for each declaration change, marked when no consumer was
\* confirmed; nothing for a file whose provider failed.
Surface(d, reports) ==
    {[file |-> d.profile.file, change |-> c,
      consumers |-> IF d.evidence = "symbol"
                    THEN AnchorConsumers(d.profile, ReportFor(d.profile, reports), c) ELSE {},
      unconfirmed |-> /\ d.evidence = "symbol"
                      /\ AnchorConsumers(d.profile, ReportFor(d.profile, reports), c) = {}] :
        c \in DeclarationChanges(d.profile)}
Surfaces(profiles, reports, importers) ==
    UNION {Surface(d, reports) : d \in {e \in Dossiers(profiles, reports, importers) :
                                            e.evidence # "provider-unavailable"}}

\* unavailableLanguagesFromGaps.
UnavailableLanguages(profiles, reports, importers) ==
    {d.profile.language : d \in {e \in Dossiers(profiles, reports, importers) :
                                    e.evidence = "provider-unavailable"}}

\* changedSymbolNames.
ChangedNames(profile) == {c.leaf : c \in {x \in profile.changes : x.type = "decl"}}

\* symbolUseDemandForProfiles: the names of a file to ask about; no names
\* means the whole file, and only a comment is not worth a question.
Demand(profiles) ==
    {[file |-> p.file, names |-> ChangedNames(p)] :
        p \in {q \in profiles : \/ ChangedNames(q) # {}
                                \/ \E c \in q.changes : c.type = "manual" \/ c.kind # "comment_whitespace"}}

\* buildImpactPlan with symbolConsumersFor and actionsFor: an item for each
\* file whose contract or dependencies change.
PlanItem(profile, reports, importers) ==
    LET kinds == {c.kind : c \in profile.changes}
        names == ChangedNames(profile)
        facts == UNION {{f \in r.facts : f.file = profile.file /\ (names = {} \/ f.name \in names)} : r \in reports}
    IN  [file |-> profile.file,
         public |-> kinds \cap PublicKinds # {}, dependency |-> kinds \cap DependencyKinds # {},
         direct |-> importers[profile.file],
         symbols |-> UNION {f.consumers : f \in facts} \ {profile.file},
         gap |-> \E d \in Dossiers({profile}, reports, importers) : Gap(d),
         actions |-> (IF kinds \cap PublicKinds = {} THEN {}
                      ELSE IF importers[profile.file] # {} THEN {"verify_direct_consumers"}
                      ELSE {"verify_public_contract"})
                     \cup (IF kinds \cap DependencyKinds = {} THEN {} ELSE {"verify_dependency_boundary"})
                     \cup {"run_affected_quality"}]
ImpactPlan(profiles, reports, importers) ==
    {i \in {PlanItem(p, reports, importers) : p \in profiles} : i.public \/ i.dependency}

---------------------------------------------------------------------------
(* The graph and the before side *)

\* rebuildGraph: the edges of the baseline, replaced by the imports of the
\* files parsed now; only production files have edges.
RebuiltEdges(baseline, parsed, production) ==
    [f \in (DOMAIN baseline \cup DOMAIN parsed) \cap production |->
        IF f \in DOMAIN parsed THEN parsed[f] ELSE baseline[f]]

\* resolveSemanticBefore: without a baseline a file without metrics is looked
\* up in git once more.
ResolveBefore(state, coldStart, gitHasIt) ==
    IF coldStart /\ state # "git" /\ gitHasIt THEN "git" ELSE state

\* computeFileImpact, what the diagnosis compares with.
BeforeSource(state, oldEntry, p95) ==
    IF ~p95 THEN "unavailable"
    ELSE IF state \in {"git", "introduced"} THEN state
    ELSE IF oldEntry THEN "baseline"
    ELSE IF state = "unavailable" THEN "unavailable" ELSE "introduced"

\* computeMRDiagnosis: the scope it reports, and whether there are deltas.
Diagnosis(source, p95) ==
    [scope |-> IF source = "introduced" THEN "introduced"
               ELSE IF source = "unavailable" THEN "existing_unavailable" ELSE "existing",
     compared |-> source \in {"git", "baseline"}, normalized |-> source \in {"git", "baseline"} /\ p95]

---------------------------------------------------------------------------
(* Similar definition surfaces *)

\* find: follow the parents to the root (at most all files long).
Root(parent, f) ==
    LET up[n \in 0..Cardinality(DOMAIN parent)] == IF n = 0 THEN f ELSE parent[up[n - 1]]
    IN  up[Cardinality(DOMAIN parent)]

\* union.
UnionOf(parent, l, r) == [parent EXCEPT ![Root(parent, l)] = Root(parent, r)]

\* definitionSurfaceSimilarityGroups: the pairs of files with similar blocks,
\* in the order of the buckets, and the groups of more than one file.
SimilarityGroups(files, pairs) ==
    LET parent[n \in 0..Len(pairs)] ==
            IF n = 0 THEN [f \in files |-> f]
            ELSE UnionOf(parent[n - 1], pairs[n][1], pairs[n][2])
        final == parent[Len(pairs)]
    IN  {g \in {{f \in files : Root(final, f) = Root(final, h)} : h \in files} : Cardinality(g) > 1}

\* languageDefinitionThresholds and definitionSurfaceCandidateMetrics, for
\* one language: strictly above the 95th percentile of both sizes.
P95(sorted) == sorted[LET i == (Len(sorted) * 95) \div 100 IN IF i < Len(sorted) THEN i + 1 ELSE Len(sorted)]
SurfaceCandidates(metrics, declSorted, locSorted) ==
    IF P95(declSorted) = 0 THEN {}
    ELSE {i \in DOMAIN metrics : metrics[i].decl > P95(declSorted) /\ metrics[i].loc > P95(locSorted)}

\* assessDefinitionSurfaceContracts: nothing without an authority in sight; a
\* role file that cannot be read or parsed is reported, not excused.
ContractFindings(entries, contract) ==
    IF ~\E e \in entries : e.path \in contract.authority THEN {}
    ELSE LET authority == CHOOSE e \in entries : e.path \in contract.authority
         IN  {e.path : e \in {x \in entries : /\ x.path \in contract.roles
                                              /\ x.path # authority.path
                                              /\ ~x.foreign
                                              /\ x.broken \/ contract.required \notin x.imports}}

---------------------------------------------------------------------------
(* Laws *)

\* No silent zero: a changed declaration with importers is either confirmed
\* to reach somebody, or marked unconfirmed by a provider whose references
\* are complete, or its file is listed as a gap.
NoSilentZero(profiles, reports, importers) ==
    \A p \in profiles : \A c \in DeclarationChanges(p) :
        \/ \E s \in Surfaces(profiles, reports, importers) :
              /\ s.file = p.file /\ s.change = c
              /\ \/ s.consumers # {}
                 \/ s.unconfirmed /\ StaticConsumers(p, importers) # {}
                      /\ (\/ ReferencesReliable(ReportFor(p, reports))
                          \/ \E t \in Surfaces(profiles, reports, importers) :
                                t.file = p.file /\ t.consumers # {})
        \/ \E d \in Dossiers(profiles, reports, importers) : d.profile = p /\ Gap(d)

\* Symbol evidence never contradicts the import graph altogether: consumers
\* that are reported include an importer of the file.
ConsumersOverlap(profiles, reports, importers) ==
    \A p \in profiles :
        LET all == UNION {s.consumers : s \in {t \in Surfaces(profiles, reports, importers) : t.file = p.file}}
        IN  all # {} => all \cap StaticConsumers(p, importers) # {}

\* What a surface looks up was asked for: every changed declaration is in the
\* demand of its file, or the whole file is.
DemandCovers(profiles) ==
    \A p \in profiles : \A c \in DeclarationChanges(p) :
        c.kind # "comment_whitespace" =>
            \E d \in Demand(profiles) :
                d.file = p.file /\ (d.names = {} \/ c.type # "decl" \/ c.leaf \in d.names)

\* The diagnosis calls a file new only when the report says so, or when
\* neither the report nor the baseline knows it, and it only normalises what
\* it can compare; a file that could not be read is never called new.
NewMeansNew(state, coldStart, gitHasIt, oldEntry, p95) ==
    LET s == ResolveBefore(state, coldStart, gitHasIt)
        d == Diagnosis(BeforeSource(s, oldEntry, p95), p95)
    IN  /\ d.scope = "introduced" => s = "introduced" \/ (s = None /\ ~oldEntry)
        /\ d.normalized => s = "git" \/ oldEntry

\* The groups are the connected components of the similarity, in whatever
\* order the buckets came.
GroupsAreComponents(files, pairs) ==
    LET linked == {<<pairs[i][1], pairs[i][2]>> : i \in DOMAIN pairs}
        near(f) == {f} \cup {g \in files : <<f, g>> \in linked \/ <<g, f>> \in linked}
        comp(f) == LET c[n \in 0..Cardinality(files)] ==
                           IF n = 0 THEN {f} ELSE UNION {near(g) : g \in c[n - 1]}
                   IN  c[Cardinality(files)]
    IN  SimilarityGroups(files, pairs) = {g \in {comp(f) : f \in files} : Cardinality(g) > 1}
=============================================================================
