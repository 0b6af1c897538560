---------------------------- MODULE SymbolEvidence ----------------------------
(***************************************************************************)
(* What the tool believes about the reach of a changed symbol: which       *)
(* providers are asked and about which files (SymbolUseServiceLive.ts,     *)
(* requestPolicy.ts, symbolHygiene.ts, diff.ts of the command line), the   *)
(* calibration samples and profiles a project keeps (symbolCalibration.ts, *)
(* JsonSymbolCalibrationStore.ts), the evidence they support               *)
(* (symbolScopeShadowEvidence.ts, symbolScopeMetric.ts) and what a symbol  *)
(* lacks to be admitted to it (symbolScopeAdmission.ts).                   *)
(*                                                                         *)
(* A fact is a declaration [file, name, kind, refs, public] a provider     *)
(* found, with the files that refer to it.  A pair report compares the     *)
(* facts of two revisions; its pairs are those of ChangeSets.Pairs, with   *)
(* the facts they were made from.  Numbers a metric multiplies the         *)
(* consumer count with are only good or bad.                               *)
(***************************************************************************)
EXTENDS Naturals, Sequences, FiniteSets

CONSTANT None    \* what is not there: a report, a fact, a provider

---------------------------------------------------------------------------
(* Asking the providers *)

\* symbolUseRequestPolicy: --semantic, or a language no language server is
\* needed for.
Requested(languages, semantic, compiled) == semantic \/ languages \cap compiled # {}

\* prefilterStaticBoundEmpty: a file nobody imports in the baseline is not
\* asked about, unless another way to use it is left open.  metrics is the
\* baseline: files to [inDegree, imports, production, dir].
KeptProfile(files, metrics, implicit, go, f) ==
    \/ f \notin DOMAIN metrics
    \/ metrics[f].inDegree > 0
    \/ Cardinality(files) > 1 \/ implicit # {}
    \/ /\ f \in go
       /\ Cardinality({g \in DOMAIN metrics \cap go :
                          metrics[g].production /\ metrics[g].dir = metrics[f].dir}) > 1
Prefilter(files, metrics, implicit, go) ==
    {f \in files : KeptProfile(files, metrics, implicit, go, f)}

\* staticConsumerFilesFor: the files whose imports name one of them.
StaticConsumers(files, metrics) == {g \in DOMAIN metrics : metrics[g].imports \cap files # {}}

\* requiredToolchainsAvailable: an unknown tool is not available.
Usable(provider, tools) == provider.needs \subseteq tools

\* SymbolUseServiceLive: the reports of the usable providers, and an empty
\* one for each language none of them covers.
Collect(languages, providers, tools) ==
    LET usable == {p \in providers : p.languages \cap languages # {} /\ Usable(p, tools)}
        covered == UNION {p.languages : p \in usable}
    IN  {[language |-> x[1], provider |-> x[2].id] : x \in
            {y \in languages \X usable : y[1] \in y[2].languages}}
          \cup {[language |-> l, provider |-> None] : l \in languages \ covered}

---------------------------------------------------------------------------
(* Samples *)

\* symbolUseDeclarationFamily
Family(kind) == CASE kind = "class" -> "type"
                  [] kind = "property" -> "property"
                  [] OTHER -> "callable"

IdentityOf(f) == <<f.file, f.kind, f.name>>

\* The pair of an identity, None when it was not observed.
PairOf(report, id) ==
    LET found == {p \in report.pairs : p.identity = id}
    IN  IF found = {} THEN None ELSE CHOOSE p \in found : TRUE

DeclarationFamily(report, id) ==
    LET p == PairOf(report, id)
        families == {Family(f.kind) : f \in {p.before, p.after} \ {None}}
    IN  IF p = None \/ Cardinality(families) # 1
        THEN "unknown" ELSE CHOOSE x \in families : TRUE

ObservationFor(report, id) ==
    LET p == PairOf(report, id)
    IN  CASE p = None -> "unavailable"
          [] p # None /\ p.status \in {"added", "removed"} -> "rejected"
          [] OTHER -> p.status

Complete(r) == /\ r # None
               /\ r.availability = "available"
               /\ r.declarations = "complete" /\ r.references = "complete"

\* coverageAvailable
CoverageAvailable(report) ==
    report.availability = "available" /\ Complete(report.before) /\ Complete(report.after)

ProvidersOf(report) == {r.provider : r \in {report.before, report.after} \ {None}}

\* createSymbolCalibrationSample.  The fingerprint of a population is the set
\* of its files.
Sample(obs) ==
    LET report == obs.report
        family == DeclarationFamily(report, obs.identity)
        observed == ObservationFor(report, obs.identity)
        providers == ProvidersOf(report)
        sound == /\ report.files # {} /\ family # "unknown" /\ Cardinality(providers) <= 1
                 /\ CoverageAvailable(report) /\ observed \in {"matched", "rejected"}
    IN  [id |-> obs.id, language |-> report.language,
         provider |-> IF Cardinality(providers) = 1 THEN CHOOSE x \in providers : TRUE ELSE None,
         family |-> family, files |-> report.files,
         expected |-> obs.expected, observed |-> observed,
         availability |-> IF sound THEN "available"
                          ELSE IF report.availability = "unavailable" THEN "unavailable" ELSE "partial"]

---------------------------------------------------------------------------
(* Profiles *)

\* What samples must share: the identity of a profile.
Scope(x) == [language |-> x.language, provider |-> x.provider, family |-> x.family, files |-> x.files]

Confirmed(samples, outcome) ==
    {i \in DOMAIN samples : samples[i].expected = outcome /\ samples[i].observed = outcome}

\* buildSymbolCalibrationProfile.  Its id hashes the scope and the sample ids.
Profile(samples) ==
    LET sound ==
          /\ samples # <<>>
          /\ \A i, j \in DOMAIN samples : i # j => samples[i].id # samples[j].id
          /\ \A i \in DOMAIN samples :
                LET s == samples[i]
                IN  /\ Scope(s) = Scope(samples[1]) /\ s.family # "unknown"
                    /\ s.availability = "available" /\ s.observed = s.expected
          /\ Confirmed(samples, "matched") # {} /\ Confirmed(samples, "rejected") # {}
        all(a) == \A i \in DOMAIN samples : samples[i].availability = a
        availability == CASE samples = <<>> -> "unavailable"
                          [] samples # <<>> /\ sound -> "available"
                          [] samples # <<>> /\ ~sound ->
                               IF all("unavailable") THEN "unavailable" ELSE "partial"
    IN  [scope |-> IF samples = <<>> THEN None ELSE Scope(samples[1]),
         ids |-> {samples[i].id : i \in DOMAIN samples},
         availability |-> availability, eligible |-> availability = "available"]

\* recordSymbolCalibrationProfile with the store of
\* JsonSymbolCalibrationStore.ts: one file per id; nothing is ever removed.
\* A stored profile is read as it is: parseSymbolCalibrationProfile checks
\* the fields and not whether the samples support them.
SameId(p, q) == p.scope = q.scope /\ p.ids = q.ids
Record(store, observations) ==
    LET p == Profile([i \in DOMAIN observations |-> Sample(observations[i])])
    IN  {q \in store : ~SameId(p, q)} \cup {p}

---------------------------------------------------------------------------
(* Shadow evidence *)

\* evidenceAvailability of a set of reasons, each "unavailable" or "partial".
AvailabilityOf(reasons) == IF reasons = {} THEN "available"
                           ELSE IF reasons = {"unavailable"} THEN "unavailable" ELSE "partial"

Why(condition, reason) == IF condition THEN {reason} ELSE {}

\* selectedFact: a removed declaration is judged by the older revision.
SelectedFact(p) == CASE p.status = "removed" -> p.before
                     [] p.status \in {"matched", "added"} -> p.after
                     [] OTHER -> None
SelectedReport(report, p) == IF p.status = "removed" THEN report.before ELSE report.after
OtherReport(report, p) == IF p.status = "removed" THEN report.after ELSE report.before

\* profileFor: the one eligible profile of the scope.
ProfileFor(profiles, scope) ==
    LET matches == {p \in profiles : p.eligible /\ p.scope = scope}
    IN  IF Cardinality(matches) = 1 THEN CHOOSE p \in matches : TRUE ELSE None

\* providerReasons
ProviderReasons(report, selected, other) ==
    LET both == {selected, other} \ {None}
        covered(r) == r # None /\ r.declarations = "complete" /\ r.references = "complete"
    IN  Why(report.availability # "available", report.availability)
          \cup Why(None \in {selected, other}, "unavailable")
          \cup ({r.availability : r \in both} \ {"available"})
          \cup Why(~covered(selected) \/ ~covered(other), "partial")
          \cup Why(Cardinality({r.provider : r \in both}) > 1, "partial")

\* computeSymbolScopeMetric: consumers are counted only for eligible input.
Metric(fact, source, input, profile, scope) ==
    LET sound == /\ input.numbers = "good" /\ profile.eligible /\ profile.scope = scope
                 /\ fact.public # "unknown"
                 /\ source.declarations = "complete" /\ source.references = "complete"
        hopeless == scope.files = {} \/ (profile.availability = "unavailable" /\ ~profile.eligible)
    IN  [availability |-> IF sound THEN "available" ELSE IF hopeless THEN "unavailable" ELSE "partial",
         consumers |-> IF sound THEN Cardinality(fact.refs \ {fact.file}) ELSE None,
         imported |-> IF sound THEN Cardinality(input.consumers \ {fact.file}) ELSE None]

Withheld(availability) == [availability |-> availability, metric |-> None]

\* evaluateItem
EvaluateItem(report, input, profiles) ==
    LET p == PairOf(report, input.identity)
        fact == IF p = None THEN None ELSE SelectedFact(p)
        source == SelectedReport(report, p)
        scope == [language |-> report.language, provider |-> source.provider,
                  family |-> Family(fact.kind), files |-> report.files]
        profile == IF source = None THEN None ELSE ProfileFor(profiles, scope)
        reasons == ProviderReasons(report, source, OtherReport(report, p))
                     \cup Why(input.numbers # "good" \/ fact.public = "unknown", "partial")
                     \cup Why(profile = None, IF source = None THEN "unavailable" ELSE "partial")
        metric == Metric(fact, source, input, profile, scope)
    IN  CASE p = None -> Withheld("unavailable")
          [] p # None /\ fact = None -> Withheld("partial")
          [] p # None /\ fact # None ->
               IF reasons # {} THEN Withheld(AvailabilityOf(reasons))
               ELSE [availability |-> metric.availability, metric |-> metric]

\* evaluateSymbolScopeShadowEvidence: one identity may be asked about once.
Evaluate(report, inputs, profiles) ==
    LET twice(i) == \E j \in DOMAIN inputs : j # i /\ inputs[j].identity = inputs[i].identity
        items == [i \in DOMAIN inputs |->
                     IF twice(i) THEN Withheld("partial") ELSE EvaluateItem(report, inputs[i], profiles)]
        found(all) == CASE "available" \in all -> "available"
                        [] all = {"unavailable"} -> "unavailable"
                        [] OTHER -> "partial"
        capped(a) == IF a = "available" /\ report.availability # "available" THEN "partial" ELSE a
        answer(list) == [items |-> list, availability |-> capped(found({list[i].availability : i \in DOMAIN list}))]
    IN  answer(items)

---------------------------------------------------------------------------
(* Admission *)

\* versionPairEvidenceFor: the first report that compares both revisions of
\* the language decides; declarations are sought by file and name alone.
PairEvidence(pairReport, language, file, name) ==
    LET usable == /\ pairReport # None /\ pairReport.language = language
                  /\ pairReport.availability = "available"
                  /\ pairReport.before # None /\ pairReport.after # None
        named(f) == f # None /\ f.file = file /\ f.name = name
        before == usable /\ \E f \in pairReport.before.facts : named(f)
    IN  [before |-> before,
         stable |-> before /\ \E p \in pairReport.pairs : p.status = "matched" /\ named(p.after),
         common |-> usable /\ file \in pairReport.files]

\* governanceAvailability
Governed(coverage) == IF coverage = "complete" THEN "available" ELSE coverage

\* availabilityOf of domain/symbolScopeAdmission.ts.
All(availabilities) == IF availabilities = {"available"} THEN "available"
                       ELSE IF availabilities = {"unavailable"} THEN "unavailable" ELSE "partial"

\* assessSymbolScopeAdmissions for a fact of a report.
Admission(report, fact, pairReport, calibrated) ==
    LET e == PairEvidence(pairReport, report.language, fact.file, fact.name)
    IN  All({IF e.before THEN "available" ELSE "unavailable",
             IF e.stable THEN "available" ELSE "partial",
             Governed(report.references),
             IF fact.public # "unknown" THEN "available" ELSE "unavailable",
             IF e.common THEN "available" ELSE "unavailable",
             IF calibrated THEN "available" ELSE "partial"})

\* diffCommand: the version pair is the one of the last commit, taken when a
\* TypeScript or JavaScript file changed; any stored file counts as
\* calibration (hasDurableCalibrationSamples).
DiffAdmission(report, fact, scripted, head, store) ==
    LET pairs == IF scripted /\ head.availability = "available" THEN head ELSE None
    IN  Admission(report, fact, pairs, store # {})

---------------------------------------------------------------------------
(* Laws *)

FactsOf(r) == IF r = None THEN {} ELSE r.facts
Identities(r) == {IdentityOf(f) : f \in FactsOf(r)}

\* Every language that was asked for is answered for, and an answer without a
\* provider is never mixed with one of a provider.
EveryLanguageAnswered(languages, providers, tools) ==
    LET reports == Collect(languages, providers, tools)
    IN  /\ {r.language : r \in reports} = languages
        /\ \A r, q \in reports : r.language = q.language => (r.provider = None) = (q.provider = None)

\* A file that is not asked about has no consumer the baseline knows of, in a
\* baseline whose in-degrees count its own imports.
NothingFilteredAway(files, metrics, implicit, go) ==
    (\A f \in DOMAIN metrics : metrics[f].inDegree = Cardinality(StaticConsumers({f}, metrics))) =>
        \A f \in files \ Prefilter(files, metrics, implicit, go) :
            /\ StaticConsumers({f}, metrics) = {}
            /\ \A e \in implicit : e[2] # f
            /\ \A g \in DOMAIN metrics \ {f} :
                  {f, g} \subseteq go /\ metrics[g].production /\ metrics[f].production
                    => metrics[g].dir # metrics[f].dir

\* An eligible profile rests on what providers saw completely in both
\* revisions of one population: on a declaration that survived, on one that
\* did not, and on no expectation that was disappointed.
EligibleEarned(observations) ==
    LET seen(o) == <<o.identity \in Identities(o.report.before), o.identity \in Identities(o.report.after)>>
    IN  \A p \in {Profile([i \in DOMAIN observations |-> Sample(observations[i])])} : p.eligible =>
          /\ \A i \in DOMAIN observations :
                LET o == observations[i]
                IN  /\ Complete(o.report.before) /\ Complete(o.report.after)
                    /\ o.report.before.provider = o.report.after.provider
                    /\ o.report.files = p.scope.files /\ p.scope.files # {}
                    /\ (o.expected = "matched") = (seen(o) = <<TRUE, TRUE>>)
          /\ \E i, j \in DOMAIN observations :
                seen(observations[i]) = <<TRUE, TRUE>> /\ seen(observations[j]) # <<TRUE, TRUE>>

\* The order the samples are given in decides nothing.
OrderFree(a, b) == Profile(<<Sample(a), Sample(b)>>).eligible = Profile(<<Sample(b), Sample(a)>>).eligible

\* A number is only given for a declaration that is unique in its revision,
\* seen completely in both, under one calibration of exactly this scope; then
\* it counts the other files that refer to it.
EvidenceBacked(report, inputs, store) ==
    \A answer \in {Evaluate(report, inputs, store)},
       calibrations \in {{p \in store : p.eligible /\ p.scope.files = report.files /\ p.scope.language = report.language}} :
        \A i \in DOMAIN inputs : \A item \in {answer.items[i]} :
            item.availability = "available" =>
              /\ Complete(report.before) /\ Complete(report.after)
              /\ calibrations # {}
              /\ \A p, q \in calibrations :
                    /\ p.scope = q.scope /\ p.scope.provider = report.before.provider
                    /\ p.scope.family = Family(inputs[i].identity[2])
                    => p = q
              /\ \E f \in report.before.facts \cup report.after.facts :
                    IdentityOf(f) = inputs[i].identity /\ item.metric.consumers = Cardinality(f.refs \ {f.file})

\* Recording more samples may withhold what was available (two profiles of
\* one scope), it never changes the number.
MoreSamplesSafe(store, observations, report, input) ==
    \A old \in {EvaluateItem(report, input, store)}, new \in {EvaluateItem(report, input, Record(store, observations))} :
        old.availability = "available" /\ new.availability = "available" => old = new

\* A symbol is only admitted when the version pair knows a declaration of its
\* name in both revisions, in a file of both.
AdmittedIsKnown(report, fact, scripted, head, store) ==
    DiffAdmission(report, fact, scripted, head, store) = "available" =>
        /\ fact.file \in head.files
        /\ \A r \in {head.before, head.after} :
              \E f \in FactsOf(r) : f.file = fact.file /\ f.name = fact.name
        /\ report.references = "complete" /\ store # {}
=============================================================================
