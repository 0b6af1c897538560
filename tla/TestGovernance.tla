--------------------------- MODULE TestGovernance ---------------------------
(***************************************************************************)
(* openarch test: the collection of test facts by the selected providers,  *)
(* what it covers, the project's policy over the findings and the verdict, *)
(* and the bloat score of the tests (application/testGovernance*.ts,       *)
(* domain/test*.ts, application/testBloatMetrics.ts).                      *)
(***************************************************************************)
EXTENDS Naturals, Sequences, FiniteSets, SequencesExt

CONSTANTS Providers,   \* the providers there are, those of testGovernanceProviders
          None

VARIABLE proc          \* the process of a runner: its child and its answers

---------------------------------------------------------------------------
(* Collection *)

\* A run is a record:
\*   files, baseline       the discovered test files and those of the baseline
\*   known                 whether config.yml can be read
\*   configured, selected  the section test_governance; a sequence of provider ids
\*   supports[p]           the files a provider supports
\*   outcome[f]            what the collection of a file comes to: "ok",
\*                         "malformed" (it throws) or "rejects" (its promise does)
\*   found                 findings, as [file, rule, kind]
\*   runners, scripts      sets of outcomes
\*   scope, shapes         the baseline is of this scope and of these shapes
\*   rules, exempt         the policy: kind -> action, and [rule, file, expired]

\* selectTestGovernanceAdapters
ActiveProviders(run) == SelectSeq(run.selected, LAMBDA p : p \in Providers)
Selected(run) == {ActiveProviders(run)[i] : i \in DOMAIN ActiveProviders(run)}

\* The first active provider that supports a file collects it.
ProviderOf(run, f) ==
    LET able == {i \in DOMAIN ActiveProviders(run) : f \in run.supports[ActiveProviders(run)[i]]}
    IN  IF able = {} THEN None ELSE ActiveProviders(run)[Min(able)]

Unrecognized(run) == {f \in run.files : ProviderOf(run, f) = None}
Candidates(run, p) == {f \in run.files : ProviderOf(run, f) = p}
Unbaselined(run) == run.files \ run.baseline

\* A rejected promise is a defect of the effect, which no handler in a
\* generator catches: the whole command dies of it.
Dies(run) == \E f \in run.files \ Unrecognized(run) : run.outcome[f] = "rejects"

\* A file that throws while its result is read was counted as handled before.
Handled(run) == run.files \ Unrecognized(run)
Failed(run) == {f \in Handled(run) : run.outcome[f] = "malformed"}

\* collectProviderFacts: provider findings, marked when their file is new.
Collected(run) ==
    {[file |-> x.file, rule |-> x.rule, kind |-> x.kind, unbaselined |-> x.file \in Unbaselined(run)] :
        x \in {y \in run.found : y.file \in Handled(run) \ Failed(run)}}

\* testCaseSpanFacts
CaseSpans(run) ==
    IF Selected(run) = {} \/ run.files = {} THEN "unavailable"
    ELSE IF Unrecognized(run) = {} /\ Failed(run) = {} THEN "available" ELSE "partial"

---------------------------------------------------------------------------
(* Coverage *)

Reasons(run) ==
    {r \in {"baseline_scope_incompatible", "baseline_shapes_incompatible",
            "test_files_missing_from_baseline", "test_files_unrecognized",
            "provider_collection_failed"} :
        CASE r = "baseline_scope_incompatible" -> ~run.scope
          [] r = "baseline_shapes_incompatible" -> run.scope /\ ~run.shapes
          [] r = "test_files_missing_from_baseline" -> Unbaselined(run) # {}
          [] r = "test_files_unrecognized" -> Unrecognized(run) # {}
          [] OTHER -> Failed(run) # {}}

Configured(run) == run.known /\ run.configured

\* assessTestGovernanceCoverage: the first assessment that applies.
Coverage(run) ==
    CASE ~Configured(run) -> [status |-> "not_configured", reasons |-> {"test_governance_not_configured"}]
      [] Configured(run) /\ run.files = {} ->
           [status |-> "unavailable", reasons |-> {"no_test_files_discovered"}]
      [] Configured(run) /\ run.files # {} /\ Selected(run) = {} ->
           [status |-> "unavailable", reasons |-> {"no_active_provider"}]
      [] OTHER ->
           [status |-> IF Handled(run) = {} THEN "unavailable"
                       ELSE IF Reasons(run) # {} THEN "partial" ELSE "available",
            reasons |-> Reasons(run)]

\* assessTestProviderCoverage, of one provider.
ProviderCoverage(run, p) ==
    LET mine == Candidates(run, p)
    IN  IF mine = {} THEN "not_applicable"
        ELSE IF mine \cap (Failed(run) \cup Unbaselined(run)) # {} THEN "partial" ELSE "available"

---------------------------------------------------------------------------
(* Policy and verdict *)

\* exemptionApplies
Exempt(run, x) ==
    \E e \in run.exempt : e.rule = x.rule /\ e.file \in {None, x.file} /\ ~e.expired

\* The action by kind comes before the action by rule; without one a finding is
\* left to review.
Action(run, x) ==
    IF x.kind \in DOMAIN run.rules THEN run.rules[x.kind]
    ELSE IF x.rule \in DOMAIN run.rules THEN run.rules[x.rule] ELSE "review"

\* The scripts that need test-case spans run only when these are available.
ScriptRuns(run, s) == s.needs => CaseSpans(run) = "available"
AllFindings(run) ==
    Collected(run) \cup
      {[file |-> x.file, rule |-> x.rule, kind |-> x.kind, unbaselined |-> FALSE] :
          x \in UNION {s.found : s \in {t \in run.scripts : ScriptRuns(run, t) /\ ~t.fails}}}

\* Unknown adapters, an unreadable config.yml or shapes, files whose collection
\* threw, failed runners and failed scripts.
Errors(run) ==
    \/ ~run.known \/ \E i \in DOMAIN run.selected : run.selected[i] \notin Providers
    \/ run.badShapes \/ Failed(run) # {} \/ "failed" \in run.runners
    \/ \E s \in run.scripts : ScriptRuns(run, s) /\ s.fails

\* evaluateTestPolicy
Triggered(run, action) ==
    {x \in AllFindings(run) : ~Exempt(run, x) /\ Action(run, x) = action}
Verdict(run) ==
    IF Errors(run) \/ Triggered(run, "block") # {} THEN "BLOCK"
    ELSE IF Triggered(run, "warn") # {} THEN "WARN" ELSE "PASS"

---------------------------------------------------------------------------
(* Bloat *)

\* What a block of repeated test code is charged as: assertions and the bodies
\* of test cases are not, and a file without evidence is charged as assembly.
BlockKind(evidence, lines) ==
    CASE evidence = None -> "assembly"
      [] evidence # None /\ lines \cap evidence.assertions # {} -> "assertion"
      [] evidence # None /\ lines \cap evidence.assertions = {} /\ evidence.cases # {} ->
           IF lines \cap evidence.cases # {} THEN "case-body" ELSE "assembly"
      [] OTHER -> IF lines \cap evidence.calls # {} THEN "unclassified" ELSE "assembly"

\* indexBlocks: a window of lines every half a window, of every file.
Starts(text, window) ==
    {i \in DOMAIN text : (i - 1) % (window \div 2) = 0 /\ i + window - 1 <= Len(text)}
BlocksOf(texts, window) == UNION {{[file |-> f, start |-> i] : i \in Starts(texts[f], window)} : f \in DOMAIN texts}
BlockText(texts, window, b) == SubSeq(texts[b.file], b.start, b.start + window - 1)

\* repeatedBlocksOf, with equality for similarity.
Repeated(texts, window) ==
    {b \in BlocksOf(texts, window) :
        \E c \in BlocksOf(texts, window) \ {b} : BlockText(texts, window, b) = BlockText(texts, window, c)}

\* chargedSimilarityLines of codeSimilarityBuckets.
ChargedBlocks(texts, evidence, window) ==
    {b \in Repeated(texts, window) :
        BlockKind(evidence[b.file], b.start..(b.start + window - 1)) \in {"assembly", "unclassified"}}

\* fixtureBoilerplateLines: the lines of every call that two files share, and
\* of every block of three calls that occurs twice.
FixtureLines(calls, lines) ==
    LET texts == UNION {Range(calls[f]) : f \in DOMAIN calls}
        shared == {t \in texts : Cardinality({f \in DOMAIN calls : t \in Range(calls[f])}) >= 2}
        sum(S, n(_)) == FoldSet(LAMBDA x, total : total + n(x), 0, S)
        blocks == {b \in (DOMAIN calls) \X (1..10) : b[2] % 2 = 1 /\ b[2] + 2 <= Len(calls[b[1]])}
        three(b) == SubSeq(calls[b[1]], b[2], b[2] + 2)
        twice == {b \in blocks : \E c \in blocks \ {b} : three(b) = three(c)}
    IN  sum(shared, LAMBDA t : lines[t])
          + sum(twice, LAMBDA b : FoldLeft(LAMBDA total, t : total + lines[t], 0, three(b)))

\* sizeDispersion: the largest file against the P95, in per cent.
P95Index(n) == Min({n, (n * 95) \div 100 + 1})
Dispersion(sizes) ==
    IF Len(sizes) <= 5 THEN 100
    ELSE LET p95 == sizes[P95Index(Len(sizes))]
         IN  (100 * sizes[Len(sizes)]) \div (IF p95 = 0 THEN 1 ELSE p95)

\* testBloatMetrics: each factor a weight in tenths, a value and a threshold,
\* or no value; the score in per mille over what is available.
Contribution(p) ==
    IF p.value = None THEN 0
    ELSE p.weight * Min({1000, (1000 * p.value) \div p.threshold})
AvailableWeight(parts) ==
    FoldSet(LAMBDA i, sum : sum + (IF parts[i].value = None THEN 0 ELSE parts[i].weight), 0, DOMAIN parts)

Score(parts) ==
    IF AvailableWeight(parts) = 0 THEN 0
    ELSE FoldSet(LAMBDA i, sum : sum + Contribution(parts[i]), 0, DOMAIN parts) \div AvailableWeight(parts)
Bloated(parts) == Score(parts) > 500

\* Which factors there is a value for: none without files, the growth ratio only
\* with production changes in git's history, and the two that go by patterns
\* only when a language of the files has them.
Available(factor, probe) ==
    /\ probe.files
    /\ factor = "fixture" => probe.fixtureCompiled
    /\ factor = "growth" => probe.git /\ probe.sourceDelta > 0
    /\ factor = "assertion" => probe.expectCompiled /\ probe.weakCompiled /\ probe.expectLines > 0

---------------------------------------------------------------------------
(* The process of a runner *)

NewProcess == [child |-> "running", aborting |-> FALSE, answers |-> <<>>]
ProcessInit == proc = [NewProcess EXCEPT !.child = "none"]
Settled == proc.answers # <<>>
Answer(p, passed, after) == [p EXCEPT !.child = after, !.answers = Append(@, passed)]

SpawnProcess ==
    /\ proc.child = "none" /\ ~Settled
    /\ \/ proc' = NewProcess
       \/ proc' = Answer(proc, FALSE, "none")     \* spawn throws, or reports an error

\* The timer and the caller's signal both end here.
AbortProcess ==
    /\ ~Settled /\ ~proc.aborting /\ proc.child # "none"
    /\ proc' = [proc EXCEPT !.aborting = TRUE]

\* The child is gone: the exit code counts unless the run was aborted.
CloseProcess ==
    /\ proc.child = "running"
    /\ \E code \in {0, 1} :
           proc' = IF proc.aborting THEN [proc EXCEPT !.child = "gone"] ELSE Answer(proc, code = 0, "gone")

\* terminateProcessTree has come to an end, whether or not the child is gone.
TerminatedProcess ==
    /\ proc.aborting /\ ~Settled
    /\ \E after \in {proc.child, "gone"} : proc' = Answer(proc, FALSE, after)

ProcessNext == SpawnProcess \/ AbortProcess \/ CloseProcess \/ TerminatedProcess

\* A run is answered once, and a run that was aborted never passes
\* (runProjectProcess: settled and aborting).
AnsweredOnce == Len(proc.answers) <= 1 /\ (Settled /\ proc.aborting => proc.answers = <<FALSE>>)

\* Every run is answered: the child ends, or the timer goes off and the
\* termination comes to an end (runProjectProcess).
ProcessEnds == [](proc.child = "running" => <>Settled)

---------------------------------------------------------------------------
(* Laws *)

\* openarch test calls its evidence available only when every discovered test
\* file is in the baseline and was read by a provider (assessTestGovernanceCoverage).
AvailableMeansAll(run) ==
    ~Dies(run) /\ Coverage(run).status = "available" =>
        /\ run.files # {} /\ run.files \subseteq run.baseline /\ run.scope /\ run.shapes
        /\ \A f \in run.files : run.outcome[f] = "ok" /\ \E p \in Selected(run) : f \in run.supports[p]

\* The coverage of the run and that of its providers agree
\* (assessTestGovernanceCoverage, assessTestProviderCoverage).
CoverageAgrees(run) ==
    LET all == {ProviderCoverage(run, p) : p \in Selected(run)}
    IN  ~Dies(run) =>
          /\ Coverage(run).status = "available" => all \subseteq {"available", "not_applicable"}
          /\ Coverage(run).status = "partial" /\ run.scope /\ run.shapes /\ Unrecognized(run) = {} => "partial" \in all

\* Scripts see the spans of all test cases or none (testCaseSpanFacts).
SpansHonest(run) ==
    ~Dies(run) /\ CaseSpans(run) = "available" =>
        \A f \in run.files : run.outcome[f] = "ok" /\ ProviderOf(run, f) # None

\* A verdict PASS speaks for every finding: what is not exempted today has no
\* action but review, and nothing that was to be run failed (testGovernance).
PassSpeaksForAll(run) ==
    ~Dies(run) /\ Verdict(run) = "PASS" =>
        /\ \A x \in run.found : ProviderOf(run, x.file) # None =>
               \/ \E e \in run.exempt : e.rule = x.rule /\ ~e.expired /\ e.file \in {None, x.file}
               \/ Action(run, x) = "review"
        /\ "failed" \notin run.runners /\ \A f \in run.files : ProviderOf(run, f) # None => run.outcome[f] = "ok"

\* The score lies between the least and the largest of the available factors:
\* a factor without a value moves it neither way (testBloatMetrics).
ScoreBetween(parts) ==
    LET ratio(i) == Min({1000, (1000 * parts[i].value) \div parts[i].threshold})
        there == {i \in DOMAIN parts : parts[i].value # None}
    IN  there # {} => /\ \E i \in there : ratio(i) <= Score(parts)
                      /\ \E i \in there : Score(parts) <= ratio(i)

\* What is known of a file only ever lowers what its repeated blocks are
\* charged, and without it all of them are (codeSimilarityBuckets).
EvidenceLowers(texts, evidence, window) ==
    LET blind == [f \in DOMAIN texts |-> None]
    IN  /\ ChargedBlocks(texts, evidence, window) \subseteq ChargedBlocks(texts, blind, window)
        /\ ChargedBlocks(texts, blind, window) = Repeated(texts, window)
=============================================================================
