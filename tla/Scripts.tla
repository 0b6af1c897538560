------------------------------- MODULE Scripts -------------------------------
(***************************************************************************)
(* Project scripts (script-runtime/, staged-analysis/, anti-patterns/,     *)
(* implicit-deps/ and their use cases): the facts a script may ask for,    *)
(* how one is run over its files, the anti-pattern report, the discovery   *)
(* of implicit dependencies and the contract check of `openarch rules`.    *)
(*                                                                         *)
(* Code of a script is what it returns.  A domain of facts has an          *)
(* availability; files are model values.                                   *)
(***************************************************************************)
EXTENDS Naturals, Sequences, FiniteSets, FiniteSetsExt, SequencesExt

CONSTANT None

Domains == {"classification", "structure", "authorities", "bindings", "relations", "change"}

---------------------------------------------------------------------------
(* Facts *)

\* semanticRelationsFor: relations are collected only when a script asks.
RelationsFor(requested, reports) ==
    IF "relations" \notin requested THEN "unavailable"
    ELSE IF "incomplete" \in reports THEN "partial" ELSE "available"

\* invocationBindingsFor: one file that cannot be parsed fails them all.
BindingsFor(requested, files, parses) ==
    IF "bindings" \in requested /\ files \subseteq parses THEN "available" ELSE "unavailable"

\* createProjectFacts, buildFacts: a baseline that could not be read or has none of
\* the files is None; protects maps the ids of authorities to what they protect.
CreateFacts(world, requested) ==
    [of |-> [d \in Domains |->
        CASE d = "structure" -> IF world.baseline = None \/ ~world.comparable THEN "unavailable"
                                ELSE IF world.files \subseteq world.baseline THEN "available" ELSE "partial"
          [] d = "bindings" -> BindingsFor(requested, world.files, world.parses)
          [] d = "relations" -> RelationsFor(requested, world.reports)
          [] d = "change" -> world.change
          [] OTHER -> "available"],
     classified |-> world.files,
     protects |-> [a \in DOMAIN world.protects |-> world.protects[a] \cap world.files]]

\* emptyProjectFacts
NoFacts == [of |-> [d \in Domains |-> "unavailable"], classified |-> {}, protects |-> <<>>]

\* requestedScriptCapabilities: of the scripts that load and ask for a list.
Requested(rules) == UNION {r.requires : r \in {s \in rules : s.loads /\ s.shape # "requires"}}

\* withRuleLocalAuthority: None stands for no authority of the rule's own.
LocalAuthority(facts, authority) ==
    IF authority = None THEN [is |-> "ok", facts |-> facts]
    ELSE IF facts.of["authorities"] # "available" \/ facts.of["classification"] # "available" THEN [is |-> "unavailable"]
    ELSE IF authority.id \in DOMAIN facts.protects THEN [is |-> "error"]
    ELSE [is |-> "ok",
          facts |-> [facts EXCEPT !.protects = [a \in DOMAIN @ \cup {authority.id} |->
                        IF a = authority.id THEN authority.paths \cap facts.classified ELSE @[a]]]]

\* targetRequiredCapabilities
TargetDomains(targets) ==
    IF targets = None THEN {}
    ELSE (IF targets.classes # None THEN {"classification"} ELSE {})
         \cup (IF targets.authority # {} THEN {"authorities"} ELSE {})

\* selectScriptTargetFiles: include, exclude and classes are the files that match;
\* authority is a set of ids, or {"any"}, or {} when the rule names none.
SelectTargets(files, targets, facts) ==
    IF targets = None THEN [is |-> "ok", files |-> files]
    ELSE LET ids == IF "any" \in targets.authority THEN DOMAIN facts.protects ELSE targets.authority
         IN  IF ~(ids \subseteq DOMAIN facts.protects) THEN [is |-> "unavailable"]
             ELSE [is |-> "ok",
                   files |-> {f \in files : /\ targets.classes # None => f \in facts.classified \cap targets.classes
                                            /\ f \in targets.include \ targets.exclude
                                            /\ ids = {} \/ \E a \in ids : f \in facts.protects[a]}]

---------------------------------------------------------------------------
(* Running a script *)

\* executeStagedAnalysis: the text stage, if there is one, picks files of the targets
\* or of all; the AST stage reads every candidate and fails with the first it cannot
\* read.
Analyze(rule, targets, all, parses) ==
    LET candidates == IF rule.text = None THEN targets
                      ELSE rule.text.match \cap (IF rule.text.all THEN all ELSE targets)
    IN  IF rule.ast /\ ~(candidates \subseteq parses) THEN [is |-> "unavailable"]
        ELSE [is |-> "output", targets |-> targets, records |-> candidates]

\* executeStagedScript
RunStaged(rule, files, all, facts, parses) ==
    LET local == LocalAuthority(facts, rule.authority)
        required == rule.requires \cup TargetDomains(rule.targets) \cup (IF rule.authority # None THEN {"authorities"} ELSE {})
        selection == SelectTargets(files, rule.targets, local.facts)
    IN  IF local.is # "ok" THEN [is |-> local.is]
        ELSE IF \E d \in required : local.facts.of[d] # "available" THEN [is |-> "unavailable"]
        ELSE IF selection.is # "ok" THEN [is |-> "unavailable"]
        ELSE Analyze(rule, selection.files, all, parses)

\* executeChangeSetRule: the rule sees the whole change set; imports are read of all
\* files or the rule does not run.
RunChangeSet(rule, change, facts, parses) ==
    LET local == LocalAuthority(facts, rule.authority)
        required == rule.requires \cup (IF rule.authority # None THEN {"authorities"} ELSE {})
    IN  IF local.is # "ok" THEN [is |-> local.is]
        ELSE IF change.is = "unavailable" \/ \E d \in required : local.facts.of[d] # "available" THEN [is |-> "unavailable"]
        ELSE IF rule.ast /\ ~(change.files \subseteq parses) THEN [is |-> "unavailable"]
        ELSE [is |-> "output", targets |-> change.files, records |-> change.files]

\* isStagedRuleContract, isChangeSetRule: the part of the script that is not as it
\* must be, or "ok".
WellFormed(rule) ==
    IF rule.scope = "change_set" THEN rule.shape \in {"ok", "stages", "targets"} ELSE rule.shape \in {"ok", "imports"}

\* executeAntiPatternRule
RunRule(rule, scopes, files, change, facts, parses) ==
    IF ~rule.loads \/ ~WellFormed(rule) THEN [is |-> "error"]
    ELSE IF scopes # None /\ rule.scope \notin scopes THEN [is |-> "skipped"]
    ELSE IF rule.scope = "change_set" THEN RunChangeSet(rule, change, facts, parses)
    ELSE RunStaged(rule, files, {}, facts, parses)

\* A script that gives an answer had all the facts it asks for, and saw just the
\* files it targets, every one of them (executeStagedScript).
RunHonest(rule, files, all, facts, parses) ==
    LET out == RunStaged(rule, files, all, facts, parses)
        t == rule.targets
        own == IF rule.authority = None THEN {} ELSE {rule.authority.id}
        protected(f, ids) == \/ \E a \in ids \cap DOMAIN facts.protects : f \in facts.protects[a]
                             \/ own \cap ids # {} /\ f \in rule.authority.paths
        named == IF t = None THEN {} ELSE IF "any" \in t.authority THEN DOMAIN facts.protects \cup own ELSE t.authority
    IN  out.is = "output" =>
           /\ \A d \in rule.requires : facts.of[d] = "available"
           /\ rule.ast => out.records \subseteq parses
           /\ out.targets = {f \in files : t # None =>
                                /\ f \in t.include \ t.exclude /\ (t.classes # None => f \in t.classes)
                                /\ named # {} => protected(f, named)}
           /\ named \subseteq DOMAIN facts.protects \cup own
           /\ out.records = (IF rule.text = None THEN out.targets
                              ELSE rule.text.match \cap (IF rule.text.all THEN all ELSE out.targets))

\* What a script gives does not depend on which scripts run with it, though these
\* decide which facts are collected (loadScriptFacts).
ScriptsIndependent(world, rules) ==
    \A r \in rules : (r.loads /\ WellFormed(r)) =>
       RunStaged(r, world.files, world.all, CreateFacts(world, Requested(rules)), world.parses)
          = RunStaged(r, world.files, world.all, CreateFacts(world, Requested({r})), world.parses)

---------------------------------------------------------------------------
(* The anti-pattern report: rules is a sequence; reports are those of the  *)
(* symbol-use providers, or None.                                          *)

\* antiPatterns
AntiPatterns(world, rules, scopes, change, reports) ==
    LET wanted == IF scopes # None THEN scopes ELSE IF change # None THEN None ELSE {"file", "repository"}
        given == IF change = None THEN [is |-> "unavailable", files |-> {}] ELSE change
        files == IF wanted # None /\ wanted \subseteq {"change_set"} THEN {} ELSE world.files
        facts == CreateFacts([world EXCEPT !.files = files], Requested(Range(rules)))
        out == [i \in DOMAIN rules |-> RunRule(rules[i], wanted, files, given, facts, world.parses)]
        usable(r) == r.declarations /\ r.references /\ r.available
        asked == IF reports # None /\ scopes = None THEN reports ELSE {}
    IN  [out |-> out,
         run |-> {i \in DOMAIN rules : out[i].is # "skipped"},
         hits |-> {i \in DOMAIN rules : out[i].is = "output"},
         failures |-> {i \in DOMAIN rules : out[i].is \in {"error", "unavailable"}},
         isolated |-> UNION {{s \in r.symbols : s.internal /\ ~s.referenced} : r \in {q \in asked : usable(q)}},
         unread |-> {r \in asked : ~usable(r)}]

\* Every rule is accounted for: it was not asked for, it gave hits, or it is among
\* the failures; and a declaration is called isolated only by a provider that saw
\* the whole repository (antiPatterns).
ReportComplete(world, rules, scopes, change, reports) ==
    \A report \in {AntiPatterns(world, rules, scopes, change, reports)} :
        /\ report.hits \cup report.failures = report.run /\ report.hits \cap report.failures = {}
        /\ \A i \in DOMAIN rules \ report.run :
                              /\ rules[i].loads /\ WellFormed(rules[i])
                              /\ IF scopes # None THEN rules[i].scope \notin scopes ELSE rules[i].scope = "change_set"
        /\ change = None => \A i \in report.hits : rules[i].scope # "change_set"
        /\ \A s \in report.isolated : /\ ~s.referenced
                                      /\ \E r \in reports : s \in r.symbols /\ r.references
        /\ (reports # None /\ scopes = None) =>
              \A r \in reports : r \in report.unread \/ \A s \in r.symbols : (s.internal /\ ~s.referenced) => s \in report.isolated

---------------------------------------------------------------------------
(* Implicit dependencies: the file is a sequence of edges                  *)
(* [key, source, confidence]; a rule has a source, the name of its file,   *)
(* and found, a sequence of keys or None when it failed.  "outside" is an  *)
(* edge with an end outside of the project.                                *)

\* canonicalizeEdges
Canonical(found) ==
    IF found = None \/ "outside" \in Range(found) THEN None
    ELSE FoldLeft(LAMBDA seen, k : IF k \in Range(seen) THEN seen ELSE Append(seen, k), <<>>, found)

\* mergeBySource
MergeBySource(file, keys, source) ==
    SelectSeq(file, LAMBDA e : e.source # source)
    \o [i \in DOMAIN keys |-> [key |-> keys[i], source |-> source, confidence |-> "low"]]

KeysOf(file, source) == {e.key : e \in {f \in Range(file) : f.source = source}}

\* discoverUnlocked: all rules or nothing is written; a rule that failed counts as
\* one that found nothing while the counts are made up.
Discover(file, rules) ==
    LET step(s, r) ==
            LET keys == IF Canonical(r.found) = None THEN <<>> ELSE Canonical(r.found)
            IN  [file |-> MergeBySource(s.file, keys, r.source),
                 added |-> s.added + Cardinality(Range(keys) \ KeysOf(s.file, r.source)),
                 removed |-> s.removed + Cardinality(KeysOf(s.file, r.source) \ Range(keys)),
                 errors |-> s.errors \/ Canonical(r.found) = None]
        end == FoldLeft(step, [file |-> file, added |-> 0, removed |-> 0, errors |-> FALSE], rules)
    IN  IF rules = <<>> \/ end.errors THEN [file |-> file, added |-> 0, removed |-> 0, errors |-> TRUE] ELSE end

\* A discovery replaces the edges of the rules that ran and keeps all others, in their
\* order; with a failure it writes nothing; its counts add up; and the same once
\* more changes nothing and says so (discoverUnlocked).
DiscoverSettles(file, rules) ==
    LET new == Discover(file, rules)
        sources == {rules[i].source : i \in DOMAIN rules}
        others(f) == SelectSeq(f, LAMBDA e : e.source \notin sources)
    IN  /\ new.errors => new.file = file
        /\ others(new.file) = others(file)
        /\ ~new.errors => \A i \in DOMAIN rules : KeysOf(new.file, rules[i].source) = Range(rules[i].found)
        /\ Len(new.file) + new.removed = Len(file) + new.added
        /\ \A i, j \in DOMAIN new.file : (i # j /\ new.file[i].source = new.file[j].source) => new.file[i].key # new.file[j].key
        /\ ~new.errors => Discover(new.file, rules) = [new EXCEPT !.added = 0, !.removed = 0]

---------------------------------------------------------------------------
(* The changed lines of a patch (discover.ts): a line is                   *)
(* [is |-> "diff"], "to" with a file or None for a deletion, "hunk" with   *)
(* the first line after, "minus" or "plus" with a text.                    *)

Flush(s) ==
    IF s.file = None \/ (s.minus = <<>> /\ s.plus = <<>>) THEN s.hunks
    ELSE Append(s.hunks, [file |-> s.file, at |-> s.at, minus |-> s.minus, plus |-> s.plus])

PatchLine(s, line) ==
    LET fresh == [s EXCEPT !.hunks = Flush(s), !.minus = <<>>, !.plus = <<>>]
    IN  CASE line.is = "diff" -> [fresh EXCEPT !.file = None, !.at = 0]
          [] line.is = "hunk" -> [fresh EXCEPT !.at = line.at]
          [] line.is = "to" -> IF line.file = None THEN s ELSE [s EXCEPT !.file = line.file]
          [] line.is = "minus" -> [s EXCEPT !.minus = Append(@, line.text)]
          [] line.is = "plus" -> [s EXCEPT !.plus = Append(@, line.text)]

\* gitDiffHunks
Hunks(patch) == Flush(FoldLeft(PatchLine, [hunks |-> <<>>, file |-> None, at |-> 0, minus |-> <<>>, plus |-> <<>>], patch))

\* changeContextFor: the lines of a file that the change wrote.
ChangedLines(hunks, file) == UNION {h.at..(h.at + Len(h.plus) - 1) : h \in {k \in Range(hunks) : k.file = file}}

PatchOf(hunk) ==
    <<[is |-> "diff"], [is |-> "to", file |-> hunk.file], [is |-> "hunk", at |-> hunk.at]>>
    \o [i \in DOMAIN hunk.minus |-> [is |-> "minus", text |-> hunk.minus[i]]]
    \o [i \in DOMAIN hunk.plus |-> [is |-> "plus", text |-> hunk.plus[i]]]

\* What is read from a patch is what was put into it, deletions of files apart
\* (gitDiffHunks).
PatchRead(hunks) ==
    /\ Hunks(FlattenSeq([i \in DOMAIN hunks |-> PatchOf(hunks[i])])) = SelectSeq(hunks, LAMBDA h : h.file # None)
    /\ \A f \in {hunks[i].file : i \in DOMAIN hunks} \ {None} :
          ChangedLines(Hunks(FlattenSeq([i \in DOMAIN hunks |-> PatchOf(hunks[i])])), f)
             = UNION {h.at..(h.at + Len(h.plus) - 1) : h \in {k \in Range(hunks) : k.file = f}}

---------------------------------------------------------------------------
(* openarch rules --check *)

\* checkExtensionContracts: the scripts it finds fault with.
ContractIssues(rules) == {r \in rules : ~r.loads \/ r.shape = "requires" \/ ~WellFormed(r)}

\* extensionChecksCommand
RulesExit(rules, unused, facts, retained) ==
    LET idle == facts \ UNION {r.requires : r \in {s \in rules : s.loads}}
    IN  IF ContractIssues(rules) # {} THEN 3 ELSE IF unused /\ ~(idle \subseteq retained) THEN 1 ELSE 0

\* Rules that pass the check are refused for their form by no run, and rules that do
\* not are by every run that wants them (extensionChecksCommand).
CheckForesees(world, rules, scopes) ==
    LET report == AntiPatterns(world, rules, scopes, None, None)
    IN  ContractIssues(Range(rules)) = {rules[i] : i \in {j \in DOMAIN rules : report.out[j].is = "error"
                                                            /\ ~(rules[j].loads /\ WellFormed(rules[j]))}}
        /\ (RulesExit(Range(rules), FALSE, {}, {}) = 0 =>
              \A i \in DOMAIN rules : report.out[i].is = "error" => rules[i].authority # None)
=============================================================================
