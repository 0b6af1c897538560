----------------------------- MODULE MCAlgorithms -----------------------------
(***************************************************************************)
(* The pure parts of the program, checked against their laws: a state      *)
(* holds an input, or a slice of the inputs, of one algorithm, and every   *)
(* invariant is the law of the algorithm the input belongs to.  The inputs *)
(* are enumerated from small sets, one action for each algorithm.  The     *)
(* machines of LocalMachines run here as well: once one is chosen it goes  *)
(* on for ever.                                                            *)
(***************************************************************************)
EXTENDS LocalMachines

\* A behaviour is about one algorithm, or about one of the machines.
Algorithms ==
    {"revisions", "trees", "configs", "profiles", "before", "similar", "history",
     "evidence", "calls", "testfile", "manifests", "testrun", "bloat", "setup",
     "documents", "scripts", "symbols", "machine", "policies"}
Start(algorithm) == [of |-> "start", next |-> algorithm]
Init == (\E a \in Algorithms : input = Start(a)) /\ MachinesInit

---------------------------------------------------------------------------
(* The classifier of declaration changes *)

SC == INSTANCE SemanticChanges WITH Absent <- None

Method(sig, body, public) ==
    [id |-> <<"C", "m">>, kind |-> "function", sig |-> sig, body |-> body,
     public |-> public, additive |-> FALSE, reexport |-> FALSE]
Class(sig) == [id |-> <<"C">>, kind |-> "class", sig |-> sig, body |-> "",
               public |-> TRUE, additive |-> FALSE, reexport |-> FALSE]
Declarations ==
    {Class("c1"), Class("c2"), Method("s1", "b1", TRUE), Method("s1", "b2", TRUE),
     Method("s2", "b1", TRUE), Method("s3", "b1", FALSE), Method("s1", "b1", FALSE)}
Revisions ==
    {None} \cup [decls : {<<>>} \cup {<<d>> : d \in Declarations} \cup (Declarations \X Declarations),
                 imports : {{}}, rest : {""}]
             \cup [decls : {<<>>, <<Class("c1")>>}, imports : {{}, {"m"}}, rest : {"", "x"}]

ChooseRevisions ==
    /\ input = Start("revisions")
    /\ \E b \in Revisions : input' = [of |-> "revisions", before |-> b]

\* SemanticChanges.NeverSilent: no change of what a file declares is called cosmetic.
ChangeNeverSilent == Is("revisions") => \A after \in Revisions : SC!NeverSilent(input.before, after)

\* SemanticChanges.Reversible: the order of the revisions decides only
\* between add and remove.
DiffReversible == Is("revisions") => \A after \in Revisions : SC!Reversible(input.before, after)

\* SemanticChanges.RemovalIsPublic: a public declaration that is gone is a
\* change of the public contract.
RemovalReported == Is("revisions") => \A after \in Revisions : SC!RemovalIsPublic(input.before, after)

\* SemanticChanges: what the classifier may not overlook.
ClassifierLaws == RemovalReported /\ ChangeNeverSilent /\ DiffReversible

---------------------------------------------------------------------------
(* Change sets, the semantic report over them, and version pairs *)

Symbols(t) == CASE t = "x" -> {[name |-> "f", n |-> 1]}
                [] t = "y" -> {[name |-> "f", n |-> 1], [name |-> "g", n |-> 1], [name |-> "g", n |-> 2]}
                [] OTHER -> {}
AllTexts == {"", "x", "y", "large", "broken", "ambiguous"}
CS == INSTANCE ChangeSets
        WITH Paths <- {"a", "b", "t"}, Production <- {"a", "b"}, Texts <- AllTexts,
             Absent <- None, Empty <- "", Large <- {"large"}, Broken <- {"broken"},
             Ambiguous <- {"ambiguous"}, Other <- IF Is("trees") THEN input.other ELSE {}

OneFile == [a : AllTexts \cup {None}, t : {"x", None}, b : {None}]
ThreeFiles == [{"a", "b", "t"} -> {"x", "y", None}]

\* The trees compared: of one file, production code or not, whose text may be
\* another when it is read, or of three.
ChooseTrees ==
    /\ input = Start("trees")
    /\ \/ \E b, a \in OneFile, other \in {{}, {"a"}} :
             input' = [of |-> "trees", b |-> b, a |-> a, other |-> other, read |-> AllTexts \cup {None}]
       \/ \E b, a \in ThreeFiles :
             input' = [of |-> "trees", b |-> b, a |-> a, other |-> {"b"}, read |-> {}]
Read(tree) == IF input.read = {} THEN {tree} ELSE {[tree EXCEPT !.a = t] : t \in input.read}

\* ChangeSets.NoChangeLost: a complete report misses no changed production
\* file, whatever happens between the two questions to git.
NoChangeLost == Is("trees") => \A br \in Read(input.b), ar \in Read(input.a) : CS!NoChangeLost(input.b, input.a, br, ar)

\* ChangeSets.IntroducedIsNew: introduced files have no text to compare with.
IntroducedIsNew == Is("trees") => \A br \in Read(input.b), ar \in Read(input.a) : CS!IntroducedIsNew(input.b, input.a, br, ar)

\* ChangeSets.PairsComplete: complete version pairs miss no declaration.
PairsComplete == Is("trees") => CS!PairsComplete(input.b, input.a)

Configs == {"c", "d", "e"}
ChooseConfigs ==
    /\ input = Start("configs")
    /\ \E x \in [Configs -> Configs \cup {None}], known \in SUBSET Configs, i \in SUBSET Configs :
          i \subseteq known /\ input' = [of |-> "configs", extends |-> x, known |-> known, initial |-> i]

\* ChangeSets.SupportClosed: snapshots take all configurations along.
SupportClosed == Is("configs") => CS!SupportClosed(input.extends, input.known, input.initial)

\* ChangeSets: no changed text drops out of a report that calls itself complete.
ChangeSetLaws == NoChangeLost /\ IntroducedIsNew /\ PairsComplete /\ SupportClosed

---------------------------------------------------------------------------
(* Evidence and reach of a change *)

CI == INSTANCE ChangeImpact

Changes == {[type |-> "decl", leaf |-> "f", kind |-> "public_method_sig"],
            [type |-> "decl", leaf |-> "g", kind |-> "function_body"],
            [type |-> "import", leaf |-> "m", kind |-> "dependency_add"],
            [type |-> "manual", leaf |-> "file", kind |-> "function_body"],
            [type |-> "file", leaf |-> "file", kind |-> "comment_whitespace"]}
Profiles == [file : {"p"}, language : {"ts"}, changes : {s \in SUBSET Changes : Cardinality(s) \in 1..2}]
FactSets == {{[file |-> "p", name |-> n, consumers |-> c] : n \in ns} :
                ns \in SUBSET {"f", "g"}, c \in {{}, {"p", "q"}, {"r"}}}
Reports == {r \in [language : {"ts"}, availability : {"available", "partial", "unavailable"},
                   incomplete : {None}, references : {"available"},
                   reasonSaysIncomplete : BOOLEAN, facts : FactSets] : TRUE}

ChooseProfiles ==
    /\ input = Start("profiles")
    /\ \E p \in Profiles, r \in {{}} \cup {{x} : x \in Reports}, i \in {{}, {"p"}, {"q"}, {"q", "s"}} :
          input' = [of |-> "profiles", profiles |-> {p}, reports |-> r, importers |-> [f \in {"p"} |-> i]]

\* ChangeImpact.NoSilentZero: a change without confirmed consumers is marked
\* or listed as a gap.
NoSilentZero == Is("profiles") => CI!NoSilentZero(input.profiles, input.reports, input.importers)

\* ChangeImpact.ConsumersOverlap: symbol evidence agrees with the import
\* graph on at least one consumer.
ConsumersOverlap == Is("profiles") => CI!ConsumersOverlap(input.profiles, input.reports, input.importers)

\* ChangeImpact.DemandCovers: what the surfaces look up was asked for.
DemandCovers == Is("profiles") => CI!DemandCovers(input.profiles)

ChooseBefore ==
    /\ input = Start("before")
    /\ \E s \in {"git", "introduced", "unavailable", None}, c, g, o, p \in BOOLEAN :
          /\ c => ~o /\ ~p     \* without a baseline there is neither entry nor P95
          /\ input' = [of |-> "before", state |-> s, cold |-> c, git |-> g, old |-> o, p95 |-> p]

\* ChangeImpact.NewMeansNew: the diagnosis never calls an unreadable file new.
NewMeansNew == Is("before") => CI!NewMeansNew(input.state, input.cold, input.git, input.old, input.p95)

Files == {"a", "b", "c", "d"}
ChooseSimilar ==
    /\ input = Start("similar")
    /\ \E n \in 0..3 : \E p \in [1..n -> Files \X Files] : input' = [of |-> "similar", pairs |-> p]

\* ChangeImpact.GroupsAreComponents: union-find groups are the components.
GroupsAreComponents == Is("similar") => CI!GroupsAreComponents(Files, input.pairs)

\* ChangeImpact: a change whose consumers are unknown is never shown as one
\* without consumers.
ImpactLaws == NoSilentZero /\ ConsumersOverlap /\ DemandCovers /\ NewMeansNew /\ GroupsAreComponents

---------------------------------------------------------------------------
(* The history of a code base *)

EV == INSTANCE Evolution WITH MaxSets <- 6, MaxIntersections <- 12

Past(files) == [path : files, kind : {"modified"}]
Fact(imports) == [production |-> TRUE, loc |-> 1, imports |-> imports, reexports |-> {}]
Links == {[f \in Files |-> Fact({})], [f \in Files |-> Fact(IF f = "a" THEN {"b", "c"} ELSE {})]}

\* Up to four commits to four files, all modified; or commits that extend a,
\* which imports b and c, and may modify d.
ChooseHistory ==
    /\ input = Start("history")
    /\ \/ \E n \in 0..4, facts \in Links : \E h \in [1..n -> {{"a", "b", "c"}, {"b", "c", "d"}, {"a", "c", "d"}, Files, {"b", "d"}}] :
              input' = [of |-> "history", facts |-> facts, commits |-> [i \in 1..n |-> Past(h[i])]]
       \/ \E facts \in Links : \E h \in [1..2 -> [added : SUBSET {"b", "c"}, also : SUBSET {"d", "gone"}, kind : {"modified", "added"}]] :
              input' = [of |-> "history", facts |-> facts,
                        commits |-> [i \in 1..2 |-> [path : h[i].added, kind : {"added"}] \cup [path : h[i].also, kind : {"modified"}]
                                                      \cup {[path |-> "a", kind |-> h[i].kind]}]]

ChooseEvidence ==
    /\ input = Start("evidence")
    /\ \/ \E n \in 1..3, b \in 0..5 : \E c \in [1..n -> {<<>>, <<"m">>, <<"m", "m">>, <<"m", "m", "k">>, <<"m", "k", "k", "l">>}] :
              input' = [of |-> "events", candidates |-> c, budget |-> b]
       \/ \E n \in 0..3, e \in BOOLEAN : \E s \in [1..n -> {"confirmed", "not_confirmed", "unavailable"}],
                                           c \in [1..n -> {{}, {"k"}, {"k", "l"}, {"unavailable"}}] :
              input' = [of |-> "statuses", statuses |-> s, commits |-> c, exhausted |-> e]

\* Evolution: the enumeration misses no set, the report drops none for nothing,
\* and what it says of past commits it has read.
HistoryLaws ==
    /\ Is("history") => /\ EV!MiningComplete(input.commits, input.facts, 1, 2)
                        /\ EV!FrontStands(input.commits, input.facts, 2, 2)
                        /\ EV!SurfacesStand(input.commits, input.facts)
    /\ Is("events") => /\ EV!SelectionFair(input.candidates, input.budget)
                       /\ EV!BudgetKept(input.candidates, input.budget, 2, 3)
    /\ Is("statuses") => EV!EvidenceSpeaksForAll(input.statuses, input.commits, input.exhausted)

SM == INSTANCE StructuralMetrics WITH ImplicitEdges <- {}, MaxDepth <- 3

CallMaps == UNION {[s -> {1, 2}] : s \in SUBSET {"f", "g", "h"}}
Functions3 == UNION {[1..n -> [name : {"f", "g"}, calls : {c \in CallMaps : Cardinality(DOMAIN c) <= 2}]] : n \in 0..2}
                \cup [1..3 -> [name : {"f", "g", "h"}, calls : UNION {[s -> {1}] : s \in {{}, {"f"}, {"g", "h"}}}]]
ChooseCalls == input = Start("calls") /\ \E f \in Functions3 : input' = [of |-> "calls", funcs |-> f]

\* StructuralMetrics.CallShapeSound: cohesion and connectedness of a file are
\* those of its calls.
CallLaws ==
    Is("calls") => \A order \in {f \in [DOMAIN input.funcs -> DOMAIN input.funcs] : \A i, j \in DOMAIN f : f[i] = f[j] => i = j} :
                      SM!CallShapeSound(input.funcs, order, "alone")

\* A change is neither overlooked nor made light of: by the classifier, the
\* change sets, the reach of a change, the history and the metrics of a file.
ChangeLaws == ClassifierLaws /\ ChangeSetLaws /\ ImpactLaws /\ HistoryLaws /\ CallLaws

---------------------------------------------------------------------------
(* Test governance *)

TP == INSTANCE TestProviders

\* Files of three scopes with a call in each.
ChooseTestFile ==
    /\ input = Start("testfile")
    /\ \E p \in {<<0, 0, 0>>, <<0, 1, 0>>, <<0, 0, 2>>, <<0, 1, 2>>}, imported \in {{}, {"h"}},
          f1 \in {"test", "suite"}, f2 \in {"test", "function", "nested"}, f3 \in {"function", "nested"},
          n3 \in {"g", "h"}, m \in {{}, {"skip"}, {"only", "expects"}} :
             input' = [of |-> "tests", file |->
                [parent |-> p, form |-> <<f1, f2, f3>>, name |-> <<"t", "h", n3>>, marks |-> <<m, {}, {}>>, calls |-> {},
                 guards |-> <<Cardinality(imported), 0, 0>>, branches |-> {}, imported |-> imported]]
Calling(file) ==
    {[file EXCEPT !.calls = {[no |-> 1, at |-> 1, callee |-> c[1]], [no |-> 2, at |-> 2, callee |-> c[2]],
                             [no |-> 3, at |-> 3, callee |-> c[3]]}] :
        c \in {"assert", "h", "g", "skip", "other"} \X {"assert", "g", "other"} \X {"assert", "h"}}

\* Manifests in three nested directories and up to three lookups; helpers.
ChooseManifests ==
    /\ input = Start("manifests")
    /\ \/ \E m \in SUBSET (1..3), n \in 1..3 : \E d \in [1..n -> 1..3] :
              input' = [of |-> "cargo", manifests |-> m, dirs |-> d]
       \/ \E e \in [Configs -> SUBSET {"h", "g"}] : input' = [of |-> "helpers", exports |-> e]

\* Runs of openarch test: what is selected and read, and then what is found.
Collections ==
    [files : {{}, {"t"}, {"t", "u"}}, baseline : SUBSET {"t", "u"}, known : {TRUE}, configured : BOOLEAN,
     selected : {<<>>, <<"p">>, <<"q", "p">>, <<"p", "none">>},
     supports : {[p |-> x, q |-> {"u"}] : x \in SUBSET {"t", "u"}},
     outcome : [{"t", "u"} -> {"ok", "malformed", "rejects"}],
     found : {{}}, runners : {{}}, scripts : {{}}, scope : BOOLEAN, shapes : BOOLEAN, badShapes : {FALSE},
     rules : {<<>>}, exempt : {{}}]
Finding == [file |-> "t", rule |-> "r", kind |-> "k"]
Verdicts ==
    [files : {{"t", "u"}}, baseline : {{"t"}}, known : {TRUE}, configured : {TRUE},
     selected : {<<"p">>, <<"p", "none">>}, supports : {[p |-> {"t"}, q |-> {}]},
     outcome : {[t |-> x, u |-> "ok"] : x \in {"ok", "malformed"}},
     found : {{}, {Finding}}, runners : {{"passed"}, {"failed"}},
     scripts : {{}} \cup {{[needs |-> n, fails |-> ~n, found |-> {Finding}]} : n \in BOOLEAN},
     scope : {TRUE}, shapes : {TRUE}, badShapes : BOOLEAN,
     rules : UNION {[K -> {"block", "warn", "review"}] : K \in SUBSET {"k", "r"}},
     exempt : {{}} \cup {{[rule |-> "r", file |-> f, expired |-> x]} : f \in {"u", None}, x \in BOOLEAN}]
ChooseTestRun ==
    /\ input = Start("testrun")
    /\ \E o \in [{"t", "u"} -> {"ok", "malformed", "rejects"}], b \in SUBSET {"t", "u"} : input' = [of |-> "run", outcome |-> o, baseline |-> b]

\* Bloat scores over three factors; files of four lines in windows of two.
Factors == [weight : {1, 4}, value : {0, 3, 9, None}, threshold : {6}]
Texts == [1..4 -> {"x", "y"}]
LineSets == {{}, {1, 2}, {3}}
Evidence == {None} \cup [assertions : LineSets, cases : LineSets, calls : LineSets]
ChooseBloat ==
    /\ input = Start("bloat")
    /\ \/ \E parts \in [1..3 -> Factors] : input' = [of |-> "bloat", parts |-> parts]
       \/ \E t \in [{"t", "u"} -> Texts] : input' = [of |-> "blocks", texts |-> t]

\* TestProviders: a test is reported once, and for asserting nothing only when it
\* does; TestGovernance: what openarch test says of its own coverage, verdict
\* and score is true.
TestLaws ==
    /\ Is("tests") => \A file \in Calling(input.file) : TP!MissingHonest(file) /\ TP!WrappersLead(file) /\ TP!ReportedOnce(file)
    /\ Is("cargo") => TP!CacheTransparent([i \in input.manifests |-> {}], input.dirs)
    /\ Is("helpers") => \A i, p \in SUBSET Configs : TP!HelpersApart(input.exports, i, p)
    /\ Is("run") => \A run \in {r \in Collections \cup Verdicts : r.outcome = input.outcome /\ r.baseline = input.baseline} :
                        /\ TG!AvailableMeansAll(run) /\ TG!CoverageAgrees(run)
                        /\ TG!SpansHonest(run) /\ TG!PassSpeaksForAll(run)
    /\ Is("bloat") => TG!ScoreBetween(input.parts)
    /\ Is("blocks") => \A e \in Evidence : TG!EvidenceLowers(input.texts, [t |-> e, u |-> None], 2)
    /\ AnsweredOnce

---------------------------------------------------------------------------
(* Setting a project up *)

PS == INSTANCE ProjectSetup

ConfigLines ==
    {PS!Line(0, "governance", ""), PS!Line(0, "governance", "{local}"), PS!Line(0, "languages", "x"),
     PS!Line(0, "#", ""), PS!Line(2, "#", ""), PS!Line(2, "persistence", "local"), PS!Line(4, "persistence", "tracked"),
     PS!Line(2, "persistence", "other"), PS!Line(2, "history", ""), PS!Line(4, "raw", "1")}
ConfigTexts == {t \in UNION {[1..n -> ConfigLines] : n \in 0..4} : PS!Parses(t)}
ExcludeFiles == UNION {[1..n -> {"u", "n", "m"}] : n \in 0..5}

\* What init finds: documents and links of every kind under the default
\* configuration, and configurations and hooks of every kind without documents.
Found(c, h, u, dd, t, l, st, r, a) ==
    [config |-> c, git |-> TRUE, exclude |-> <<"u", "n">>, hook |-> h, bin |-> TRUE, skill |-> "old",
     url |-> u, docs |-> dd, target |-> t, link |-> l, store |-> st, scope |-> <<"i", "r">>, registry |-> r,
     docsHook |-> "none", asset |-> a, seen |-> "b", similarity |-> TRUE]
WithDocuments ==
    {Found(PS!DefaultConfig, "none", "none", dd, t, l, st, r, a) :
        dd, t \in BOOLEAN, l \in {"none", "valid", "dangling"}, st \in {"none", "project", "shared"},
        r \in {{}, {<<"i", "r">>}, {<<"i", "s">>}, {<<"j", "r">>}}, a \in {"none", "b"}}
Linkable == {d \in WithDocuments : (d.link = "valid" => d.target) /\ (d.store = "shared" => d.docs)}
WithHooks ==
    {Found(c, h, u, FALSE, FALSE, "none", "none", {}, "none") :
        c \in {<<>>, PS!DefaultConfig, <<PS!Line(0, "governance", "{local}")>>,
               <<PS!Line(0, "languages", "x"), PS!Line(0, "languages", "y")>>},
        h \in {"none", "foreign", "openarch", "stale"}, u \in {"none", "invalid"}}

\* What init is asked for.
Asked(dr, p, sc, ul, ih, m, ag, f, u) ==
    [docsRepo |-> dr, project |-> p, scope |-> sc, unlink |-> ul, installHook |-> ih, mode |-> m,
     agent |-> ag, fails |-> f, url |-> u]
ForDocuments == {Asked(dr, p, sc, ul, TRUE, "none", FALSE, {}, "none") :
                    dr, p, ul \in BOOLEAN, sc \in {<<>>, <<"i", "r">>}}
ForHooks == {Asked(FALSE, FALSE, <<>>, FALSE, ih, m, ag, f, u) :
                ih, ag \in BOOLEAN, m \in {"none", "local"}, f \in {{}, {"swap"}},
                u \in {"none", "u", "invalid", "clear"}}

\* Shapes for up to two languages, wired or not.
ShapeEntries ==
    {[mapping |-> FALSE, classes |-> <<>>], [mapping |-> TRUE, classes |-> [assertion_methods |-> <<"e">>]]} \cup
    {[mapping |-> TRUE, classes |-> [weak_assertion_methods |-> ns]] :
        ns \in {<<>>, <<"">>, <<"e">>, <<"t", "e">>, <<"e", "t", "e">>}}
ShapeDeclarations == UNION {[l -> ShapeEntries] : l \in {{}, {"java"}, {"vue"}, {"java", "typescript"}}}

SetupRight(disks, requests) ==
    \A d \in disks : /\ PS!ReadinessFunctional(d)
                     /\ \A in \in requests : PS!InitDelivers(d, in) /\ PS!InitRespects(d, in)

ChooseSetup ==
    /\ input = Start("setup")
    /\ \E part \in {"persistence", "exclude", "skill", "documents", "hooks", "shapes"} : input' = [of |-> "setup", part |-> part]

\* ProjectSetup: init and the persistence commands change what they were asked
\* to and keep what the user wrote; readiness tells what will work.
SetupLaws ==
    Is("setup") =>
       CASE input.part = "persistence" -> \A t \in ConfigTexts, m \in PS!Modes : PS!PersistenceSafe(t, m)
         [] input.part = "exclude" -> \A t \in ExcludeFiles, m \in PS!Modes : PS!ExcludeSettles(t, m)
         [] input.part = "skill" -> \A o \in {"none", "old"}, f \in SUBSET {"copy", "backup", "swap", "restore"} : PS!SkillKept(o, f)
         [] input.part = "documents" -> SetupRight(Linkable, ForDocuments)
         [] input.part = "hooks" -> SetupRight(WithHooks, ForHooks)
         [] input.part = "shapes" -> \A a, b \in ShapeDeclarations : PS!ShapesIdentity(a, b)

---------------------------------------------------------------------------
(* The document library *)

DC == INSTANCE Documents

Markdowns ==
    UNION {[1..n -> {DC!Text(m) : m \in {<<>>, <<"x">>, <<"open">>, <<"close">>, <<"open", "x", "close">>,
                                         <<"tick", "open", "tick">>, <<"close", "open">>}}
                    \cup {DC!Fence("b", 3, TRUE), DC!Fence("b", 4, TRUE), DC!Fence("t", 3, TRUE),
                          DC!Fence("b", 3, FALSE), DC!Rule, DC!Key}] : n \in 0..3}
    \cup [1..4 -> {DC!Text(<<"open">>), DC!Text(<<"close">>), DC!Fence("b", 3, TRUE), DC!Fence("b", 4, TRUE)}]
RecordTexts ==
    UNION {[1..n -> {DC!Text(m) : m \in {<<"x">>, <<"p">>, <<"open">>, <<"close">>, <<"open", "x", "close">>}}
                    \cup {DC!Heading(TRUE), DC!Heading(FALSE), DC!Fence("b", 3, TRUE)}] : n \in 0..4}
Contents == UNION {[s -> {"1", "2"}] : s \in SUBSET {"d", "e", "g"}}

\* Three orders of three features, for bands of two seeds.
Orders == {[u |-> 1, v |-> 2, w |-> 3], [u |-> 3, v |-> 1, w |-> 2], [u |-> 2, v |-> 3, w |-> 1]}

ChooseDocuments ==
    /\ input = Start("documents")
    /\ \E part \in {"markdown", "fill", "index", "checks", "candidates", "decisions"} : input' = [of |-> "documents", part |-> part]

\* Documents: only comments are taken out of a document, a filled record has
\* text, and index, candidates and decisions follow the documents.
DocumentLaws ==
    Is("documents") =>
       CASE input.part = "markdown" -> \A d \in Markdowns : DC!OnlyComments(d) /\ DC!CommentsGone(d) /\ DC!FencesClosed(d)
         [] input.part = "fill" -> \A d \in RecordTexts : DC!FilledMeansText(d)
         [] input.part = "index" ->
               \A f, r \in BOOLEAN, en, di \in Contents : \A c \in {None} \cup SUBSET {"d", "e", "g"} : DC!IndexFollows(f, r, en, di, c)
         [] input.part = "checks" ->
               \A f, r \in BOOLEAN, en, di, st \in UNION {[s -> {"filled", "unfilled"}] : s \in SUBSET {"capability", "e"}} :
                  DC!DocsHonest(f, r, en, di, st)
         [] input.part = "candidates" ->
               \A s \in [1..4 -> Orders], ft \in [{"d", "e"} -> SUBSET {"u", "v", "w"}] :
                  DC!CandidatesFair([d \in {"d", "e", "g"} |-> IF d = "g" THEN {"u", "w"} ELSE ft[d]], s, 2)
         [] input.part = "decisions" ->
               \A n \in 0..3 : \A ds \in [1..n -> [left : {"d", "e", "g"}, right : {"d", "e"}, decision : {"m", "k"}]] :
                  DC!DecisionsLast(ds, {{"d", "e"}, {"e", "g"}})

---------------------------------------------------------------------------
(* Project scripts *)

SX == INSTANCE Scripts

\* Rules of every kind of target over two files, of which one may not parse.
ScriptTargets == {None} \cup [classes : {None, {"f"}}, include : {{"f", "g"}, {"f"}}, exclude : {{}, {"f"}},
                              authority : {{}, {"any"}, {"a"}, {"z"}}]
StagedRules ==
    [loads : {TRUE}, shape : {"ok"}, scope : {"file"}, requires : SUBSET {"structure", "relations"}, targets : ScriptTargets,
     authority : {None, [id |-> "a", paths |-> {"g"}], [id |-> "z", paths |-> {"f"}]},
     text : {None, [all |-> FALSE, match |-> {"f"}], [all |-> TRUE, match |-> {"f", "h"}]}, ast : BOOLEAN]
SimpleRules == {r \in StagedRules : r.text = None /\ r.targets = None /\ r.ast}
ScriptWorlds ==
    [files : {{"f", "g"}}, all : {{"f", "g", "h"}}, baseline : {None, {"f"}, {"f", "g"}}, comparable : {TRUE},
     parses : {{"f"}, {"f", "g", "h"}}, reports : {{}, {"complete"}, {"complete", "incomplete"}}, change : {"available"},
     protects : {[a |-> {"f"}], <<>>}]

\* Rules that may be broken, in every scope; providers of symbol use.
AnyRules ==
    {r \in [loads : BOOLEAN, shape : {"ok", "requires", "imports", "stages"}, scope : {"file", "change_set"}, requires : {{"relations"}},
            targets : {None}, authority : {None, [id |-> "a", paths |-> {"g"}]}, text : {None}, ast : BOOLEAN] : r.loads \/ r.shape = "ok"}
SymbolReports ==
    [declarations : BOOLEAN, references : BOOLEAN, available : BOOLEAN, symbols : {[internal : BOOLEAN, referenced : BOOLEAN]}]
ReportWorlds == {w \in ScriptWorlds : w.baseline = None /\ w.protects # <<>> /\ w.reports = {"complete"}}
ScopeSets == {None, {"file"}, {"change_set"}}

\* Files of edges, and what rules find or fail to find.
StoredEdges == [key : {"k", "l"}, source : {"r", "s", "manual"}, confidence : {"low", "confirmed"}]
EdgeFiles == {f \in UNION {[1..n -> StoredEdges] : n \in 0..2} :
                \A i, j \in DOMAIN f : i # j => <<f[i].key, f[i].source>> # <<f[j].key, f[j].source>>}
Findings == {None} \cup UNION {[1..n -> {"k", "l", "outside"}] : n \in 0..2}
LineTexts == {<<>>, <<"x">>, <<"x", "y">>}
Patches == UNION {[1..n -> {h \in [file : {"f", "g", None}, at : {1, 4}, minus : LineTexts, plus : LineTexts] :
                               h.minus # <<>> \/ h.plus # <<>>}] : n \in 0..2}

ChooseScripts ==
    /\ input = Start("scripts")
    /\ \E part \in {"run", "shared", "changed", "symbols", "edges", "patches"} : input' = [of |-> "scripts", part |-> part]

\* Scripts: a script gives an answer only for what it saw, the reports leave no rule
\* out, and a discovery leaves alone what is not its own.
ScriptLaws ==
    Is("scripts") =>
       CASE input.part = "run" ->
              \A w \in ScriptWorlds, r \in StagedRules :
                 SX!RunHonest(r, w.files, w.all, SX!CreateFacts(w, SX!Requested({r})), w.parses)
         [] input.part = "shared" -> \A w \in ScriptWorlds, a, b \in SimpleRules : SX!ScriptsIndependent(w, {a, b})
         [] input.part = "changed" ->
              \A w \in ReportWorlds, a, b \in AnyRules, sc \in ScopeSets :
                 /\ SX!CheckForesees(w, <<a, b>>, sc)
                 /\ \A ch \in {None, [is |-> "partial", files |-> {"g"}], [is |-> "unavailable", files |-> {}]} :
                       SX!ReportComplete(w, <<a, b>>, sc, ch, None)
         [] input.part = "symbols" ->
              \A w \in ReportWorlds, a \in AnyRules, sc \in ScopeSets, r, q \in SymbolReports :
                 SX!ReportComplete(w, <<a>>, sc, None, {r, q})
         [] input.part = "edges" ->
              \A f \in EdgeFiles, a, b \in Findings :
                 /\ SX!DiscoverSettles(f, <<[source |-> "r", found |-> a], [source |-> "s", found |-> b]>>)
                 /\ SX!DiscoverSettles(f, <<[source |-> "s", found |-> a]>>)
         [] input.part = "patches" -> \A p \in Patches : SX!PatchRead(p)

---------------------------------------------------------------------------
(* Evidence about symbols *)

SE == INSTANCE SymbolEvidence

Decl(name, kind, refs, public) == [file |-> "p", name |-> name, kind |-> kind, refs |-> refs, public |-> public]
Quality(provider, a, d, r) == [provider |-> provider, availability |-> a, declarations |-> d, references |-> r]
Ok == Quality("x", "available", "complete", "complete")
Qualities == {<<Ok, Ok>>, <<Ok, Quality("x", "available", "complete", "partial")>>,
              <<Quality("x", "partial", "partial", "complete"), Ok>>,
              <<Ok, Quality("x", "unavailable", "unavailable", "unavailable")>>,
              <<Ok, Quality("y", "available", "complete", "complete")>>}
SymbolReport(q, facts) == [provider |-> q.provider, availability |-> q.availability, declarations |-> q.declarations,
                           references |-> q.references, facts |-> facts]

\* A version pair of a provider of revisions, as ChangeSets.VersionPair makes it.
FactPairs(b, a) ==
    {LET id == SE!IdentityOf(f)
         old == {x \in b : SE!IdentityOf(x) = id}
         new == {x \in a : SE!IdentityOf(x) = id}
         one(s) == CHOOSE x \in s : TRUE
     IN  CASE Cardinality(old) > 1 \/ Cardinality(new) > 1 ->
                [identity |-> id, status |-> "ambiguous", before |-> None, after |-> None]
           [] old = {} -> [identity |-> id, status |-> "added", before |-> None, after |-> one(new)]
           [] new = {} -> [identity |-> id, status |-> "removed", before |-> one(old), after |-> None]
           [] OTHER -> [identity |-> id, status |-> "matched", before |-> one(old), after |-> one(new)]
        : f \in b \cup a}
PairReport(language, files, q, b, a) ==
    LET worst == IF "unavailable" \in {q[1].availability, q[2].availability} THEN "unavailable"
                 ELSE IF "partial" \in {q[1].availability, q[2].availability} THEN "partial" ELSE "available"
        whole == worst = "available" \/ (worst = "partial" /\ language = "go")
    IN  [language |-> language, files |-> files,
         availability |-> IF worst = "unavailable" /\ language = "typescript" THEN "partial" ELSE worst,
         before |-> SymbolReport(q[1], b), after |-> SymbolReport(q[2], a),
         pairs |-> IF whole THEN FactPairs(b, a) ELSE {}]
NoPair == [language |-> "typescript", files |-> {}, availability |-> "unavailable",
           before |-> None, after |-> None, pairs |-> {}]

F == Decl("f", "function", {"p", "q"}, "internal")
G == Decl("g", "function", {}, "internal")
SampledReports ==
    {PairReport("go", fs, q, b, a) : fs \in {{"p"}, {}}, q \in Qualities,
        b \in {{F}, {F, G}}, a \in {{F, G}, {G}}} \cup {NoPair}
Observations(ids) ==
    [report : SampledReports, id : ids, identity : {<<"p", "function", n>> : n \in {"f", "g"}},
     expected : {"matched", "rejected"}]

GoodObservations ==
    [report : {PairReport("go", {"p"}, <<Ok, Ok>>, {F, G}, {G})}, id : {1, 2, 3},
     identity : {<<"p", "function", n>> : n \in {"f", "g"}}, expected : {"matched", "rejected"}]

OneSymbol == {{}, {F}, {F, [F EXCEPT !.refs = {"p"}]}, {[F EXCEPT !.kind = "class"]}, {F, [F EXCEPT !.kind = "class"]},
              {[F EXCEPT !.public = "unknown"]}, {[F EXCEPT !.refs = {"q", "r"}]}}
JudgedReports ==
    {PairReport(l, {"p"}, q, b, a) : l \in {"go", "typescript"}, q \in Qualities, b, a \in OneSymbol} \cup {NoPair}
Calibration(family, ids, eligible) ==
    [scope |-> [language |-> "go", provider |-> "x", family |-> family, files |-> {"p"}], ids |-> ids,
     availability |-> IF eligible THEN "available" ELSE "partial", eligible |-> eligible]
CalibrationStores ==
    SUBSET {Calibration("callable", {1}, TRUE), Calibration("callable", {1, 2}, TRUE),
            Calibration("callable", {3}, FALSE), Calibration("type", {1}, TRUE)}
Questions == [identity : {<<"p", k, "f">> : k \in {"function", "class"}}, numbers : {"good", "bad"}, consumers : {{"p", "q"}}]
QuestionLists == {<<q>> : q \in Questions} \cup {<<q, r>> : q, r \in {x \in Questions : x.numbers = "good"}}

SomeObservations ==
    {<<[report |-> PairReport("go", {"p"}, <<Ok, Ok>>, {F, G}, {G}), id |-> 1, identity |-> <<"p", "function", "f">>, expected |-> e],
       [report |-> PairReport("go", {"p"}, <<Ok, Ok>>, {F, G}, {G}), id |-> n, identity |-> <<"p", "function", "g">>, expected |-> "matched"]>> :
        e \in {"matched", "rejected"}, n \in 1..2}

Baselines ==
    {[f \in {"a", "b", "c"} |->
        [imports |-> im[f], inDegree |-> Cardinality({g \in {"a", "b", "c"} : f \in im[g]}),
         production |-> f # "c", dir |-> d[f]]] :
       im \in [{"a", "b", "c"} -> SUBSET {"a", "b"}], d \in [{"a", "b", "c"} -> {1, 2}]}
UseProviders == {[id |-> 1, languages |-> {"ts", "js"}, needs |-> {}], [id |-> 2, languages |-> {"go"}, needs |-> {"gopls"}],
                 [id |-> 3, languages |-> {"java"}, needs |-> {"jdtls", "jdk"}]}

ChooseSymbols ==
    /\ input = Start("symbols")
    /\ \E part \in {"asked", "filtered", "samples", "three", "evidence", "recorded", "admitted"} : input' = [of |-> "symbols", part |-> part]

\* SymbolEvidence: a number about a symbol is earned by what was seen completely in
\* both revisions and calibrated, and nothing that uses a symbol is left out silently.
SymbolLaws ==
    Is("symbols") =>
       CASE input.part = "asked" ->
              \A l \in SUBSET {"ts", "js", "go", "java", "vue"}, p \in SUBSET UseProviders, t \in SUBSET {"gopls", "jdtls", "jdk"} :
                 SE!EveryLanguageAnswered(l, p, t)
         [] input.part = "filtered" ->
              \A fs \in {{"a"}, {"a", "b"}, {"c"}, {"n"}}, m \in Baselines, im \in {{}, {<<"c", "a">>}}, go \in {{}, {"a", "b"}, {"a", "c"}} :
                 SE!NothingFilteredAway(fs, m, im, go)
         [] input.part = "samples" ->
              \A a \in Observations({1}), b \in Observations({1, 2}) : SE!EligibleEarned(<<a, b>>) /\ SE!OrderFree(a, b)
         [] input.part = "three" -> \A a, b, c \in GoodObservations : SE!EligibleEarned(<<a, b, c>>)
         [] input.part = "evidence" ->
              \A r \in JudgedReports, qs \in QuestionLists, st \in CalibrationStores : SE!EvidenceBacked(r, qs, st)
         [] input.part = "recorded" ->
              \A r \in JudgedReports, q \in Questions, st \in CalibrationStores, o \in SomeObservations :
                 SE!MoreSamplesSafe(st, o, r, q)
         [] input.part = "admitted" ->
              \A head \in JudgedReports, n \in {"complete", "partial", "unavailable"}, scripted \in BOOLEAN,
                 st \in SUBSET {Calibration("callable", {1}, TRUE)}, fact \in {F, G, [F EXCEPT !.file = "q"], [F EXCEPT !.public = "unknown"]},
                 l \in {"go", "typescript"} :
                 SE!AdmittedIsKnown([language |-> l, references |-> n], fact, scripted, head, st)

---------------------------------------------------------------------------
(* The policies of a check *)

ProtectedRules == [matches : {{1}, {1, 2}}, allow : {{}, {1}}, level : {"warn", "block"}]
Actions == UNION {[s -> {"warn", "block"}] : s \in SUBSET {"r", "s"}}
AuditRecords == UNION {[1..n -> [config : {"x", "y", "z"}, dies : BOOLEAN]] : n \in 0..4}

ChoosePolicies ==
    /\ input = Start("policies")
    /\ \E part \in {"overrides", "check", "quality", "audit"} : input' = [of |-> "policies", part |-> part]

\* What a check lets pass, all its parts let pass; no change of the configuration
\* is missing from the log of the audit.
PolicyLaws ==
    Is("policies") =>
         CASE input.part = "overrides" ->
                \A b, a \in SUBSET {"f", "g", "h"}, o \in SUBSET {"f", "g", "x", "all"} : CH!OverridesExact({"f", "g"}, b, a, o)
           [] input.part = "check" ->
                \A i, g, u \in 0..3, e \in BOOLEAN, p \in SUBSET {1, 2}, r \in {s \in SUBSET ProtectedRules : Cardinality(s) <= 2} :
                   CH!CheckHonest(i, g, u, [errors |-> e, rules |-> r], p)
           [] input.part = "quality" ->
                \A sel \in Actions, ran, failed, hits \in SUBSET {"r", "s"} : CH!QualitySpeaks(sel, ran, failed, hits)
           [] input.part = "audit" -> \A r \in AuditRecords : CH!LogConnected(r)

\* What the tools leave in the project, and what they report of it, is what they
\* say; what a check lets pass, its policies let pass.
ProjectLaws == SetupLaws /\ DocumentLaws /\ ScriptLaws /\ SymbolLaws /\ PolicyLaws

---------------------------------------------------------------------------
(* The machines *)

ChooseMachine == input = Start("machine") /\ \E m \in {"board", "job", "runner", "hook"} : input' = [of |-> m]

---------------------------------------------------------------------------

Choose == \/ ChoosePolicies \/ ChooseSetup \/ ChooseDocuments \/ ChooseScripts \/ ChooseSymbols \/ ChooseCalls \/ ChooseHistory \/ ChooseEvidence \/ ChooseTestFile \/ ChooseManifests \/ ChooseTestRun \/ ChooseBloat \/ ChooseRevisions \/ ChooseTrees \/ ChooseConfigs \/ ChooseProfiles
          \/ ChooseBefore \/ ChooseSimilar \/ ChooseMachine
\* Without the choice of an input this is MachinesSpec, and fair.
Next == (Choose /\ UNCHANGED <<board, job, proc, hook>>) \/ MachinesNext

Spec == Init /\ [][Next]_<<input, board, job, proc, hook>> /\ BoardFair /\ RunnerFair
=============================================================================
