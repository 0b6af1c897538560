--------------------------- MODULE TestProviders ---------------------------
(***************************************************************************)
(* The test providers (packages/core/src/test-governance): what each of    *)
(* the six frameworks reports of one test file.                            *)
(*                                                                         *)
(* A file is its scopes 1..n, a parent before its children, and the calls  *)
(* in them; scope 0 is the file.                                           *)
(*   parent, form, name, marks : 1..n -> ...  form "test", "suite",        *)
(*       "function" (named) or "nested" (a closure); marks are "skip",     *)
(*       "only" and "expects" (a declared exception)                       *)
(*   calls : a set of [no, at, callee]; the callee "assert" stands for the *)
(*       assertions a framework knows itself, "skip" for its skip call     *)
(*   guards : 1..n -> comparison blocks without an assertion call in them  *)
(*   branches : a set of [no, at, full]                                    *)
(*   imported : the names of assertion wrappers in files it imports        *)
(***************************************************************************)
EXTENDS Naturals, Sequences, FiniteSets

Frameworks == {"vitest", "node-test", "go", "junit", "pytest", "rust"}

Scopes(file) == DOMAIN file.parent
Tests(file) == {s \in Scopes(file) : file.form[s] = "test"}

\* The scopes inside s, with s: a range of lines.
Within(file, s) ==
    LET inside[t \in Scopes(file) \cup {0}] == t = s \/ (t > s /\ inside[file.parent[t]])
    IN  {t \in Scopes(file) : inside[t]}

\* capturesInTestBody: what is in the body of s but in no function nested there.
Owned(file, s) == {c \in file.calls : c.at = s}
InRange(file, s) == {c \in file.calls : c.at \in Within(file, s)}

\* The TypeScript providers go by lines, the others by the test's own body.
ByLines == {"vitest", "node-test"}
BodyCalls(P, file, t) == IF P \in ByLines THEN InRange(file, t) ELSE Owned(file, t)

Names(file, S) == {file.name[s] : s \in S}
HasDirect(calls) == \E c \in calls : c.callee = "assert"

\* assertionWrapperScope: the named functions with a direct assertion between
\* their first and their last line.
WrappersAmong(file, functions) == Names(file, {s \in functions : HasDirect(InRange(file, s))})

\* A mutant of JUnitWrappers: only methods that assert themselves are wrappers.
JUnitWrappersDirect(file) ==
    Names(file, {s \in Scopes(file) : file.form[s] \in {"function", "test"} /\ HasDirect(Owned(file, s))})

\* The fixpoint over the methods of a class, by name: a method that asserts, or
\* calls another one that does, outside its closures.
JUnitWrappers(file) ==
    LET methods == {s \in Scopes(file) : file.form[s] \in {"function", "test"}}
        all == Names(file, methods)
        called(n) == {c.callee : c \in UNION {Owned(file, s) : s \in {m \in methods : file.name[m] = n}}}
        grow[i \in 0..Cardinality(all)] ==
            IF i = 0 THEN {}
            ELSE grow[i - 1] \cup {n \in all : \E x \in called(n) : x = "assert" \/ (x # n /\ x \in grow[i - 1])}
    IN  grow[Cardinality(all)]

\* resolveCrossFileAssertionScope: the names of functions around an assertion
\* in the imported files that are no production code, all in one set; each
\* file is read once for a run.
ImportedWrappers(exports, imports, production) == UNION {exports[f] : f \in imports \ production}

\* The wrappers each provider accepts beside direct assertions.
TsWrappers(file) ==
    WrappersAmong(file, {s \in Scopes(file) : file.form[s] = "function"}) \cup file.imported

PytestWrappers(file) ==
    WrappersAmong(file, {s \in Scopes(file) : /\ file.form[s] = "function"
                                              /\ file.name[s] \notin Names(file, Tests(file))
                                              /\ \A t \in Tests(file) : s \notin Within(file, t)})
      \cup file.imported

Wrappers(P, file) ==
    CASE P \in ByLines -> TsWrappers(file)
      [] P = "pytest" -> PytestWrappers(file)
      [] P = "junit" -> JUnitWrappers(file) \cup file.imported
      [] OTHER -> {}

CallCount(P, file, t) ==
    Cardinality({c \in BodyCalls(P, file, t) : c.callee = "assert" \/ c.callee \in Wrappers(P, file)})

\* At least one statement: an empty JUnit test asserts nothing by its annotation.
HasStatement(file, t) ==
    Owned(file, t) # {} \/ file.guards[t] > 0 \/ \E s \in Scopes(file) : file.parent[s] = t

\* The assertions of a test as a provider counts them: Go adds comparisons, JUnit
\* a declared exception.
GoCount(file, t) == CallCount("go", file, t) + file.guards[t]
JUnitCount(file, t) ==
    CallCount("junit", file, t) + IF "expects" \in file.marks[t] /\ HasStatement(file, t) THEN 1 ELSE 0
AssertionCount(P, file, t) ==
    CASE P = "go" -> GoCount(file, t) [] P = "junit" -> JUnitCount(file, t) [] OTHER -> CallCount(P, file, t)

\* controlFlowInTestBody: 1 for a branch and 0.3 for a case, in tenths.
ControlFlow(file, t) ==
    LET own(full) == Cardinality({b \in file.branches : b.at = t /\ b.full = full})
    IN  10 * own(TRUE) + 3 * own(FALSE)

Marked(file, mark, kind, S) == {[kind |-> kind, at |-> s] : s \in {x \in S : mark \in file.marks[x]}}
SkipCalls(file) ==
    {[kind |-> "unapproved_skip", at |-> t] :
        t \in {x \in Tests(file) : \E c \in Owned(file, x) : c.callee = "skip"}}
Silent(P, file) == {t \in Tests(file) : "skip" \notin file.marks[t] /\ AssertionCount(P, file, t) = 0}
Missing(S) == {[kind |-> "missing_assertion", at |-> t] : t \in S}

\* Focused and skipped tests and suites, and tests without a known assertion.
TsFindings(P, file) ==
    LET units == {s \in Scopes(file) : file.form[s] \in {"test", "suite"}}
    IN  Marked(file, "only", "focused_test", units) \cup Marked(file, "skip", "unapproved_skip", units)
          \cup Missing(Silent(P, file))

PytestFindings(file) ==
    Marked(file, "skip", "unapproved_skip", Tests(file)) \cup SkipCalls(file)
      \cup Missing({t \in Silent("pytest", file) : [kind |-> "unapproved_skip", at |-> t] \notin SkipCalls(file)})

JUnitFindings(file) ==
    Marked(file, "skip", "unapproved_skip", Tests(file))
      \cup Missing({t \in Silent("junit", file) : HasStatement(file, t)})
      \cup {[kind |-> "empty_test_body", at |-> t] : t \in {x \in Silent("junit", file) : ~HasStatement(file, x)}}

\* The Rust provider finds a test's metrics by its name, so the first test's of
\* that name; any call in the body saves a test.
RustCounted(file, t) ==
    CHOOSE u \in Tests(file) : /\ file.name[u] = file.name[t]
                               /\ \A v \in Tests(file) : file.name[v] = file.name[t] => u <= v
RustFindings(file) ==
    Marked(file, "skip", "unapproved_skip", Tests(file))
      \cup Missing({t \in Tests(file) : /\ "skip" \notin file.marks[t] /\ Owned(file, t) = {}
                                        /\ AssertionCount("rust", file, RustCounted(file, t)) = 0})

Findings(P, file) ==
    CASE P \in ByLines -> TsFindings(P, file)
      [] P = "go" -> SkipCalls(file)
      [] P = "pytest" -> PytestFindings(file)
      [] P = "junit" -> JUnitFindings(file)
      [] P = "rust" -> RustFindings(file)

\* cargoTargetsFor: the manifest of the nearest directory above; one that cannot
\* be read ends the search.  Directory i is in directory i - 1; manifests maps
\* directories to [broken, declared, autotests].
Nearest(manifests, d) ==
    LET above == {i \in DOMAIN manifests : i <= d}
    IN  IF above = {} THEN 0 ELSE CHOOSE i \in above : \A j \in above : j <= i

\* The search stops at the first directory that was visited before, and all that
\* were visited now get the answer found: the cache maps directories to it.
CargoLookup(manifests, cache, d) ==
    LET known == {i \in DOMAIN cache : i <= d}
        from == IF known = {} THEN 0 ELSE CHOOSE i \in known : \A j \in known : j <= i
        answer == IF Nearest(manifests, d) > from THEN Nearest(manifests, d)
                  ELSE IF from = 0 THEN 0 ELSE cache[from]
        stop == IF Nearest(manifests, d) > from THEN Nearest(manifests, d) ELSE from + 1
    IN  [answer |-> answer,
         cache |-> [i \in DOMAIN cache \cup stop..d |-> IF i \in DOMAIN cache THEN cache[i] ELSE answer]]

\* supportsRustTestFile
RustSupports(manifests, m, isDeclared, inTests) ==
    IF m = 0 \/ manifests[m].broken THEN inTests
    ELSE isDeclared \/ (manifests[m].autotests /\ inTests)

\* The imported names a test calls itself: what promotes a module association.
SymbolCalls(P, file, imports) ==
    IF P \in ByLines
    THEN UNION {{[test |-> t, symbol |-> c.callee] : c \in {x \in Owned(file, t) : x.callee \in imports}} :
                   t \in Tests(file)}
    ELSE {}

---------------------------------------------------------------------------
(* Laws *)

\* What a name leads to: assertions between the lines of its functions, or of
\* the functions these call.
Leads(file, callee) ==
    LET functions(n) == {s \in Scopes(file) : file.form[s] # "nested" /\ file.name[s] = n}
        calledIn(n) == {c.callee : c \in UNION {InRange(file, s) : s \in functions(n)}}
        reach[i \in 0..Cardinality(Scopes(file))] ==
            IF i = 0 THEN {callee} ELSE reach[i - 1] \cup UNION {calledIn(n) : n \in reach[i - 1]}
    IN  reach[Cardinality(Scopes(file))]

\* The methods from which a chain of calls outside closures ends in an assertion.
JUnitChains(file) ==
    LET methods == {s \in Scopes(file) : file.form[s] \in {"function", "test"}}
        step(n, m) == \E s \in methods : file.name[s] = n /\ \E c \in Owned(file, s) : c.callee = m
        chains == UNION {[1..k -> Names(file, methods)] : k \in 1..Cardinality(methods)}
    IN  {n \in Names(file, methods) :
            \E p \in chains : LET k == CHOOSE i \in 1..Cardinality(methods) : DOMAIN p = 1..i
                              IN  /\ p[1] = n /\ step(p[k], "assert")
                                  /\ \A i \in 1..(k - 1) : step(p[i], p[i + 1])}

\* A test is reported without assertion only if its own body has none; a JUnit
\* test only if none of the methods it calls outside closures leads to one.
MissingHonest(file) ==
    \A P \in Frameworks : \A f \in Findings(P, file) :
        f.kind \in {"missing_assertion", "empty_test_body"} =>
            /\ ~HasDirect(Owned(file, f.at))
            /\ P = "junit" => \A c \in Owned(file, f.at) : c.callee \notin JUnitChains(file)

\* What counts as an assertion is one: no name is taken for a wrapper unless it
\* leads to an assertion in this file, or was found in a file it imports.
WrappersLead(file) ==
    \A P \in Frameworks : \A n \in Wrappers(P, file) \ file.imported : "assert" \in Leads(file, n)

\* A test is reported once: as skipped, as empty or as asserting nothing.
ReportedOnce(file) ==
    \A P \in Frameworks : \A f, g \in Findings(P, file) :
        f.at = g.at /\ {f.kind, g.kind} \cap {"missing_assertion", "empty_test_body"} # {} =>
            f = g \/ "focused_test" \in {f.kind, g.kind}

\* Whatever files were looked up before, the cached search finds the nearest
\* manifest of a directory (cargoTargetsFor).
CacheTransparent(manifests, dirs) ==
    LET after[i \in 0..Len(dirs)] ==
            IF i = 0 THEN [answer |-> 0, cache |-> <<>>]
            ELSE CargoLookup(manifests, after[i - 1].cache, dirs[i])
    IN  \A i \in 1..Len(dirs) : after[i].answer = Nearest(manifests, dirs[i])

\* A helper in production code does not hide a test without assertions, and one
\* that is imported from elsewhere does (resolveCrossFileAssertionScope).
HelpersApart(exports, imports, production) ==
    \A f \in imports \cap production :
        ImportedWrappers(exports, imports, production) = ImportedWrappers(exports, imports \ {f}, production)
=============================================================================
