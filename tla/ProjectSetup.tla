---------------------------- MODULE ProjectSetup ----------------------------
(***************************************************************************)
(* openarch init: what it leaves on disk when it succeeds, when one of its *)
(* steps fails, and when it is run again (application/init*.ts,            *)
(* governancePersistence.ts, agentSkill.ts, coordinationConfig.ts,         *)
(* document-store/DocumentStore.ts, docs-repo/), and what the readiness    *)
(* report says of it (governanceReadiness.ts).                             *)
(*                                                                         *)
(* config.yml is a sequence of lines [indent, key, value]: a value ""      *)
(* opens a block, key "#" is a comment, and the value "{local}" stands for *)
(* a mapping in flow style that sets persistence to local.                 *)
(***************************************************************************)
EXTENDS Naturals, Sequences, FiniteSets, SequencesExt

Modes == {"local", "tracked"}
Line(indent, key, value) == [indent |-> indent, key |-> key, value |-> value]

---------------------------------------------------------------------------
(* config.yml *)

Content(text) == SelectSeq(text, LAMBDA l : l.key # "#")

\* The lines below line i: up to the next that is not indented deeper.
EndOf(text, i) ==
    LET stops == {j \in (i + 1)..Len(text) : text[j].indent <= text[i].indent}
    IN  IF stops = {} THEN Len(text) ELSE (CHOOSE j \in stops : \A k \in stops : j <= k) - 1
Block(text, i) == SubSeq(text, i + 1, EndOf(text, i))

\* js-yaml accepts the text: deeper lines only below a line that opens a block,
\* a line that ends one is aligned with an open block, no key twice in a block.
Parses(text) ==
    LET c == Content(text)
        sibling(i, j) == i < j /\ c[i].indent = c[j].indent /\ EndOf(c, i) < j
                         /\ \A k \in i..j : c[k].indent >= c[i].indent
    IN  /\ c # <<>> => c[1].indent = 0
        /\ \A i \in 1..(Len(c) - 1) :
              /\ c[i + 1].indent > c[i].indent => c[i].value = ""
              /\ c[i + 1].indent < c[i].indent => \E j \in 1..i : sibling(j, i + 1)
        /\ \A i, j \in DOMAIN c : sibling(i, j) => c[i].key # c[j].key

\* governance, as parsed: a mapping with its children, or something else.
Governance(text) ==
    LET is(kind, ls) == [kind |-> kind, children |-> ls]
        children(below) == {below[k] : k \in {n \in DOMAIN below : below[n].indent = below[1].indent}}
        entry(value, below) ==
            CASE value = "{local}" -> is("mapping", {Line(2, "persistence", "local")})
              [] value = "" /\ below # <<>> -> is("mapping", children(below))
              [] OTHER -> is("other", {})
        first(c, at) == IF at = {} THEN is("absent", {})
                        ELSE LET i == CHOOSE x \in at : TRUE IN entry(c[i].value, Block(c, i))
        of(c) == first(c, {i \in DOMAIN c : c[i].indent = 0 /\ c[i].key = "governance"})
    IN  of(Content(text))

\* readGovernancePersistence: "refused" stands for the error.
Persistence(text) ==
    LET read(kind, set) ==
            IF ~Parses(text) \/ kind = "other" THEN "refused"
            ELSE IF set = {} THEN "tracked"
            ELSE IF set \subseteq Modes THEN CHOOSE m \in set : TRUE ELSE "refused"
        of(g) == read(g.kind, {l.value : l \in {x \in g.children : x.key = "persistence"}})
    IN  of(Governance(text))

\* What else the file says: all of it but the persistence of governance
\* (otherTopLevelShape, readHistoryRetentionPolicy).
Rest(text) == SelectSeq(Content(text), LAMBDA l : l.key \notin {"governance", "persistence"})

\* appendGovernanceBlock
Appended(text, mode) == text \o <<Line(0, "governance", ""), Line(2, "persistence", mode)>>

\* rewriteGovernanceBlock: on the text, comments included; the children are the
\* lines with the smallest indentation in the block.
Rewritten(text, mode) ==
    LET g == CHOOSE i \in DOMAIN text : text[i].key = "governance" /\ text[i].value = ""
        inside == (g + 1)..EndOf(text, g)
        child == {i \in inside : \A j \in inside : text[i].indent <= text[j].indent}
        at == {i \in child : text[i].key = "persistence"}
        p == CHOOSE i \in at : \A j \in at : i <= j
    IN  IF at # {} THEN [text EXCEPT ![p] = Line(@.indent, "persistence", mode)]
        ELSE SubSeq(text, 1, g) \o <<Line(2, "persistence", mode)>> \o SubSeq(text, g + 1, Len(text))

\* setGovernancePersistence with assertPersistenceWriteSafe: the new text, or
\* the old one and an error.
SetPersistence(text, mode) ==
    LET block == \E i \in DOMAIN text : text[i].indent = 0 /\ text[i].key = "governance" /\ text[i].value = ""
        top(t) == SelectSeq(Content(t), LAMBDA l : l.indent = 0 /\ l.key # "governance")
        safe(after) == after = text \/ (Parses(after) /\ Persistence(after) = mode /\ top(after) = top(text))
        checked(after) == IF safe(after) THEN [ok |-> TRUE, text |-> after] ELSE [ok |-> FALSE, text |-> text]
        write(kind) ==
            IF ~Parses(text) \/ kind = "other" \/ (kind = "mapping" /\ ~block)
            THEN [ok |-> FALSE, text |-> text]
            ELSE checked(IF kind = "absent" THEN Appended(text, mode) ELSE Rewritten(text, mode))
    IN  write(Governance(text).kind)

\* The persistence the commit hook reads with awk: the first line below
\* governance that says persistence, at any depth.
HookReads(text) ==
    LET governance(i) == \E g \in 1..(i - 1) : /\ text[g].key = "governance" /\ text[g].value = ""
                                               /\ \A j \in (g + 1)..i : text[j].indent > 0 \/ text[j].key = "#"
        at == {i \in DOMAIN text : text[i].key = "persistence" /\ text[i].indent > 0 /\ governance(i)}
    IN  IF at = {} THEN "tracked" ELSE text[CHOOSE i \in at : \A j \in at : i <= j].value

---------------------------------------------------------------------------
(* Managed text in files of the user: "u" is text of the user, "n" the end *)
(* of a line, "m" the managed block without its last end of line.          *)

\* removeManagedExclude: an end of line before and after go with the block.
RemoveManaged(text) ==
    LET step(acc, c) ==
            CASE c = "m" -> [out |-> (IF acc.out # <<>> /\ Last(acc.out) = "n" /\ ~acc.cut
                                      THEN acc.out ELSE Append(acc.out, "n")), cut |-> TRUE, eat |-> TRUE]
              [] c = "n" /\ acc.eat -> [acc EXCEPT !.eat = FALSE]
              [] OTHER -> [out |-> Append(acc.out, c), cut |-> FALSE, eat |-> FALSE]
    IN  FoldLeft(step, [out |-> <<>>, cut |-> FALSE, eat |-> FALSE], text).out

\* syncGovernancePersistence
SyncExclude(text, mode) ==
    LET rest == RemoveManaged(text)
        closed == IF rest # <<>> /\ Last(rest) # "n" THEN Append(rest, "n") ELSE rest
    IN  IF mode = "local" THEN closed \o <<"m", "n">> ELSE closed

\* The ignore files: what is missing is added at the end
\* (ensureRuntimeArtifactsIgnored, ensureToolchainConfigExcluded,
\* ensureObservationIgnored).
AddMissing(lines, entries) == lines \o SelectSeq(entries, LAMBDA e : e \notin Range(lines))

---------------------------------------------------------------------------
(* Copies that are replaced as a whole *)

\* replaceSkillDirectory: fails are the file operations that fail. The backup is
\* removed in any case, put back or not.
ReplaceSkill(old, fails) ==
    IF "copy" \in fails THEN old ELSE IF old # "none" /\ "backup" \in fails THEN old
    ELSE IF "swap" \in fails THEN (IF "restore" \in fails THEN "none" ELSE old) ELSE "new"

\* installDefaultScripts: what is there is kept unless it is to be replaced.
InstallScripts(there, ids, installable, replace) ==
    [installed |-> {i \in ids \cap installable : i \notin there},
     replaced |-> IF replace THEN ids \cap installable \cap there ELSE {},
     errors |-> ids \ installable]

---------------------------------------------------------------------------
(* Where documents live. Of the disk:                                      *)
(*   docs      the association with a docs repository is on file           *)
(*   target    the directory it names exists                               *)
(*   link      "none", "valid" or "dangling"                               *)
(*   store     "none", "project" or "shared", with its scope <<id, root>>  *)
(*   registry  the scopes of the docs repository                           *)

\* createSymlink: a dangling link does not "exist", is not removed, and the new
\* one cannot be made; the exception is nobody's.
Linked(d) == IF d.link = "dangling" THEN [disk |-> d, code |-> "crash"]
             ELSE [disk |-> [d EXCEPT !.link = "valid"], code |-> "ok"]

\* associateFromLocal: the configuration is written after the link.
Associate(d) ==
    IF ~d.target THEN [disk |-> d, code |-> "refused"]
    ELSE LET r == Linked(d) IN IF r.code = "ok" THEN [r EXCEPT !.disk.docs = TRUE] ELSE r

\* unlinkDocsRepo: the link goes, the configuration stays.
Unlink(d) == [disk |-> [d EXCEPT !.link = IF @ = "dangling" THEN @ ELSE "none"], code |-> "ok"]

Reachable(d) == d.docs /\ d.link = "valid"

\* resolveDocumentStore
Store(d) == IF d.store = "project" THEN "project"
            ELSE IF ~Reachable(d) THEN "none" ELSE IF d.store = "shared" THEN "shared" ELSE "legacy"

\* A mutant of Registrable: only the id is looked up.
RegistrableById(registry, scope) == \A s \in registry : s[1] = scope[1] => s[2] = scope[2]

\* registerSharedDocumentScope: ids and roots belong to each other for good.
Registrable(registry, scope) == \A s \in registry : (s[1] = scope[1]) <=> (s[2] = scope[2])

\* ensureProjectLayout: what is there is kept.
WithLayout(d) == [d EXCEPT !.asset = IF @ = "none" THEN "a" ELSE @]

\* configureSharedDocumentStore, and the hook of the docs repository.
ConfigureScope(d, scope, hook) ==
    IF ~Reachable(d) \/ ~Registrable(d.registry, scope) THEN [disk |-> d, code |-> "refused"]
    ELSE [disk |-> [WithLayout(d) EXCEPT !.registry = @ \cup {scope}, !.store = "shared", !.scope = scope,
                                         !.docsHook = IF hook /\ @ # "foreign" THEN "advisory" ELSE @],
          code |-> "ok"]

---------------------------------------------------------------------------
(* openarch init *)

Done(d) == [disk |-> d, code |-> "ok"]
Then(r, F(_)) == IF r.code = "ok" THEN F(r.disk) ELSE r

\* configureInitDocuments
InitDocuments(d, in) ==
    LET scoped(x) == IF in.scope = <<>> THEN Done(x) ELSE ConfigureScope(x, in.scope, in.installHook)
    IN  CASE in.docsRepo /\ in.project -> [disk |-> d, code |-> "refused"]
          [] in.docsRepo /\ ~in.project /\ in.unlink -> Unlink(d)
          [] in.docsRepo /\ ~in.project /\ ~in.unlink -> Then(Associate(d), scoped)
          [] OTHER -> [disk |-> d, code |-> IF in.scope = <<>> THEN "ok" ELSE "refused"]

DefaultConfig == <<Line(0, "governance", ""), Line(2, "persistence", "tracked"), Line(2, "history", ""),
                   Line(4, "raw_window_days", "180"), Line(0, "languages", "none")>>

\* writeInitConfig: a configuration that is there is left alone.
InitConfig(d) == Done([d EXCEPT !.config = IF @ = <<>> THEN DefaultConfig ELSE @])

\* applyGovernancePersistence
InitPersistence(d, in) ==
    LET apply(set) ==
            IF ~set.ok THEN [disk |-> d, code |-> "refused"]
            ELSE Done([d EXCEPT !.config = set.text,
                                !.exclude = IF d.git THEN SyncExclude(@, in.mode) ELSE @])
    IN  IF in.mode = "none" THEN Done(d) ELSE apply(SetPersistence(d.config, in.mode))

\* installOrUpdateHook: a hook of somebody else is left alone; the directory of
\* the hooks is made where there is no repository, too.
InitHook(d, in) ==
    LET ours == d.hook \in {"openarch", "stale"}
    IN  Done(IF (in.installHook \/ (in.mode # "none" /\ ours)) /\ d.hook # "foreign"
             THEN [d EXCEPT !.hook = "openarch"] ELSE d)

\* installAgentSkill: the language of the skill is read from config.yml.
InitSkill(d, in) ==
    LET skill == ReplaceSkill(d.skill, in.fails)
    IN  IF ~in.agent THEN Done(d)
        ELSE IF ~Parses(d.config) THEN [disk |-> d, code |-> "refused"]
        ELSE [disk |-> [d EXCEPT !.skill = skill], code |-> IF in.fails = {} THEN "ok" ELSE "refused"]

\* configureCoordination: a URL that is not canonical is refused.
InitCoordination(d, in) ==
    CASE in.url = "none" -> Done(d)
      [] in.url = "clear" -> Done([d EXCEPT !.url = "none"])
      [] in.url = "invalid" -> [disk |-> d, code |-> "refused"]
      [] OTHER -> Done([d EXCEPT !.url = in.url])

\* ensureProjectDocumentStore, and the repair of a link in documentStoreMessages
\* that comes last (a dangling link falls back to a text file on any platform
\* and stays as it is).
InitStore(d, in) ==
    LET kept == IF in.project \/ ~d.docs THEN [WithLayout(d) EXCEPT !.store = "project"] ELSE d
    IN  Done([kept EXCEPT !.link = IF kept.docs /\ @ = "none" /\ kept.target THEN "valid" ELSE @])

\* initApp: the first step that fails ends it; what was done stays.
Init_(d, in) ==
    LET persistence(x) == InitPersistence(x, in)
        hook(x) == InitHook(x, in)
        skill(x) == InitSkill(x, in)
        coordination(x) == InitCoordination(x, in)
        store(x) == InitStore(x, in)
    IN  Then(Then(Then(Then(Then(Then(InitDocuments(d, in), InitConfig), persistence), hook), skill),
                  coordination), store)

---------------------------------------------------------------------------
(* The readiness report: a set of <<item, state>> *)

Item(id, ready, otherwise) == {<<id, IF ready THEN "ready" ELSE otherwise>>}

CapabilityItems(d) ==
    IF d.asset = "none" THEN {<<"capability-asset", "unavailable">>}
    ELSE {<<"capability-asset", "ready">>} \cup Item("capability-maintenance", d.seen = d.asset, "not_observed")

CodeHookItems(d) ==
    IF d.hook # "openarch"
    THEN {<<"code-hook", IF d.hook = "none" THEN "not_configured" ELSE "unavailable">>}
    ELSE {<<"code-hook", "ready">>} \cup Item("code-hook-runtime", d.bin, "unavailable")

CoordinationItem(d) == Item("coordination-service", d.url \notin {"none", "invalid"},
                            IF d.url = "none" THEN "not_configured" ELSE "unavailable")

Readiness(d) ==
    LET similarity == Item("document-similarity", d.similarity, "not_observed")
        shared == Item("document-store", Reachable(d), "unavailable")
                  \cup Item("document-scope", d.scope \in d.registry, "unavailable")
                  \cup Item("document-hook", d.docsHook = "advisory", "unavailable")
                  \cup Item("document-hook-runtime", d.bin, "unavailable")
    IN  CodeHookItems(d) \cup CoordinationItem(d) \cup
        CASE Store(d) = "none" -> {<<"document-store", "not_configured">>}
          [] Store(d) = "legacy" -> {<<"document-store", "unavailable">>}
          [] Store(d) = "project" -> {<<"document-store", "ready">>} \cup CapabilityItems(d) \cup similarity
          [] Store(d) = "shared" -> shared \cup CapabilityItems(d) \cup similarity

---------------------------------------------------------------------------
(* Declared shapes *)

\* The shapes mapping of config.yml: from language keys to [mapping, classes],
\* classes from class names to lists of method names; "" stands for a blank
\* or ill-typed entry, and names hold neither a comma nor a semicolon.
WiredLanguages == {"java", "typescript"}
LanguageKeys == WiredLanguages \cup {"vue", "rust"}

LanguageKeyError(l) == IF l \notin LanguageKeys THEN {"invalid_language_key"}
                       ELSE IF l \notin WiredLanguages THEN {"not_wired"} ELSE {}

\* parseShapeClass: one class is wired, two are named but not.
ShapeClassError(class, names) ==
    CASE class \in {"assertion_methods", "fixture_call_patterns"} -> {"not_wired"}
      [] class = "weak_assertion_methods" -> IF \E i \in DOMAIN names : names[i] = "" THEN {"invalid_value"} ELSE {}
      [] OTHER -> {"unknown_shape_class"}

\* parseLanguageEntry
EntryErrors(l, entry) ==
    IF LanguageKeyError(l) # {} THEN LanguageKeyError(l)
    ELSE IF ~entry.mapping THEN {"invalid_value"}
    ELSE UNION {ShapeClassError(c, entry.classes[c]) : c \in DOMAIN entry.classes}
EntryNames(l, entry) ==
    IF LanguageKeyError(l) # {} \/ ~entry.mapping THEN <<>>
    ELSE IF "weak_assertion_methods" \in DOMAIN entry.classes
            /\ ShapeClassError("weak_assertion_methods", entry.classes["weak_assertion_methods"]) = {}
         THEN entry.classes["weak_assertion_methods"] ELSE <<>>

\* parseLanguageShapes: a language without a name is not there.
ParseShapes(declared) ==
    [shapes |-> [l \in {x \in DOMAIN declared : EntryNames(x, declared[x]) # <<>>} |-> EntryNames(l, declared[l])],
     errors |-> UNION {EntryErrors(l, declared[l]) : l \in DOMAIN declared}]

\* shapesFingerprintOf: sorted and without duplicates, so a set.
ShapesFingerprint(shapes) == {<<l, Range(shapes[l])>> : l \in DOMAIN shapes}

\* projectShapesOfRead: a configuration that cannot be read declares nothing.
ReadShapes(readable, declared) ==
    IF ~readable THEN [errors |-> {}, fingerprint |-> {}, source |-> "builtin"]
    ELSE LET parsed == ParseShapes(declared)
             fp == ShapesFingerprint(parsed.shapes)
         IN  [errors |-> parsed.errors, fingerprint |-> fp,
              source |-> IF fp = {} THEN "builtin" ELSE "project"]

---------------------------------------------------------------------------
(* Laws *)

\* The mode is written, read back by the program and, unless another block below
\* governance has a persistence of its own, by the commit hook, and nothing else
\* of the file changes; or the file is left as it was (setGovernancePersistence,
\* renderHookPersistenceResolver).
PersistenceSafe(text, mode) ==
    \A r \in {SetPersistence(text, mode)} :
        /\ r.ok => /\ Persistence(r.text) = mode
                   /\ HookReads(r.text) = mode \/ Cardinality({i \in DOMAIN text : text[i].key = "persistence"}) > 1
                   /\ Rest(r.text) = Rest(text) /\ SetPersistence(r.text, mode) = r
        /\ ~r.ok => r.text = text

\* The text of the user survives, the block is there once, at the end, or not at
\* all, and from the second run on there is nothing to do
\* (syncGovernancePersistence).
ExcludeSettles(text, mode) ==
    LET after == SyncExclude(text, mode)
        of(t, c) == SelectSeq(t, LAMBDA x : x = c)
    IN  /\ of(after, "u") = of(text, "u")
        /\ of(after, "m") = (IF mode = "local" THEN <<"m">> ELSE <<>>)
        /\ SyncExclude(SyncExclude(after, mode), mode) = SyncExclude(after, mode)

\* One operation that fails costs no skill (replaceSkillDirectory).
SkillKept(old, fails) == Cardinality(fails) <= 1 => ReplaceSkill(old, fails) \in {old, "new"}

\* An init that succeeds leaves what it was asked for, as the readiness report
\* sees it, and can be repeated without effect (initApp).
InitDelivers(d, in) ==
    \A r \in {Init_(d, in)} :
        r.code = "ok" =>
            /\ in.installHook /\ d.hook # "foreign" => <<"code-hook", "ready">> \in Readiness(r.disk)
            /\ in.mode # "none" => Persistence(r.disk.config) = in.mode
            /\ in.scope # <<>> /\ ~in.unlink => {<<"document-store", "ready">>, <<"document-scope", "ready">>} \subseteq Readiness(r.disk)
            /\ in.project => <<"document-store", "ready">> \in Readiness(r.disk)
            /\ Init_(r.disk, in) = r

\* An init never touches what others wrote, and one that failed can be repeated
\* without the step that failed (initApp).
InitRespects(d, in) ==
    \A r \in {Init_(d, in)} :
        /\ d.hook = "foreign" => r.disk.hook = "foreign"
        /\ d.config # <<>> => Rest(r.disk.config) = Rest(d.config)
        /\ d.registry \subseteq r.disk.registry /\ d.asset \in {"none", r.disk.asset}
        /\ \A s, t \in r.disk.registry : s[1] = t[1] <=> s[2] = t[2]
        /\ r.code # "ok" => Init_(r.disk, [in EXCEPT !.fails = {}, !.url = "none"]).disk
                             = Init_(d, [in EXCEPT !.fails = {}, !.url = "none"]).disk

\* The report names every item once (governanceReadiness).
ReadinessFunctional(d) == \A i, j \in Readiness(d) : i[1] = j[1] => i = j

\* Two declarations scan accepts have one fingerprint exactly when they mean
\* the same weak assertion methods, in whatever order and however often they
\* name them; an accepted declaration is either the default or taken whole.
ShapesIdentity(a, b) ==
    LET ra == ReadShapes(TRUE, a)
        rb == ReadShapes(TRUE, b)
        weak(d, l) == IF l \notin DOMAIN d THEN {} ELSE UNION {Range(d[l].classes[c]) : c \in DOMAIN d[l].classes}
    IN  ra.errors = {} /\ rb.errors = {} =>
            /\ (ra.fingerprint = rb.fingerprint) = (\A l \in DOMAIN a \cup DOMAIN b : weak(a, l) = weak(b, l))
            /\ (ra.source = "builtin") = (\A l \in DOMAIN a : weak(a, l) = {})
=============================================================================
