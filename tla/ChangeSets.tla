------------------------------ MODULE ChangeSets ------------------------------
(***************************************************************************)
(* What a command takes for "the change": the change set git reports       *)
(* (application/changeSet.ts, gitBlobBatch.ts), the semantic report over   *)
(* it (application/semanticDiff.ts), and the pair of revision snapshots    *)
(* symbol evidence is compared on (application/symbolVersionPair.ts,       *)
(* domain/symbolVersionPair.ts).                                           *)
(*                                                                         *)
(* A tree (a commit, the index or the worktree) is a function from paths   *)
(* to texts.  Git answers the question "which paths" and the question      *)
(* "with which text" one after the other, so a collection is a function of *)
(* the trees compared and of the trees read, which need not be the same.   *)
(***************************************************************************)
EXTENDS Naturals, FiniteSets

CONSTANTS Paths, Production,  \* paths, and those of the population asked for
          Other,              \* of these, the files that are not production code
          Texts,              \* contents of a file
          Absent,             \* no file, no text
          Empty,              \* the empty text
          Large,              \* texts over MAX_GIT_BLOB_BYTES
          Broken,             \* texts the parser refuses
          Ambiguous,          \* texts whose declarations cannot be aligned
          Symbols(_)          \* the declarations a provider finds in a text

---------------------------------------------------------------------------
(* git, as the code uses it *)

\* git diff --name-status --find-renames for renames without an edit: a path
\* that appeared with the text of one that went away.
Renames(b, a) ==
    {q \in Paths \X Paths : /\ b[q[1]] # Absent /\ a[q[1]] = Absent
                            /\ a[q[2]] # Absent /\ b[q[2]] = Absent
                            /\ b[q[1]] = a[q[2]]}
RenameOf(b, a) ==
    CHOOSE r \in SUBSET Renames(b, a) :
        /\ \A x, y \in r : (x[1] = y[1] \/ x[2] = y[2]) => x = y
        /\ \A x \in Renames(b, a) : \E y \in r : x[1] = y[1] \/ x[2] = y[2]

\* parseStatus: a rename is a modification with a beforePath, and what is
\* neither added nor deleted is modified.
ParseStatus(b, a) ==
    LET renamed == RenameOf(b, a)
        gone == {r[1] : r \in renamed}
        new == {r[2] : r \in renamed}
        plain == {p \in Paths \ (gone \cup new) : b[p] # a[p]}
    IN  {[path |-> r[2], beforePath |-> r[1], kind |-> "modified"] : r \in renamed}
          \cup {[path |-> p, beforePath |-> p,
                 kind |-> IF b[p] = Absent THEN "added"
                          ELSE IF a[p] = Absent THEN "deleted" ELSE "modified"] : p \in plain}

---------------------------------------------------------------------------
(* The change set *)

\* readGitBlobs and readCurrentText: a text over the limit is omitted, and
\* marked so; a path that is not in the tree has no text and is not marked.
SourceText(tree, p) ==
    [text |-> IF tree[p] \in Large THEN Absent ELSE tree[p], omitted |-> tree[p] \in Large]

NoText == [text |-> Absent, omitted |-> FALSE]

\* The statuses whose (new) path belongs to the population.
Candidates(b, a) == {s \in ParseStatus(b, a) : s.path \in Production}

\* computeGitChangeSet and collectGitRevisionChangeSet: compared are b and a,
\* read are br and ar.
ChangeSetOf(b, a, br, ar) ==
    LET before(s) == IF s.kind = "added" THEN NoText ELSE SourceText(br, s.beforePath)
        after(s) == IF s.kind = "deleted" THEN NoText ELSE SourceText(ar, s.path)
        files == {[path |-> s.path, beforePath |-> s.beforePath, kind |-> s.kind,
                   before |-> before(s).text, after |-> after(s).text] : s \in Candidates(b, a)}
    IN  [files |-> files,
         availability |-> IF \E s \in Candidates(b, a) : before(s).omitted \/ after(s).omitted
                          THEN "partial" ELSE "available"]

---------------------------------------------------------------------------
(* The semantic report over a change set *)

Readable(t) == t # Absent /\ t # Empty        \* a text JavaScript takes for true
Parsed(t) == Readable(t) /\ t \notin Broken   \* parser.parseText, as an option

Analyzed(file, state) ==
    [file |-> file.path, state |-> state, deleted |-> file.kind = "deleted", unavailable |-> FALSE]

\* failed and unavailableProfile: the file stays in the report, marked.
UnavailableProfile(file) ==
    [file |-> file.path, state |-> IF Parsed(file.before) THEN "git" ELSE "unavailable",
     deleted |-> FALSE, unavailable |-> TRUE]

\* fallback: of a file that is not production code it is enough to say that it
\* changed.
Fallback(file) ==
    [file |-> file.path, state |-> IF file.kind = "added" THEN "introduced" ELSE "unavailable",
     deleted |-> file.kind = "deleted", unavailable |-> FALSE]

\* The cases in which analyzeChangeSetSemantics gives up on the declarations.
Unanalyzable(file) ==
    IF file.kind = "deleted" THEN ~Parsed(file.before) \/ file.before \in Ambiguous
    ELSE \/ ~Readable(file.after)
         \/ Readable(file.before) /\ file.before \in Broken
         \/ file.after \in Broken
         \/ file.before \in Ambiguous \/ file.after \in Ambiguous

\* What it reports as a failure: for a file that is not production code, only
\* that its new text cannot be read.
Failed(file) ==
    /\ Unanalyzable(file)
    /\ file.path \in Other => file.kind # "deleted" /\ ~Readable(file.after)

\* One round of the loop (analyzedProfile for the files that parse).
ProfileOf(file) ==
    IF Unanalyzable(file)
    THEN {IF file.path \in Other THEN Fallback(file) ELSE UnavailableProfile(file)}
    ELSE {Analyzed(file, IF Parsed(file.before) THEN "git" ELSE "introduced")}

\* analyzeChangeSetSemantics: an incomplete change set is not analyzed at
\* all; a file that cannot be analyzed makes the report partial.
SemanticDiff(cs) ==
    LET failed == {f \in cs.files : Failed(f)}
    IN  IF cs.availability # "available" THEN [availability |-> cs.availability, profiles |-> {}]
        ELSE [availability |-> IF failed = {} THEN "available" ELSE "partial",
              profiles |-> UNION {ProfileOf(f) : f \in cs.files}]

---------------------------------------------------------------------------
(* Two revisions as symbol evidence compares them *)

\* collectSymbolRevisionSnapshot: all of the population or a marked part.
Snapshot(tree) ==
    LET files == {p \in Production : tree[p] # Absent}
    IN  [files |-> files,
         availability |-> IF \E p \in files : tree[p] \in Large THEN "partial" ELSE "available"]

\* readSnapshotSupportTexts: the configurations reached over `extends`, one
\* generation after the other, among the paths of the revision.
Extended(extends, known, s) == {extends[p] : p \in {q \in s : extends[q] \in known}}

SupportPaths(extends, known, initial) ==
    LET gen[n \in 0..Cardinality(known)] ==
            IF n = 0 THEN [support |-> initial, pending |-> initial]
            ELSE LET new == Extended(extends, known, gen[n - 1].pending) \ gen[n - 1].support
                 IN  [support |-> gen[n - 1].support \cup new, pending |-> new]
    IN  gen[Cardinality(known)].support

\* changedPathsFor.
ChangedPaths(cs) == [before |-> {f.beforePath : f \in cs.files}, after |-> {f.path : f \in cs.files}]

\* symbolVersionDeclarationIdentity: a declaration is its file and its name.
\* A provider may report several under one identity (overloads).
Facts(tree, files) == UNION {{<<p, s>> : s \in Symbols(tree[p])} : p \in {q \in files : tree[q] # Absent}}
Named(facts, i) == {f \in facts : <<f[1], f[2].name>> = i}

\* pairVersionedSymbolDeclarations.
Pair(before, after, i) ==
    LET nb == Cardinality(Named(before, i))
        na == Cardinality(Named(after, i))
    IN  [identity |-> i, status |-> CASE nb > 1 \/ na > 1 -> "ambiguous"
                                      [] nb = 0 -> "added"
                                      [] na = 0 -> "removed"
                                      [] OTHER -> "matched"]
Pairs(before, after) ==
    {Pair(before, after, <<f[1], f[2].name>>) : f \in before \cup after}

\* prepareRevisionPair and collectTypeScriptSymbolVersionPair,
\* collectLspSymbolVersionPair: the declarations of the changed files of both
\* revisions, or no pairs at all.
VersionPair(b, a) ==
    LET cs == ChangeSetOf(b, a, b, a)
        before == Facts(b, Snapshot(b).files \cap ChangedPaths(cs).before)
        after == Facts(a, Snapshot(a).files \cap ChangedPaths(cs).after)
    IN  IF Snapshot(b).availability # "available" \/ Snapshot(a).availability # "available"
        THEN [availability |-> "partial", pairs |-> {}]
        ELSE [availability |-> "available", pairs |-> Pairs(before, after)]

---------------------------------------------------------------------------
(* Laws *)

RenamedOut(b, a) == {r[1] : r \in {q \in RenameOf(b, a) : q[2] \notin Production}}

\* Whatever the trees do between the two questions to git, a change of a
\* production file is either in a report that calls itself complete, or the
\* report says that it is not; the one exception is a file that was renamed
\* out of the population, of which git only reports the new path.
NoChangeLost(b, a, br, ar) ==
    \A cs \in {ChangeSetOf(b, a, br, ar)} : \A report \in {SemanticDiff(cs)} :
        report.availability = "available" =>
            \A p \in Production : b[p] # a[p] =>
                \/ \E f \in cs.files : /\ p \in {f.path, f.beforePath}
                                       /\ \E pr \in report.profiles :
                                             pr.file = f.path /\ ~pr.unavailable
                \/ p \in RenamedOut(b, a)

\* A file is called introduced only when there was nothing to compare it
\* with in the tree compared or in the tree read.
IntroducedIsNew(b, a, br, ar) ==
    \A f \in ChangeSetOf(b, a, br, ar).files : \A pr \in SemanticDiff(ChangeSetOf(b, a, br, ar)).profiles :
        (pr.file = f.path /\ pr.state = "introduced") =>
            ~Readable(b[f.beforePath]) \/ ~Readable(br[f.beforePath])

\* Complete version-pair evidence pairs every declaration that only one of
\* the two revisions has, as added or removed or ambiguous, never as matched.
PairsComplete(b, a) ==
    LET all(t) == Facts(t, Production)
        names(t) == {<<f[1], f[2].name>> : f \in all(t)}
    IN  \A vp \in {VersionPair(b, a)} : vp.availability = "available" =>
            /\ \A i \in names(b) \ names(a) : i[1] \notin RenamedOut(b, a) =>
                  \E q \in vp.pairs : q.identity = i /\ q.status \in {"removed", "ambiguous"}
            /\ \A i \in names(a) \ names(b) :
                  \E q \in vp.pairs : q.identity = i /\ q.status \in {"added", "ambiguous"}

\* The configurations a snapshot takes along are all that `extends` reaches,
\* also around a cycle.
SupportClosed(extends, known, initial) ==
    LET s == SupportPaths(extends, known, initial)
    IN  initial \subseteq s /\ Extended(extends, known, s) \subseteq s
=============================================================================
