------------------------------ MODULE Documents ------------------------------
(***************************************************************************)
(* The document library (document-store/, cli/commands/docs.ts): the scan  *)
(* of Markdown that fingerprints and fill checks rest on, the index of     *)
(* fingerprints, similarity candidates, and the decisions on them.         *)
(*                                                                         *)
(* A document is a sequence of lines, a line a sequence of marks: "open"   *)
(* and "close" begin and end a comment, "tick" delimits inline code, "x"   *)
(* is text and "p" a placeholder such as TBD.  A line may also be a fence  *)
(* of some character and length, bare when nothing follows, a rule (---),  *)
(* a key of a YAML mapping, or a heading, required in a record or not.     *)
(***************************************************************************)
EXTENDS Naturals, Sequences, FiniteSets, FiniteSetsExt, SequencesExt

CONSTANT None

Text(marks) == [is |-> "text", marks |-> marks]
Fence(char, length, bare) == [is |-> "fence", char |-> char, length |-> length, bare |-> bare, marks |-> <<"x">>]
Rule == [is |-> "rule", marks |-> <<"x">>]
Key == [is |-> "key", marks |-> <<"x">>]
Heading(required) == [is |-> "heading", required |-> required, marks |-> <<"x">>]

---------------------------------------------------------------------------
(* The scan (MarkdownStructure.ts) *)

\* frontmatterEnd: a first rule, and a second with only a mapping in between.
FrontmatterEnd(doc) ==
    LET ends == {i \in 2..Len(doc) : doc[i].is = "rule"}
    IN  IF doc = <<>> \/ doc[1].is # "rule" \/ ends = {} THEN 0
        ELSE LET end == Min(ends) IN IF \A i \in 2..(end - 1) : doc[i].is = "key" THEN end ELSE 0

\* closesFence
Closers(doc, i) == {j \in (i + 1)..Len(doc) : doc[j].is = "fence" /\ doc[j].char = doc[i].char
                                             /\ doc[j].length >= doc[i].length /\ doc[j].bare}

\* inlineCodeSpans: the first delimiter pairs with the second, and so on.
InCode(marks, p) ==
    LET ticks == {q \in DOMAIN marks : marks[q] = "tick"}
        before == Cardinality({q \in ticks : q <= p})
    IN  before % 2 = 1 /\ \E q \in ticks : q > p

\* The marks from position a to position b, both included.
Upto(doc, a, b) ==
    UNION {{<<i, p>> : p \in {q \in DOMAIN doc[i].marks : (i = a[1] => q >= a[2]) /\ (i = b[1] => q <= b[2])}}
           : i \in a[1]..b[1]}

\* One mark outside fences: a comment begins outside inline code and ends
\* anywhere.
ScanMark(doc, s, i, p) ==
    LET mark == doc[i].marks[p]
    IN  CASE s.open # None /\ mark = "close" -> [s EXCEPT !.open = None, !.removed = @ \cup Upto(doc, s.open, <<i, p>>)]
          [] s.open = None /\ mark = "open" /\ ~InCode(doc[i].marks, p) -> [s EXCEPT !.open = <<i, p>>]
          [] OTHER -> s

\* A fence opens outside of comments; after one that nothing closes no other does.
Opens(doc, s, i) == s.open = None /\ doc[i].is = "fence" /\ ~s.exhausted

ScanLine(doc, s, i) ==
    LET opens == Opens(doc, s, i)
        marked == [s EXCEPT !.exhausted = @ \/ opens]
    IN  CASE i <= s.until -> s
          [] i > s.until /\ opens /\ Closers(doc, i) # {} ->
                [s EXCEPT !.until = Min(Closers(doc, i)), !.fenced = @ \cup i..Min(Closers(doc, i))]
          [] OTHER -> FoldLeft(LAMBDA t, p : ScanMark(doc, t, i, p), marked, [p \in DOMAIN doc[i].marks |-> p])

\* scanMarkdown
Scan(doc) ==
    LET body == FrontmatterEnd(doc)
        start == [open |-> None, until |-> body, fenced |-> {}, removed |-> {}, exhausted |-> FALSE]
    IN  FoldLeft(LAMBDA s, i : ScanLine(doc, s, i), start, [i \in DOMAIN doc |-> i])

\* applyCommentSpans: the marks of line i that are kept.
Kept(doc, s, i) == SelectSeq([p \in DOMAIN doc[i].marks |-> <<p, doc[i].marks[p]>>],
                             LAMBDA m : <<i, m[1]>> \notin s.removed)

\* Nothing is removed that is not proven to be a comment: it lies between a
\* beginning and an end that are removed with it, outside fences, frontmatter and,
\* at its beginning, inline code (applyCommentSpans).
OnlyComments(doc) ==
    LET s == Scan(doc)
    IN  \A t \in s.removed :
           /\ t[1] \notin s.fenced /\ t[1] > FrontmatterEnd(doc)
           /\ \E a, b \in s.removed :
                 /\ t \in Upto(doc, a, b) /\ Upto(doc, a, b) \subseteq s.removed
                 /\ doc[a[1]].marks[a[2]] = "open" /\ ~InCode(doc[a[1]].marks, a[2]) /\ doc[b[1]].marks[b[2]] = "close"

\* No comment that ends is kept (scanMarkdown).
CommentsGone(doc) ==
    LET s == Scan(doc)
        open(i) == i > FrontmatterEnd(doc) /\ i \notin s.fenced
    IN  \A i \in DOMAIN doc : \A p \in DOMAIN doc[i].marks :
           (open(i) /\ doc[i].marks[p] = "open" /\ ~InCode(doc[i].marks, p) /\ <<i, p>> \notin s.removed) =>
              \A j \in i..Len(doc) : \A q \in DOMAIN doc[j].marks :
                 (open(j) /\ (j = i => q > p)) => doc[j].marks[q] # "close"

\* Every fence that opens is closed by one of its kind, or the scan says that it
\* could not tell (unterminatedFence).
FencesClosed(doc) ==
    LET s == Scan(doc)
    IN  \A i \in s.fenced : i - 1 \notin s.fenced =>
           /\ doc[i].is = "fence"
           /\ \E j \in s.fenced \cap Closers(doc, i) : i..j \subseteq s.fenced

---------------------------------------------------------------------------
(* Records that are not filled in (DocumentFill.ts) *)

\* sectionsOf: a section ends at any heading; text of a fence counts.
Headings(doc, s) == {i \in DOMAIN doc : doc[i].is = "heading" /\ i \notin s.fenced /\ <<i, 1>> \notin s.removed}
SectionBody(doc, s, h) ==
    LET next == {j \in Headings(doc, s) : j > h}
        last == IF next = {} THEN Len(doc) ELSE Min(next) - 1
    IN  FlattenSeq([k \in 1..(last - h) |-> Kept(doc, s, h + k)])

\* isPlaceholderBody: nothing, or a single placeholder.
Placeholder(body) == body = <<>> \/ (Len(body) = 1 /\ body[1][2] = "p")

\* isUnfilledRecordDocument, of a document that record wrote.
Unfilled(doc) ==
    LET s == Scan(doc)
    IN  s.exhausted \/ s.open # None
        \/ \E h \in Headings(doc, s) : doc[h].required /\ Placeholder(SectionBody(doc, s, h))

\* A record that passes has text of its own below each required heading, and
\* comments are none (isUnfilledRecordDocument).
FilledMeansText(doc) ==
    LET s == Scan(doc)
    IN  ~Unfilled(doc) =>
           \A h \in Headings(doc, s) : doc[h].required =>
              \E i \in (h + 1)..Len(doc) : /\ Headings(doc, s) \cap (h + 1)..i = {}
                                           /\ \E m \in Range(Kept(doc, s, i)) : TRUE

---------------------------------------------------------------------------
(* The index: a function from paths to contents.  On disk the file may be  *)
(* missing, or there and unreadable, or of another scope.                  *)

\* updateDocumentIndex: a file that is there counts as a cache even when it cannot
\* be read; changed is None when all documents are looked at.
UpdateIndex(file, readable, entries, disk, staged, changed) ==
    LET old == IF file /\ readable THEN entries ELSE <<>>
        full == changed = None \/ ~file
        paths == IF full THEN DOMAIN disk ELSE changed
        content(p) == IF p \in DOMAIN staged THEN staged[p] ELSE IF p \in DOMAIN disk THEN disk[p] ELSE None
        there == {p \in paths : content(p) # None}
        kept == IF full THEN {} ELSE DOMAIN old \ paths
    IN  [p \in kept \cup there |-> IF p \in there THEN content(p) ELSE old[p]]

\* A check of everything brings the index up to date, whatever it was; a check of
\* some documents on a readable index does so for these and leaves the others
\* (updateDocumentIndex).
IndexFollows(file, readable, entries, disk, changed) ==
    LET new == UpdateIndex(file, readable, entries, disk, <<>>, changed)
    IN  /\ (changed = None \/ ~file) => new = disk
        /\ (changed # None /\ file /\ readable) =>
              \A p \in DOMAIN entries \cup DOMAIN disk :
                 LET was == IF p \in changed THEN disk ELSE entries
                 IN  (p \in DOMAIN new <=> p \in DOMAIN was) /\ (p \in DOMAIN new => new[p] = was[p])

---------------------------------------------------------------------------
(* Similarity.  A document has features; a seed orders all features, and   *)
(* the fingerprint of a seed is the least of the document, or 0 when there *)
(* are none.                                                               *)

\* minHashOf
MinHash(features, seeds) ==
    [s \in DOMAIN seeds |-> IF features = {} THEN 0 ELSE Min({seeds[s][f] : f \in features})]

\* minHashSimilarity, times the number of seeds
Agreeing(a, b) == Cardinality({s \in DOMAIN a : a[s] = b[s]})

\* bucketKeys: bands of two seeds.
SameBucket(a, b) == \E s \in DOMAIN a : s % 2 = 1 /\ a[s] = b[s] /\ a[s + 1] = b[s + 1]

\* findDocumentSimilarityCandidates: index maps paths to fingerprints; only pairs
\* with a changed document and a common bucket are compared.
Candidates(index, changed, least) ==
    {pair \in SUBSET DOMAIN index :
        /\ Cardinality(pair) = 2 /\ pair \cap changed # {}
        /\ \A a, b \in pair : a # b => SameBucket(index[a], index[b]) /\ Agreeing(index[a], index[b]) >= least}

\* Which of two documents changed does not matter, and copies are always found
\* (findDocumentSimilarityCandidates).
CandidatesFair(features, seeds, least) ==
    LET index == [d \in DOMAIN features |-> MinHash(features[d], seeds)]
    IN  /\ \A d, e \in DOMAIN features : d # e =>
              (({d, e} \in Candidates(index, {d}, least)) <=> ({d, e} \in Candidates(index, {e}, least)))
        /\ \A d, e \in DOMAIN features : (d # e /\ features[d] = features[e]) => {d, e} \in Candidates(index, {d}, least)
        /\ Candidates(index, DOMAIN index, least) = UNION {Candidates(index, {d}, least) : d \in DOMAIN index}

---------------------------------------------------------------------------
(* Decisions on candidates (DocumentDispositions.ts) *)

\* recordDocumentDisposition: the decision on a pair replaces the one before.
Decide(file, left, right, decision) ==
    Append(SelectSeq(file, LAMBDA e : {e.left, e.right} # {left, right}),
           [left |-> left, right |-> right, decision |-> decision])

\* After any sequence of decisions each pair has the last one, in either order,
\* and no candidate that was decided on is open (unresolvedSimilarityCandidates).
DecisionsLast(decisions, candidates) ==
    LET file == FoldLeft(LAMBDA f, d : IF d.left = d.right THEN f ELSE Decide(f, d.left, d.right, d.decision), <<>>, decisions)
        on(pair) == {i \in DOMAIN decisions : {decisions[i].left, decisions[i].right} = pair}
        open == {c \in candidates : \A i \in DOMAIN file : {file[i].left, file[i].right} # c}
    IN  /\ \A i, j \in DOMAIN file : i # j => {file[i].left, file[i].right} # {file[j].left, file[j].right}
        /\ \A i \in DOMAIN file : file[i].decision = decisions[Max(on({file[i].left, file[i].right}))].decision
        /\ open = {c \in candidates : on(c) = {}}

---------------------------------------------------------------------------
(* openarch docs check *)

\* checkDocuments: a check has the scope `file`, `readable`, `entries` and `disk` of
\* UpdateIndex; what it records of itself, and the capabilities' maintenance when
\* their document is among the changed ones and still there.
DocsCheck(file, readable, entries, disk, staged, changed) ==
    LET index == UpdateIndex(file, readable, entries, disk, staged, changed)
        looked == IF changed = None \/ ~file THEN DOMAIN disk ELSE changed
    IN  [index |-> index, looked |-> looked,
         unfilled |-> {p \in looked \cap DOMAIN index : index[p] = "unfilled"},
         observed |-> IF changed # None /\ "capability" \in looked \cap DOMAIN index
                      THEN {"similarity", "capability"} ELSE {"similarity"}]

\* docsCommand: unfilled records decide the exit code of a check of named or staged
\* documents, not of a look at all of them.
DocsExit(check, changed, onlyUnfilled, onlySimilar) ==
    IF ~onlySimilar /\ (onlyUnfilled \/ changed # None) /\ check.unfilled # {} THEN 1 ELSE 0

\* A staged check that passes has seen every staged record filled in, in the bytes
\* that are staged; it fails for a record it looked at and nothing else; and the
\* capabilities are said to be maintained for the content that is indexed
\* (docsCommand).
DocsHonest(file, readable, entries, disk, staged) ==
    LET changed == DOMAIN staged
        check == DocsCheck(file, readable, entries, disk, staged, changed)
    IN  /\ (DocsExit(check, changed, FALSE, FALSE) = 0 /\ changed \subseteq DOMAIN disk) =>
              \A p \in changed : staged[p] # "unfilled"
        /\ (DocsExit(check, changed, FALSE, FALSE) = 1 /\ file) => \E p \in changed : staged[p] = "unfilled"
        /\ "capability" \in check.observed =>
              check.index["capability"] = (IF "capability" \in changed THEN staged ELSE disk)["capability"]
=============================================================================
