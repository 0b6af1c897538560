--------------------------- MODULE SemanticChanges ---------------------------
(***************************************************************************)
(* The declaration-level change classifier (domain/semanticChanges.ts) and *)
(* the report it is part of (application/semanticDiff.ts).                 *)
(*                                                                         *)
(* A declaration is a record [id, kind, sig, body, public, additive,       *)
(* reexport]: its id is the sequence of the names on the way to it, its    *)
(* signature and body are opaque.  A revision of a file is a record        *)
(* [decls, imports, rest]: the declarations in the parser's order, the     *)
(* imported sources, and the unsupported top-level syntax.                 *)
(***************************************************************************)
EXTENDS Naturals, Sequences, FiniteSets

CONSTANT Absent   \* no revision, or one the parser has no facts of

---------------------------------------------------------------------------
(* Who is who across the two revisions *)

Base(d) == <<d.id, d.kind>>                      \* declarationKey

\* groupByBase and dedupeBySignature: the positions of the declarations of a
\* base, the first of each signature.
Distinct(s, base) ==
    {i \in DOMAIN s : /\ Base(s[i]) = base
                      /\ \A j \in 1..(i - 1) : ~(Base(s[j]) = base /\ s[j].sig = s[i].sig)}

Signatures(s, base) == {s[i].sig : i \in Distinct(s, base)}
OnlyIn(s, other, base) == {i \in Distinct(s, base) : s[i].sig \notin Signatures(other, base)}
Bases(s) == {Base(s[i]) : i \in DOMAIN s}

\* alignGroup: pure additions, pure removals, or one declaration that changed
\* its signature; anything else is ambiguous.
Alignable(b, a, base) ==
    LET gone == OnlyIn(b, a, base)
        new == OnlyIn(a, b, base)
    IN  gone = {} \/ new = {} \/ (Cardinality(gone) = 1 /\ Cardinality(new) = 1)

Unresolved(b, a) == {base \in Bases(b) \cup Bases(a) : ~Alignable(b, a, base)}

\* declarationIdentity, one side of it: declarations with a counterpart of
\* the same signature under that signature, the others under their base (the
\* first of them when there are several).
Identity(s, other) ==
    LET matched == {<<base, s[i].sig>> : base \in Bases(s), i \in DOMAIN s}
        keys == {k \in matched : k[2] \in Signatures(s, k[1]) \cap Signatures(other, k[1])}
                  \cup {<<base, "*">> : base \in {c \in Bases(s) : OnlyIn(s, other, c) # {}}}
    IN  [k \in keys |->
            s[CHOOSE i \in Distinct(s, k[1]) :
                IF k[2] = "*"
                THEN i \in OnlyIn(s, other, k[1]) /\ \A j \in OnlyIn(s, other, k[1]) : i =< j
                ELSE s[i].sig = k[2]]]

\* normalizeReexportIdentity: a re-export takes kind and shape of the one
\* declaration with its id on the other side.
Normalized(s, other) ==
    [i \in DOMAIN s |->
        LET same == {j \in DOMAIN other : other[j].id = s[i].id}
            o == other[CHOOSE j \in same : TRUE]
        IN  IF s[i].reexport /\ Cardinality(same) = 1
            THEN [s[i] EXCEPT !.kind = o.kind, !.sig = o.sig,
                              !.body = IF o.body = "" THEN @ ELSE o.body]
            ELSE s[i]]

---------------------------------------------------------------------------
(* What changed *)

\* declarationKind
DeclarationKind(d, operation) ==
    CASE ~d.public -> IF d.kind = "function" THEN "function_sig" ELSE "function_body"
      [] d.public /\ operation = "add" /\ d.additive -> "compatible_field_add"
      [] OTHER -> CASE d.kind = "interface" -> "interface_add_remove"
                    [] d.kind = "class" -> "class_add_remove"
                    [] d.kind = "field" -> "field_add_remove"
                    [] OTHER -> "public_method_sig"

\* signatureKind
SignatureKind(b, a) ==
    LET kinds == {b.kind, a.kind}
    IN  IF ~b.public /\ ~a.public
        THEN IF "function" \in kinds THEN "function_sig" ELSE "function_body"
        ELSE CASE "interface" \in kinds -> "interface_add_remove"
               [] "class" \in kinds -> "class_add_remove"
               [] "field" \in kinds -> "field_add_remove"
               [] OTHER -> "public_method_sig"

\* hasAncestor
HasAncestor(d, decls) == \E e \in decls : \E n \in 1..(Len(d.id) - 1) : e.id = SubSeq(d.id, 1, n)

\* addedOrRemovedChanges: a member of something added or removed as a whole
\* is not a change of its own.
AddedOrRemoved(here, there, operation) ==
    LET changed == {here[k] : k \in DOMAIN here \ DOMAIN there}
    IN  {[anchor |-> d.id, kind |-> DeclarationKind(d, operation)] :
            d \in {e \in changed : ~HasAncestor(e, changed)}}

\* changedDeclarationUnits
ChangedUnits(b, a) ==
    LET common == DOMAIN b \cap DOMAIN a
        shape(k) == b[k].sig # a[k].sig \/ b[k].public # a[k].public
        body(k) == b[k].kind = "function" /\ b[k].body # a[k].body
    IN  {[anchor |-> b[k].id, kind |-> SignatureKind(b[k], a[k])] : k \in {c \in common : shape(c)}}
          \cup {[anchor |-> b[k].id, kind |-> "function_body"] :
                  k \in {c \in common : ~shape(c) /\ body(c)}}

\* importChanges
ImportChanges(b, a) ==
    {[anchor |-> <<"import", m>>, kind |-> "dependency_add"] : m \in a \ b}
      \cup {[anchor |-> <<"import", m>>, kind |-> "dependency_remove"] : m \in b \ a}

\* analyzeSemanticChanges: the set of changes, or Absent when the revisions
\* cannot be compared.
Decls(r) == IF r = Absent THEN <<>> ELSE r.decls
Imports(r) == IF r = Absent THEN {} ELSE r.imports

Analyze(before, after) ==
    LET b == Normalized(Decls(before), Decls(after))
        a == Normalized(Decls(after), Decls(before))
        bKeys == Identity(b, a)
        aKeys == Identity(a, b)
        changes == AddedOrRemoved(aKeys, bKeys, "add") \cup AddedOrRemoved(bKeys, aKeys, "remove")
                     \cup ChangedUnits(bKeys, aKeys) \cup ImportChanges(Imports(before), Imports(after))
        restChanged == before # Absent /\ after # Absent /\ before.rest # after.rest
    IN  IF (before = Absent /\ after = Absent) \/ Unresolved(b, a) # {} THEN Absent
        ELSE IF changes # {} THEN changes
        ELSE {[anchor |-> <<"file">>,
               kind |-> IF restChanged THEN "function_body" ELSE "comment_whitespace"]}

Cosmetic == {[anchor |-> <<"file">>, kind |-> "comment_whitespace"]}
PublicKinds == {"interface_add_remove", "class_add_remove", "public_method_sig", "field_add_remove"}

---------------------------------------------------------------------------
(* Laws *)

\* A parser that reports no two declarations with one identity and signature.
Plain(r) ==
    \A i, j \in DOMAIN Decls(r) :
        i # j => Base(Decls(r)[i]) # Base(Decls(r)[j]) \/ Decls(r)[i].sig # Decls(r)[j].sig

\* What a reader of the API of the file sees.
Surface(r) == {[d EXCEPT !.body = IF d.kind = "function" THEN @ ELSE ""] :
                 d \in {Decls(r)[i] : i \in DOMAIN Decls(r)}}

\* A change of what the file declares is never called cosmetic: the classifier
\* says comment_whitespace only when declarations, function bodies, imports
\* and the rest of the top level are the same.
NeverSilent(before, after) ==
    /\ Plain(before) /\ Plain(after)
    /\ \A d \in Surface(before) \cup Surface(after) : ~d.reexport
    /\ Analyze(before, after) = Cosmetic
    => {[d EXCEPT !.additive = FALSE] : d \in Surface(before)}
         = {[d EXCEPT !.additive = FALSE] : d \in Surface(after)}

\* The order of the revisions decides only between add and remove: swapping
\* them gives an answer in the same cases and on the same anchors.
Reversible(before, after) ==
    \A there \in {Analyze(before, after)}, back \in {Analyze(after, before)} :
        /\ (there = Absent) = (back = Absent)
        /\ there # Absent => {c.anchor : c \in there} = {c.anchor : c \in back}

\* A declaration whose name is gone, public like all it belonged to, is
\* reported as a change of the public contract, there or at one of these.
RemovalIsPublic(before, after) ==
    \A there \in {Analyze(before, after)} :
        there # Absent =>
          \A d \in Surface(before) :
            LET above == {SubSeq(d.id, 1, n) : n \in 1..Len(d.id)}
            IN  /\ \A e \in Surface(after) : e.id # d.id
                /\ \A e \in Surface(before) : e.id \in above => e.public
                => \E c \in there : c.anchor \in above /\ c.kind \in PublicKinds
=============================================================================
