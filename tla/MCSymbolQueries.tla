-------------------------- MODULE MCSymbolQueries --------------------------
EXTENDS SymbolQueries

MCFiles == {1, 2}
MCCandidates == {1, 2}
MCFileOf == [c \in MCCandidates |-> c]
MCKeys == {<<"initialize", 0>>} \cup ({"symbol"} \X MCFiles)
          \cup ({"poll"} \X (1..MaxPolls)) \cup ({"query"} \X MCCandidates)

Job(kind, lang, diag, prb, conc) ==
    [kind |-> kind, lang |-> lang, diag |-> diag, probe |-> prb, warm |-> TRUE,
     conc |-> conc, reason |-> FALSE, unreadable |-> {}, cands |-> MCCandidates,
     lost |-> {}, emptied |-> {}]

\* The providers' options: gopls and pyright wait for diagnostics,
\* rust-analyzer also polls its index, jdtls serves one query at a time; the
\* relation kernels; a file that cannot be read, no candidates, a workspace
\* risk, files edited between the two reads.
MCJobs ==
    { Job("symbols", "go", "always", FALSE, 2),
      Job("symbols", "rust", "always", TRUE, 2),
      [Job("symbols", "java", "none", FALSE, 1) EXCEPT !.unreadable = {2}],
      [Job("symbols", "java", "none", FALSE, 1) EXCEPT !.lost = {1}],
      [Job("symbols", "java", "none", FALSE, 1) EXCEPT !.emptied = {2}],
      [Job("symbols", "python", "always", FALSE, 2) EXCEPT !.cands = {}, !.reason = TRUE],
      [Job("relations", "go", "always", FALSE, 2) EXCEPT !.warm = FALSE],
      [Job("relations", "python", "always", FALSE, 1) EXCEPT !.unreadable = {1}],
      [Job("relations", "java", "whenNoCandidates", FALSE, 1) EXCEPT !.cands = {}],
      [Job("relations", "rust", "whenNoCandidates", TRUE, 1) EXCEPT !.cands = {1}] }
===========================================================================
