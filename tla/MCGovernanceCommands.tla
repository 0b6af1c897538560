-------------------------- MODULE MCGovernanceCommands --------------------------
(* Two source files and one of another language, six configurations. *)
EXTENDS GovernanceCommands

MCFiles == {"a", "b", "c"}
MCLangs == {"ts", "go"}
MCLangOf == [f \in MCFiles |-> IF f = "c" THEN "go" ELSE "ts"]
MCDefaultKind == [f \in MCFiles |-> "production"]
MCDerivedKind == [f \in MCFiles |-> IF f = "b" THEN "test" ELSE None]
MCImplicitEdges == {<<"b", "c">>}
Small == [branch |-> 1, imports |-> {}]
Large == [branch |-> 4, imports |-> {"b"}]
MCContents == {Small, Large}
MCTrees == {[a |-> Small, b |-> Large, c |-> None], [a |-> Large, b |-> None, c |-> Small]}
MCPartials == {{"a"}}

NoRules == [f \in MCFiles |-> None]
BurdenRule == [name |-> "burden", on |-> "burden", over |-> 60, level |-> "block"]
BranchRule == [name |-> "branch", on |-> "branch", over |-> 3, level |-> "warn"]
Policy(id, langs, include) ==
    [id |-> id, langs |-> langs, include |-> include, mode |-> "enforce",
     rules |-> {BurdenRule, BranchRule}, weight |-> 100]

Base ==
    [langs |-> {"ts"}, kinds |-> NoRules, policies |-> {Policy("ts", {"ts"}, MCFiles)},
     rules |-> {}, weight |-> 100, shapes |-> "", valid |-> TRUE]
MCConfigs ==
    {Base,
     [Base EXCEPT !.kinds = [NoRules EXCEPT !["b"] = "test"]],
     [Base EXCEPT !.policies = None, !.rules = {BurdenRule}],
     [Base EXCEPT !.langs = {"ts", "go"},
                  !.policies = {Policy("ts", {"ts"}, MCFiles), Policy("all", MCLangs, {"b", "c"})}],
     [Base EXCEPT !.shapes = "bad"]}

\* A baseline of an older version: no hashes, no kinds, no calibration.
OldEntry == [kind |-> None, lang |-> None, branch |-> 4, alpha |-> None, inDegree |-> 0,
             imports |-> {}, hash |-> None, prev |-> None]
MCLegacy ==
    {[scope |-> ScanScope(Base, FALSE), complete |-> TRUE, shapes |-> "",
      contract |-> "metric-contract-v4", identity |-> FALSE, source |-> None, config |-> None,
      p95 |-> 400, calibration |-> None, policyCalibrations |-> <<>>,
      entries |-> [f \in {"a"} |-> OldEntry]]}
=============================================================================
