SPECIFICATION Spec
CONSTANTS
    None = None
    Files <- MCFiles
    Langs <- MCLangs
    LangOf <- MCLangOf
    DefaultKind <- MCDefaultKind
    DerivedKind <- MCDerivedKind
    DefaultWeight = 100
    ImplicitEdges <- MCImplicitEdges
    MaxDepth = 3
    Contents <- MCContents
    Configs <- MCConfigs
    Layouts = {FALSE, TRUE}
    Legacy <- MCLegacy
    Partials <- MCPartials
    Trees <- MCTrees
    MaxEdits = 2
    MaxScans = 3
INVARIANTS
    FreshMeansExact
    GateReadyAfterScan
    VerdictSound
PROPERTIES
    VerdictStable
CHECK_DEADLOCK FALSE
