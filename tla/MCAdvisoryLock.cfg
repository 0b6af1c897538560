SPECIFICATION Spec
CONSTANTS
    Processes = {p, q, r, s}
    Signalable = {p, q, r, s}
    CrashSets <- OneFileLeft
    NoFile = NoFile
    MaxAttempts = 3
    MaxAcquires = 2
CHECK_DEADLOCK FALSE
SYMMETRY Symmetry
INVARIANTS MutualExclusion FilesOwned
