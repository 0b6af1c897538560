SPECIFICATION Spec
CONSTANTS
    t1 = t1
    t2 = t2
    v1 = v1
    v2 = v2
    Files <- TwoTasks
    Docs <- TwoTasks
    Editable <- OtherTask
    Versions = {v1, v2}
    Writers = {r1, r2}
    Agents = {a}
    Local = TRUE
    PushAttempts = 3
    None = None
    Dirty = Dirty
    NoHash = NoHash
    MaxHeads = 3
    DependsOn <- T1OnT2
    Targets = {k}
    LeaseIds = {1}
    SeedHeads <- OneCommit
    SeedLogs <- T1WaitsLong
SYMMETRY Symmetry
INVARIANT VerifiedSeen
PROPERTY TasksImplemented
