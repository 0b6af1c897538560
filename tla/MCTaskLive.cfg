SPECIFICATION FairSpec
CONSTANTS
    t1 = t1
    t2 = t2
    v1 = v1
    v2 = v2
    Files <- OneTask
    Docs <- OneTask
    Editable <- OneTask
    Versions = {v1, v2}
    Writers = {r1, r2}
    Agents = {a}
    Local = FALSE
    PushAttempts = 3
    None = None
    Dirty = Dirty
    NoHash = NoHash
    MaxHeads = 2
    DependsOn <- NoDeps
    Targets = {k}
    LeaseIds = {1}
    SeedHeads <- OneCommit
    SeedLogs <- Empty
PROPERTY RequestsEnd
