SPECIFICATION StoresSpec
CONSTANTS
    Ids = {e1, e2, e3}
    Window = 1
    None = None
    MaxDay = 3
    Repositories = {r1, r2}
    SessionIds = {s1}
    Owners = {a, b}
    NoSession = NoSession
    MinTTL = 1
    MaxTTL = 2
    MaxClock = 5
    MaxOpened = 3
    Paths = {p1, p2}
    Versions = {v1, v2}
    Absent = Absent
    NoDir = NoDir
    MaxScans = 3
    Writers = {1, 2}
    PushAttempts = 2
    MaxHeads = 3
    Dirty = Dirty
CHECK_DEADLOCK FALSE
SYMMETRY Symmetry
INVARIANTS
    SessionsExact LedgerExact
PROPERTIES
    RawCovered GenerationsExact NoResurrection NeverOlder
