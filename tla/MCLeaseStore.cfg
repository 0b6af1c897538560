SPECIFICATION Spec
CONSTANTS
    Keys = {k1, k2}
    Owners = {a, b}
    NoLease = NoLease
    MinTTL = 1
    MaxTTL = 2
    TicksPerSecond = 2
    RestartTicks = 2
    MaxClock = 5
    MaxGrants = 3
SYMMETRY Symmetry
INVARIANTS TypeOK HolderExclusive FenceOrder HeldIsStored
PROPERTIES NoResurrection ImplementsAbs
