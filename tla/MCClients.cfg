SPECIFICATION ClientSpec
CONSTANTS
    Agents = {a, b}
    Deps = {d, e}
    None = None
    NoHash = NoHash
    Retries = 1
    MaxHead = 1
    MaxGrants = 2
    MaxCommands = 2
INVARIANTS ClientSafe ReportsTrue
PROPERTIES ClaimHonest CommandsEnd
CHECK_DEADLOCK FALSE
