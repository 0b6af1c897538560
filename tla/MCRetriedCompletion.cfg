SPECIFICATION ClientSpec
CONSTANTS
    Agents = {a, b}
    Deps = {d, e}
    None = None
    NoHash = NoHash
    Retries = 1
    MaxHead = 1
    MaxGrants = 2
    MaxCommands = 2
PROPERTY WritesIdempotent
CHECK_DEADLOCK FALSE
