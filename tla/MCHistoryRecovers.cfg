SPECIFICATION FairSpec
CONSTANTS
    Ids = {e1, e2, e3}
    Window = 1
    None = None
    MaxDay = 3
PROPERTY Recovers
