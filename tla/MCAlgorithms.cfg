SPECIFICATION Spec
CONSTANTS
    None = None
    MaxVersion = 2
    Slots = {1, 2}
    MaxChars = 3
    Output = 7
    Tracked = {"f", "g"}
    Staging = {"head", "gone", "x", "y"}
    InHead = "head"
    Gone = "gone"
    MaxEdits = 1
INVARIANTS
    ChangeLaws
    EditorSound
    TestLaws
    ProjectLaws
    CommitGuarded
PROPERTY EditorRuns
CHECK_DEADLOCK FALSE
