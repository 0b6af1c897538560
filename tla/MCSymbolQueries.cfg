CONSTANTS
    Files <- MCFiles
    Candidates <- MCCandidates
    FileOf <- MCFileOf
    Keys <- MCKeys
    MaxPolls = 2
    Jobs <- MCJobs
SPECIFICATION Spec
INVARIANTS CompleteMeansAnswered CleanEnd
PROPERTIES SettledOnce WorkflowEnds
CHECK_DEADLOCK FALSE
