SPECIFICATION Spec
CONSTANTS
    i1 = i1
    i2 = i2
    Issues = {i1, i2}
    Agent = Agent
    NoIssue = NoIssue
    FixAttempts = 1
    MaxCheckpoints = 1
    ReviewCycles = 2
    MaxRuns = 2
    Adapter = "codex"
    MaxUnasked = 1
    Leaving = {"implementing", "feedback"}
CHECK_DEADLOCK FALSE
SYMMETRY Symmetry
INVARIANTS
    TypeOK
    SessionOnItsBranch
    ParkedIsRecorded
PROPERTIES
    MarkedMergedIsMerged
    MergeIsEarned
