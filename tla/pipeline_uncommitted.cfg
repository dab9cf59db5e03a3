SPECIFICATION Spec
CONSTANTS
    i1 = i1
    i2 = i2
    Issues = {i1, i2}
    Agent = Agent
    NoIssue = NoIssue
    FixAttempts = 1
    MaxCheckpoints = 2
    ReviewCycles = 2
    MaxRuns = 1
    Adapter = "codex"
    MaxUnasked = 0
    Leaving = {}
CHECK_DEADLOCK FALSE
SYMMETRY Symmetry
INVARIANTS
    TestedWorkIsCommitted
