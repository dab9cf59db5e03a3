SPECIFICATION Spec
CONSTANTS
    Issues = {i1, i2}
    Agent = Agent
    None = None
    Adapter = "codex"
    MaxCommits = 4
INVARIANTS
    UnmergedWorkIsSeen
    MergedIsRecognised
    HalfSessionIsReset
