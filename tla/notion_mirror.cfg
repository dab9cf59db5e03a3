SPECIFICATION Spec
CONSTANTS
    Issues = {1, 3}
    Pulls = {2}
    PageSize = 2
    None = None
    Blocks = 2
    MaxJobs = 4
    MaxChanges = 2
    MaxRows = 4
INVARIANTS
    MirrorMatches
    NoSecondRow
    PageIsWhole
CHECK_DEADLOCK FALSE
