SPECIFICATION Spec
CONSTANTS
    Repos = 2
    Listings <- MCListings
    Checkouts <- MCCheckouts
    None = None
    MaxRuns = 2
INVARIANTS
    OrderIsSound
    HandOffIsTrue
CHECK_DEADLOCK FALSE
