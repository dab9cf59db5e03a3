SPECIFICATION FairSpec
CONSTANTS
    Kinds = {1, 2}
    Levels = {75, 80}
    Threshold = 80
    None = None
    MaxUpdates = 2
INVARIANTS
    HandledOnceInOrder
PROPERTIES
    OpenPauseKeepsItsMeter
    PauseHoldsScheduler
    WaitEnds
