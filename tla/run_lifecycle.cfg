SPECIFICATION FairLifecycle
CONSTANTS
    MaxRuns = 3
INVARIANTS
    WaveCanBeStopped
PROPERTIES
    StoppedRunSendsNothing
    StoppedRunFallsSilent
