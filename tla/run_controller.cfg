SPECIFICATION Spec
CONSTANTS
    MaxRuns = 3
INVARIANTS
    ActiveRunIsTheLiveRun
    StoppedRunHasNoTask
PROPERTIES
    NoRunIsRevived
