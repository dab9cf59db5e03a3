SPECIFICATION ObservabilitySpec
CONSTANTS
    Sessions = {1, 2, 3}
    Captures <- MCCaptures
    MonthDays = 2
    MaxDay = 2
    MaxStrays = 1
    Mishaps <- MCMishaps
    RawDays = 0
    Cap = 1
    Threshold = 10
    RetryRate = 1
    Verbose = 1
    InputRatio = 4
INVARIANTS
    RollupCountsOnce
    ReportFromRollups
    PruneTakesTheOldest
