SPECIFICATION Spec
CONSTANTS
    Files = {f1, f2}
    MaxCalls = 4
    MaxBatch = 2
CHECK_DEADLOCK FALSE
INVARIANTS
    AuditMatchesExecution
    ArtifactsAreWhatChanged
    CompletedMeansClean
