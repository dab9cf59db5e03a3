SPECIFICATION FairSpec
CONSTANTS
    a1 = a1
    a2 = a2
    b1 = b1
    b2 = b2
    c1 = c1
    repoA = repoA
    repoB = repoB
    repoC = repoC
    NoCap = NoCap
    Tasks <- MCTasks
    Repo <- MCRepo
    Dep <- MCDep
    ExplicitCap = 2
CHECK_DEADLOCK FALSE
INVARIANTS
    TypeOK
    SequentialWithinRepo
    PermitsConserved
    DependenciesOver
    NoLostWakeup
PROPERTIES
    ImplementsContract
    WaveReturns
    PauseDrains
