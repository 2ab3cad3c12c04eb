SPECIFICATION Spec
CONSTANTS
    t1 = t1
    t2 = t2
    c1 = c1
    c2 = c2
    c3 = c3
    Main = main
    Clients <- MCClients
    Program <- MCProgram
    ResetsTimer <- MCRepeats
    Configs <- MCConfigs
    Locs <- MCLocs
    Cover <- MCCover
    Commands <- MCCommands
    MaxCrashes = 1
INVARIANTS
    TypeOK
    RunnerChecksHold
    AnswersAreCoverage
    UnflushedCounted
    CacheIsCoverage
PROPERTIES
    Finishes
    ImplementsCachedRuns
CHECK_DEADLOCK FALSE
