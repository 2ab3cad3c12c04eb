SPECIFICATION LSpec
CONSTANTS
    NumVars = 3
    NValues <- MCNValues
    SolverLimit = 4
    Programs <- MCPrograms
    p_gen_cex_lim_leaves = 1
    p_gen_cex_heavy <- MCHeavy
    p_gen_cex_normal <- MCNormal
    p_gen_cex_retry <- MCRetry
    RandTries = 1
INVARIANTS
    LTypeOK
    TreePartition
    TreeFitsRuns
    MinCasesRight
    GeneratedAreNew
    ValuesCovered
    TreeAgreesWithRuns
    InterpreterAgrees
    FormsAgree
PROPERTIES
    ImplementsTree
    RunOneLocReturns
