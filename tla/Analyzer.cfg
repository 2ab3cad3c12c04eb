SPECIFICATION Spec
CONSTANTS
    NumVars = 2
    NValues <- MCNValues
    n_batch = 4
    RandIters = {3, 7, 9}
    Entries <- MCEntries
    Answers <- MCAnswers
INVARIANTS
    AnswerReadBack
    TotalsRight
    ValidationExact
    CminCovers
\* An analysis ends, and one that draws more configurations than there are hangs.
CHECK_DEADLOCK FALSE
