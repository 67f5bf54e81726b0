SPECIFICATION Spec
CONSTANTS
    Groups = {g1, g2}
    Attempts = {a1, a2}
    PerGroupDemoteCap = 1
    SessionDemoteCap = 2
    MaxSession = 4
    None = None
SYMMETRY Symmetry
INVARIANTS TypeOK SharedAttemptRuns OneAttemptPerGroup SessionBudgetBounded
PROPERTY ImplementsDemoteBudget
