SPECIFICATION Spec
CONSTANTS
    Keys = {k1, k2}
    k1 = k1
    k2 = k2
    TopN = 2
    Stability = TRUE
    Asap = FALSE
    ScanAll = FALSE
    Active = TRUE
    AutoPing = FALSE
    FallbackBatch = 1
    FallbackBudget = 1
    BackfillBatch = 1
    Faults = {"persist"}
SYMMETRY KeySymmetry
INVARIANTS
    CyclesInTurn
    NeverProbedTwice
PROPERTIES
    PublishedIsVerified
    WorkingSetSurvives
