SPECIFICATION FairSpec
CONSTANTS
    Keys = {k1}
    k1 = k1
    TopN = 1
    Stability = TRUE
    Asap = TRUE
    ScanAll = FALSE
    Active = TRUE
    AutoPing = TRUE
    FallbackBatch = 1
    FallbackBudget = 1
    BackfillBatch = 1
    Faults = {"load", "fetch", "persist"}
PROPERTIES
    CyclesEnd
    ImplementsFairMutex
