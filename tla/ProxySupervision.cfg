SPECIFICATION Spec
CONSTANTS
    Uris = {a, b}
    a = a
    b = b
    NoUri = NoUri
    Listeners = {x}
    x = x
    Rotating = FALSE
    MaxFailures = 2
    MaxFailedKeys = 2
    MaxEdits = 1
    Updaters = {"ping"}
    Loops = {"starve"}
    Faults = {"crash", "start", "transfer"}
SYMMETRY UriSymmetry
INVARIANTS
    RunningHasProcess
PROPERTIES
    AutoSkipsFailed
    HealthyUndisturbed
    KeepsServed
    PinHonoured
