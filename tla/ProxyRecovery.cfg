SPECIFICATION FairSpec
CONSTANTS
    Uris = {a, b}
    a = a
    b = b
    NoUri = NoUri
    Listeners = {x}
    x = x
    Rotating = TRUE
    MaxFailures = 2
    MaxFailedKeys = 2
    MaxEdits = 1
    Updaters = {"refresh"}
    Loops = {"health"}
    Faults = {"crash", "transfer"}
PROPERTIES
    Recovers
