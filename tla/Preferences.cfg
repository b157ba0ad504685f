SPECIFICATION Spec
CONSTANTS
    port = port
    mode = mode
    path = path
    a = a
    b = b
    c = c
    Fields = {port, mode, path}
    Switches = {mode}
    Optional = {path}
    Values <- MCValues
    Conflicts <- MCConflicts
    Urls = {a, b, c}
    Uris = {p}
    NoUri = NoUri
    Releases <- MCReleases
    Legacy <- MCLegacy
    Slots = {r1, r2}
    MaxEdits = 2
    MaxStarts = 3
    MaxEvents = 4
SYMMETRY Symmetry
INVARIANTS UrlsUnique MigrationSafe
PROPERTIES BootKeepsSettings BootKeepsRows LoneEditSyncs
CHECK_DEADLOCK FALSE
