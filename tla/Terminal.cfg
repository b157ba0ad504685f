SPECIFICATION Spec
CONSTANTS
    a = a
    b = b
    bad = bad
    n = n
    t = t
    m = m
    Urls = {a, b, bad}
    Unfit = {bad}
    Names = {n}
    Numbers = {0, 1, 2}
    Tokens = {t, m, NoToken}
    NoToken = NoToken
    Minted = {m}
    Others = {d}
    Shipped = d
    Uris = {p}
    NoUri = NoUri
    Starts <- MCStarts
INVARIANTS CleanMeansSaved LoopsSeeEdits RowsInOrder
PROPERTY ProtectedHasToken
CHECK_DEADLOCK FALSE
