SPECIFICATION FairSpec
CONSTANTS
    a = a
    b = b
    c = c
    d = d
    e = e
    u = u
    gone = gone
    Slots = {s1, s2}
    Keys <- MCKeys
    Gone = {gone}
    Entries <- MCEntries
    Calls <- MCCalls
    MinSize = 2
    MaxSize = 3
    Multiplier = 1
INVARIANTS
    Accounted
PROPERTIES
    QuitsAfterStop
    KeepsPromise
    Returns
