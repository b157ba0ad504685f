SPECIFICATION FairSpec
CONSTANTS
    k1 = k1
    k2 = k2
    own = own
    Keys = {k1, k2}
    Sources = {1, 2, 3}
    Content <- MCContent
    Concurrency = 2
    Attempts = 2
    Stored <- MCStored
    Emergency <- MCEmergency
    BridgeLimit = 2
    PublishedLimit = 1
    BridgePossible = TRUE
INVARIANTS PoolIsExact SourcesAccounted
PROPERTY LoadingEnds
CHECK_DEADLOCK FALSE
