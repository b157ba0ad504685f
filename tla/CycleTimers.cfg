SPECIFICATION FairTimersSpec
CONSTANTS
    Configs <- MCConfigs
    MaxEdits = 2
    MaxRequests = 1
    Never = Never
INVARIANTS CountdownsAgree FeedEditsFetched
PROPERTIES ConfigSettles TimersFire
CHECK_DEADLOCK FALSE
