\* Both builds, two opens (and the reset of s_closed before a third), two requests.
SPECIFICATION FairSpec
CONSTANTS
    Builds = {TRUE, FALSE}
    EarlyRequests = 2
    MaxSessions = 2
    MaxRequests = 2
INVARIANTS
    ClosedIsUnavailable
    Announced
    CloseNotMissed
PROPERTIES
    LossReopens
    ComesUp
CHECK_DEADLOCK FALSE
