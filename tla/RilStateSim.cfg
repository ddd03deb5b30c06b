\* One open, which may last.
SPECIFICATION FairSpec
CONSTANTS
    Builds = {TRUE}
    EarlyRequests = 2
    MaxSessions = 1
    MaxRequests = 1
PROPERTY SimIsPolled
CHECK_DEADLOCK FALSE
