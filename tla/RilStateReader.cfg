\* Two opens: the first reader is slow to notice that its change was overtaken.
SPECIFICATION Spec
CONSTANTS
    Builds = {TRUE}
    EarlyRequests = 2
    MaxSessions = 2
    MaxRequests = 0
INVARIANT NotOnReader
CHECK_DEADLOCK FALSE
