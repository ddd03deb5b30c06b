\* The device is reopened once, and the modem may leave commands unanswered.
SPECIFICATION Spec
CONSTANTS
    Threads = {t1}
    Calls <- PlainCalls
    MaxCalls = 2
    MaxUrc = 1
    UrcKinds = {"nocarrier"}
    HandshakeRetries = 2
    MaxInfo = 2
    MaxSessions = 2
    ModemMayDrop = TRUE
    DrainCovers = FALSE
    NoThread = NoThread
    NoResp = NoResp
    NoLine = NoLine
INVARIANT
    AnswerMatches
CHECK_DEADLOCK FALSE
