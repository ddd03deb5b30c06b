\* at_handshake's pause outlasts every late answer, nothing is unsolicited.
SPECIFICATION Spec
CONSTANTS
    Threads = {t1}
    Calls <- PlainCalls
    MaxCalls = 1
    MaxUrc = 0
    UrcKinds = {}
    HandshakeRetries = 2
    MaxInfo = 2
    MaxSessions = 1
    ModemMayDrop = FALSE
    DrainCovers = TRUE
    NoThread = NoThread
    NoResp = NoResp
    NoLine = NoLine
INVARIANT DrainedAnswers
