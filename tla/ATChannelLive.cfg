\* Liveness: a modem that answers whatever it is there for, one open.
SPECIFICATION FairSpec
CONSTANTS
    Threads = {t1}
    Calls <- AllCalls
    MaxCalls = 1
    MaxUrc = 1
    UrcKinds = {"urc", "cmt", "nocarrier"}
    HandshakeRetries = 2
    MaxInfo = 2
    MaxSessions = 1
    ModemMayDrop = FALSE
    DrainCovers = FALSE
    NoThread = NoThread
    NoResp = NoResp
    NoLine = NoLine
PROPERTIES
    EveryCallReturns
    LossIsReported
