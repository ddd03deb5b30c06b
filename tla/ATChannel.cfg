\* One command thread, one open: every kind of call, unsolicited line and loss
\* of the device, with two calls besides the handshake.
SPECIFICATION Spec
CONSTANTS
    Threads = {t1}
    Calls <- AllCalls
    MaxCalls = 2
    MaxUrc = 1
    UrcKinds = {"urc", "cmt", "nocarrier"}
    HandshakeRetries = 2
    MaxInfo = 2
    MaxSessions = 1
    ModemMayDrop = FALSE
    DrainCovers = FALSE
    NoThread = NoThread
    NoResp = NoResp
    NoLine = NoLine
INVARIANTS
    TypeOK
    NoLostWakeup
    NoNullDeref
    UsableResult
    AnswerMatches
    CompleteInOrder
PROPERTIES
    PduToOwnPrompt
    ServiceSpec
