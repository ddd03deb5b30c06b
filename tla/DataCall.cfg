\* Two supervisors at a time, requests in any order, one reconnection.
SPECIFICATION FairSpec
CONSTANTS
    MaxThreads = 2
    MaxRequests = 3
    MaxPolls = 2
    MaxFails = 1
    MaxExits = 1
    MaxLosses = 1
    MayGiveUp = TRUE
INVARIANTS
    OneSupervisor
    DeactivatedMeansDown
    PidIsChild
    OwnGroupSpared
    FailsBounded
PROPERTIES
    ExitReported
    RequestReturns
\* The request thread and the supervisors may all have ended.
CHECK_DEADLOCK FALSE
