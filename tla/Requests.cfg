\* Every handler against every answer; responses of no, one, three and four lines.
SPECIFICATION FairSpec
CONSTANTS
    LineCounts = {0, 1, 3, 4}
    MaxBlocks = 2
INVARIANTS
    TypeOK
    AnsweredOnce
    CheckedBeforeUse
    ResponsesFreed
    SuccessIsTrue
PROPERTY
    HandlerReturns
