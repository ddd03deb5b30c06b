\* Every structure and order of a file's objects, templates of up to 255 bytes.
SPECIFICATION FairSpec
CONSTANTS
    CharSigned = {TRUE, FALSE}
    SimReplies <- MCSimReplies
    RegReplies <- MCRegReplies
    RadReplies <- MCRadReplies
INVARIANTS
    TypeOK
    AnswerIsReply
    BlockNotOverrun
PROPERTY
    ReplyAnswered
\* A behaviour is one reply.
CHECK_DEADLOCK FALSE
