\* Lines of every length around the buffer's, and prompts; two opens.
SPECIFICATION Spec
CONSTANTS
    Size = 6
    Text = {"a", "b"}
    Frames <- MCFrames
    MaxFrames = 4
    MaxSessions = 2
INVARIANTS
    TypeOK
    EveryLineOnce
    CurWithinRead
    PromptSeen
PROPERTY
    DitchOnlyTooLong
CHECK_DEADLOCK FALSE
