CONSTANTS
    w1 = w1
    w2 = w2
    Threads <- TwoThreads
    CreateFails = TRUE
    BootFails = TRUE
SPECIFICATION FairSpec
CHECK_DEADLOCK FALSE
INVARIANTS HandleLives AnsweredTruly
PROPERTIES Answered ProcessEnds
