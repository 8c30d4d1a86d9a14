CONSTANTS
    ChunkLens <- Short
    MaxPayload = 2
    PromptLen = 2
    MaxBuffer = 4
    MaxReads = 3
SPECIFICATION FairSpec
CHECK_DEADLOCK FALSE
INVARIANTS QueueBounded StatsAgree
PROPERTIES InputResumes EndsFlushed
