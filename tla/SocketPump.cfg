CONSTANTS
    Script <- ScriptPump
    Lens = {1, 2}
    PeerMoves = {}
    MaxBytes = 4
    MaxReads = 1
    MaxNested = 2
SPECIFICATION FairSpec
CHECK_DEADLOCK FALSE
INVARIANTS TypeOK InOrder DrainPromised NoDoubleClose CopiesFreed
PROPERTIES FlushAnnounced CloseCompletes
