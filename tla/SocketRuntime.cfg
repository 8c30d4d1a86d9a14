CONSTANTS
    Script <- ScriptRuntime
    Lens = {1, 2}
    PeerMoves = {"half"}
    MaxBytes = 4
    MaxReads = 1
    MaxNested = 2
SPECIFICATION Spec
CHECK_DEADLOCK FALSE
INVARIANT NoDoubleClose
