CONSTANTS
    Script <- ScriptAnswer
    Lens = {1, 2}
    PeerMoves = {"half", "gone"}
    MaxBytes = 4
    MaxReads = 1
    MaxNested = 2
SPECIFICATION Spec
CHECK_DEADLOCK FALSE
INVARIANTS Conservation
PROPERTIES KeepsContract
