CONSTANTS
    NoTimer = NoTimer
    Timers = {t1, t2}
    Script <- Ops
    ClearWhen <- ClearsInTime
    MaxQueue = 2
    Ids = 3
SPECIFICATION Spec
CHECK_DEADLOCK FALSE
INVARIANTS TypeOK TicksInOrder NoDoubleClose TimersReleased
