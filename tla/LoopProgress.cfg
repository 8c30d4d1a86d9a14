CONSTANTS
    NoTimer = NoTimer
    Timers = {t1, t2}
    Script <- TickScript
    ClearWhen = {}
    MaxQueue = 2
    Ids = 3
SPECIFICATION FairSpec
CHECK_DEADLOCK FALSE
INVARIANTS ExitsDrained
PROPERTIES TicksRun TimersFire LoopEnds
