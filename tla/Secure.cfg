CONSTANTS
    Flights = {3, 4}
    FlightLen = 3
    RecordLen = 3
    TextLen = 2
    OutLens = {2, 3}
    InLens = {1, 7}
    MaxRecords = 2
SPECIFICATION FairSpec
CHECK_DEADLOCK FALSE
INVARIANTS Intact Prompt
PROPERTIES Secured
