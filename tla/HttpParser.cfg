CONSTANTS
    MaxPort = 15
    Streams <- MCStreams
    ReadSizes = {1, 3, 40}
    MaxHeader = 100
    ULLMax = 129
    Width16 = 70
SPECIFICATION Spec
CHECK_DEADLOCK FALSE
INVARIANTS Prompt Refused AssertsHold
