CONSTANTS
    MaxPort = 15
    Width16 = 16
    Letters = {"a", "1", ":", "/", "?", "#", "@", "[", "]"}
    MaxLetters = 5
SPECIFICATION UrlSpec
CHECK_DEADLOCK FALSE
INVARIANTS FieldsExact SplitterWithinStream
