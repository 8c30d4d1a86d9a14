CONSTANTS
    Base = 4
    Id = 2
    Texts <- SomeTexts
    Blocks <- SomeBlocks
    BufSize = 8
    Throws = TRUE
    MaxSent = 2
SPECIFICATION Spec
CHECK_DEADLOCK FALSE
INVARIANTS Delivered BlockInPlace Prompt
