SPECIFICATION Spec
CONSTANTS
    IntMax = 7
    SizeMod = 32
    Tokens <- McTokens
    MaxTokens = 4
    Elements <- McElements
    MaxElements = 3
    Numbers <- McNumbers
INVARIANTS
    SplitIsInverseOfJoin
    RowsSurviveTheWire
    ConfigIsLastAssignment
    EmailIffLimitCrossed
CHECK_DEADLOCK FALSE
