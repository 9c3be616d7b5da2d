SPECIFICATION FairSpec
CONSTANTS
    A = A
    B = B
    None = None
    Torn = Torn
    Width = 2
    Cap = 2
    MaxRolls = 1
    Link = "stream"
    MayCancel = {A, B}
    RollAfterFailure = FALSE
PROPERTIES
    ExchangeEndsWithRoll
CHECK_DEADLOCK FALSE
