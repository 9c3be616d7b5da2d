SPECIFICATION FairGameSpec
CONSTANTS
    A = A
    B = B
    None = None
    Torn = Torn
    Width = 2
    Cap = 2
    MaxRolls = 1
    Link = "stream"
    MayCancel = {A, B}
    RollAfterFailure = FALSE
    Sides = 3
    NumDice = 2
    Words = 3
    max = 7
INVARIANTS
    GameTypeOK
    AnswerIsShared
    DiceAreFair
PROPERTIES
    BothReturn
CHECK_DEADLOCK FALSE
