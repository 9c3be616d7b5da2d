SPECIFICATION Spec
CONSTANTS
    A = A
    B = B
    None = None
    Torn = Torn
    Width = 2
    Cap = 3
    MaxRolls = 4
    Link = "channel"
    MayCancel = {A, B}
    RollAfterFailure = FALSE
INVARIANTS
    InLockstep
    RollsPairUp
    AtMostTwoInFlight
CHECK_DEADLOCK FALSE
