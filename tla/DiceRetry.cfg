SPECIFICATION FairSpec
CONSTANTS
    A = A
    B = B
    None = None
    Torn = Torn
    Width = 2
    Cap = 1
    MaxRolls = 2
    Link = "pipe"
    MayCancel = {A}
    RollAfterFailure = TRUE
INVARIANTS
    TypeOK
    RollAgreement
    Inductive
PROPERTIES
    ImplementsFairRoll
    EveryRollSucceeds
CHECK_DEADLOCK FALSE
