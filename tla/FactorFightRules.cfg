SPECIFICATION Spec
CONSTANTS
    Goal = 5
    Sides = 3
    Depth = 1
INVARIANTS
    EveryTurnHasAMove
    SkippingLosesNothing
    BumpsSeparate
    LastPawnGoesClosest
PROPERTIES
    GoalIsFinal
CHECK_DEADLOCK FALSE
