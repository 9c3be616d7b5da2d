SPECIFICATION Spec
CONSTANTS
    Goal = 4
    Sides = 2
    Depth = 1
INVARIANTS
    ChoosesPawnClosestToGoal
CHECK_DEADLOCK FALSE
