SPECIFICATION Spec
CONSTANTS
    Host = Host
    Challenger = Challenger
    None = None
    Goal = 4
    Sides = 2
    Wire = "channel"
    IntRange = 256
    MayDisconnect = FALSE
    MayRefuse = FALSE
    Pawn1Depth = 1
    Pawn2Depth = 1
INVARIANTS
    BoardsMirror
    Inductive
    NoPawnsCollide
PROPERTIES
    PlaysOneGame
