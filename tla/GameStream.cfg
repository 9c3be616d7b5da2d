SPECIFICATION FairSpec
CONSTANTS
    Host = Host
    Challenger = Challenger
    None = None
    Goal = 3
    Sides = 2
    Wire = "grpc"
    IntRange = 8
    MayDisconnect = TRUE
    MayRefuse = TRUE
    Pawn1Depth = 5
    Pawn2Depth = 0
INVARIANTS
    ResultsOpposite
    HonestMovesAccepted
    ChallengerHearsOfLoss
PROPERTIES
    NobodyIsLeftWaiting
