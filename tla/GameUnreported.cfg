SPECIFICATION FairSpec
CONSTANTS
    Host = Host
    Challenger = Challenger
    None = None
    Goal = 3
    Sides = 2
    Wire = "grpc"
    IntRange = 256
    MayDisconnect = FALSE
    MayRefuse = FALSE
    Pawn1Depth = 0
    Pawn2Depth = 0
PROPERTIES
    ChallengedServerReports
