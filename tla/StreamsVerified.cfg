SPECIFICATION FairSpec
CONSTANTS
    a = a
    b = b
    None = None
    Peers = {a, b}
    Streams <- TwoGamesOfA
    Dialled <- DialledGames
    SameName = TRUE
    TTL = 1
    MaxTime = 2
    MaxMessages = 3
    Window = 2
INVARIANTS
    TypeOK
    Inductive
    ChainFollowsStream
    RefusedInsertHasRival
PROPERTIES
    RefusedOnlyAfterPause
    KnownPeersNeedNoNetwork
    EveryMessageJudged
