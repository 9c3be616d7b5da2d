SPECIFICATION FairSpec
CONSTANTS
    b = b
    c = c
    d = d
    me = me
    local = local
    remote = remote
    mine = mine
    Owner = Owner
    None = None
    Self = me
    Calls = {1, 2}
    Players <- Others
    Addresses <- Places
    AddressOf <- Where
    NameOf <- Called
    AnswersAt <- Dialled
    UrlAddresses = {remote}
    Registered = {"HighRoll"}
    Requests <- SendsAndStreams
    Tables <- SomeTables
    MaxStarts = 2
    MayFail = TRUE
INVARIANTS
    TypeOK
    Inductive
    AddedIdentityIsStored
    LastTrustHolds
    OwnerIsObeyed
PROPERTIES
    GivenUpGameEnds
    StopEnds
