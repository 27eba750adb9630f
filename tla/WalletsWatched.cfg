CONSTANTS
    w1 = w1
    w2 = w2
    a1 = a1
    a2 = a2
    r1 = r1
    Watch <- TwoWatches
    Address <- TwoAddr
    Settings <- MCSettings
    Mutes <- OnlyFirst
    MaxTx = 3
    Of <- MCOf
    Class <- MCClass
    Window = 1
    Limit = 2
    Req <- OneReq
    MaxAdds = 2
    MaxFaults = 1
SPECIFICATION FairSpec
INVARIANTS
    TypeOK
    ToldOnce
    
    ClosedIsTold
    NothingSkipped
PROPERTY
    NothingWaits
