CONSTANTS
    d1 = d1
    d2 = d2
    k1 = k1
    p1 = p1
    Null = Null
    Dev <- TwoDevs
    Cont <- OneCont
    Status <- Statuses
    Rcpt <- OneRcpt
    Prefs <- AllOnWake
    Feed <- InOut
    Day = 6
    SleepFrom = 4
    SleepTo = 1
    DailyAt = 2
    PowerMin = 2
    PowerHold = 1
    PowerWindow = 2
    EvLimit = 5
    MayFail = FALSE
    MayCrash = FALSE
    PassTime = 1
    MaxTime = 5
    MaxEv = 0
SYMMETRY Symm
SPECIFICATION Spec
INVARIANTS
    TypeOK
    SavedIsTold
PROPERTY OfflineThenBack
CHECK_DEADLOCK FALSE
