CONSTANTS
    d1 = d1
    d2 = d2
    k1 = k1
    p1 = p1
    Null = Null
    Dev <- OneDev
    Cont <- OneCont
    Status <- Statuses
    Rcpt <- OneRcpt
    Prefs <- OfflineOrPower
    Feed <- UpDown
    Day = 6
    SleepFrom = 4
    SleepTo = 1
    DailyAt = 2
    PowerMin = 1
    PowerHold = 1
    PowerWindow = 2
    EvLimit = 5
    MayFail = FALSE
    MayCrash = TRUE
    PassTime = 1
    MaxTime = 8
    MaxEv = 0
SPECIFICATION FairSpec
PROPERTIES
    HeldOfflineTold
    PowerTold

CHECK_DEADLOCK FALSE
