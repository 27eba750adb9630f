CONSTANTS
    d1 = d1
    d2 = d2
    k1 = k1
    p1 = p1
    Null = Null
    Dev <- OneDev
    Cont <- OneCont
    Status <- Statuses
    Rcpt <- OneRcpt
    Prefs <- OnlyOffline
    Feed <- UpDown
    Day = 6
    SleepFrom = 4
    SleepTo = 1
    DailyAt = 2
    PowerMin = 2
    PowerHold = 1
    PowerWindow = 2
    EvLimit = 5
    MayFail = TRUE
    MayCrash = FALSE
    PassTime = 1
    MaxTime = 9
    MaxEv = 0
SPECIFICATION Spec
PROPERTY OfflineThenBack
CHECK_DEADLOCK FALSE
