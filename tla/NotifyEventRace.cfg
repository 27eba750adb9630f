CONSTANTS
    d1 = d1
    d2 = d2
    k1 = k1
    p1 = p1
    Null = Null
    Dev <- OneDev
    Cont <- OneCont
    Status <- Statuses
    Rcpt <- OneRcpt
    Prefs <- Awake
    Feed <- UpDown
    Day = 6
    SleepFrom = 4
    SleepTo = 1
    DailyAt = 2
    PowerMin = 2
    PowerHold = 1
    PowerWindow = 2
    EvLimit = 500
    MayFail = FALSE
    MayCrash = FALSE
    PassTime = 1
    MaxTime = 3
    MaxEv = 2
SPECIFICATION Spec
INVARIANT EventsTold
CHECK_DEADLOCK FALSE
