CONSTANTS
    d1 = d1
    d2 = d2
    k1 = k1
    p1 = p1
    Null = Null
    Dev <- OneDev
    Cont <- OneCont
    Status <- Statuses
    Rcpt <- OneRcpt
    Prefs <- AllOn
    Feed <- AlarmOut
    Day = 5
    SleepFrom = 4
    SleepTo = 1
    DailyAt = 1
    PowerMin = 1
    PowerHold = 1
    PowerWindow = 1
    EvLimit = 1
    MayFail = TRUE
    MayCrash = FALSE
    PassTime = 1
    MaxTime = 6
    MaxEv = 2
SPECIFICATION Spec
INVARIANTS
    DailyOnce
    PowerSavedIsTold
PROPERTIES
    NothingToldTwice
CHECK_DEADLOCK FALSE
