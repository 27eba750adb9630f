CONSTANTS
    r1 = r1
    r2 = r2
    c1 = c1
    c2 = c2
    c3 = c3
    g1 = g1
    Null = Null
    Req <- TwoReqs
    Charge <- OneCharge
    Grant <- OneGrant
    Days <- MCDays
    Ops <- Deployed
    MayFail = TRUE
    MaxTime = 1
SPECIFICATION FairSpec
INVARIANT
    NeverOvercredited
PROPERTIES
    RowsWrittenOnce
    RevokeTakesEffect
    PaymentAnswered
    OnlyOvertakenTakeTime
