CONSTANTS
    r1 = r1
    r2 = r2
    c1 = c1
    c2 = c2
    c3 = c3
    g1 = g1
    Null = Null
    Req <- OneReq
    Charge <- AllCharges
    Grant <- OneGrant
    Days <- MCDays
    Ops <- WithSweep
    MayFail = TRUE
    MaxTime = 3
SPECIFICATION Spec
INVARIANT TypeOK
PROPERTIES
    PaidDaysKept
    KeepsPromise
