CONSTANTS
    r1 = r1
    r2 = r2
    c1 = c1
    c2 = c2
    c3 = c3
    g1 = g1
    Null = Null
    Req <- TwoReqs
    Charge <- TwoCharges
    Grant <- NoGrants
    Days <- MCDays
    Ops <- PaymentsOnly
    MayFail = FALSE
    MaxTime = 1
SPECIFICATION Spec
PROPERTY PaidDaysKept
