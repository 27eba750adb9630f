CONSTANTS
    d0 = d0
    d1 = d1
    d2 = d2
    d3 = d3
    k1 = k1
    a1 = a1
    w1 = w1
    i1 = i1
    Null = Null
    Dev <- Devs
    Cont <- OneCont
    Code <- Codes1
    Worker <- Workers1
    Ip <- Ips1
    Status <- Statuses
    Hash <- MCHash
    Feed <- RowsFeed
    LowPct = 90
    MinDevices = 3
    Gap <- Gaps
    MaxTime = 74
SYMMETRY Symm
SPECIFICATION FarmSpec
INVARIANTS
    TypeOK
    RowTellsItsHistory
    IncidentsDisjoint
PROPERTY WritesTheTable
CHECK_DEADLOCK FALSE
