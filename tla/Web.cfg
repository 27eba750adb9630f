CONSTANTS
    None = None
    Spin = Spin
    MaxPairs = 4
    MaxSends = 2
    Code = {x1, x2}
    Slot = {1, 2}
    Poller = {p1, p2}
    Lossy = TRUE
    d1 = d1
    d2 = d2
    d3 = d3
    d4 = d4
    s1 = s1
    s2 = s2
    k1 = k1
    k2 = k2
    c1 = c1
    c2 = c2
    m1 = m1
    m2 = m2
    t1 = t1
    q1 = q1
    Most <- MCMost
    Devs <- MCDevs
    Steps <- MCSteps
    Pages <- MCPages
    Of <- MCOf
    Alarmed = {1}
    Found = {2}
    Site = {s1, s2}
    Client = {k1, k2}
    SiteOf <- MCSiteOf
    ClientOf <- MCClientOf
    Cont = {c1, c2}
    Model = {m1, m2}
    Class = {"offline", "hashrate"}
    DevSort <- MCSort
    Section = {1, 2}
    KindOf <- MCKindOf
    Row = {1, 2, 3, 4}
    Named = {1, 2}
    Num <- MCNum
    Val <- MCVal
    Expr <- MCExpr
    Given <- MCGiven
    PageN = 2
    Name = {"A", "M", "x"}
    Inputs <- MCInputs
    Ktp = {1, 2, 3}
    Feeder <- MCFeeder
    Load = {0, 6}
    Meter = {m1, m2}
    Hour = {1, 2, 3}
    Day = {"d1", "d2"}
    DayOf <- MCDayOf
    File <- MCFile
    Acc = {1, 2, 3, 4}
    CoinOf <- MCCoinOf
    PoolOf <- MCPoolOf
    FoundLinks = {1, 2}
    Now = {1}
    Up <- MCUp
    Today = 62
    MonthOf <- MCMonthOf
    WeekDay <- MCWeekDay
    Card = {d1, k1, m1}
    Text = {t1}
    Query = {q1}
    Hits <- MCHits
    Saves = {1}
    Person = {1, 2}
    Account = {1}
    Job = {1, 2}
    MaxCalls = 2
SPECIFICATION WebSpec
INVARIANTS
    WebTypeOK
    StoredIsLive
    ShownIsPolled
    ShownIsAsked
    NumbersTell
    FiguresAgree
PROPERTIES
    ScannedEnds
    LoadingEnds
    StepsKeepTheirWord
CHECK_DEADLOCK FALSE
