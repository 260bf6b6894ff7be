SPECIFICATION Spec
CONSTANTS
    TCS_THRESHOLD = 1000
    TCS_RATE = 1
    o1 = o1
    o2 = o2
    Deals = {d1, d2, d3}
    Orgs = {o1, o2}
    Phones = {p1}
    Salespeople = {s1}
    Quotes <- SmallQuotes
    OrgConfig <- TwoOrgs
    MAX_DAILY_DEALS_PER_PHONE = 2
    MAX_HOURLY_DEALS_PER_SALESPERSON = 1
    HOUR = 0
    DAY = 2
    MAX_CLOCK = 2
SYMMETRY Symmetry
INVARIANTS
    TypeOK
    PendingDealQueued
    DecidedLeavesQueues
    HistoryTellsVerdict
    DirectorSignsAboveLimit
    ActivePhonesDistinct
    FraudWindowsRespected
PROPERTIES
    TrashKeepsWorkflow
    ImplementsAuthority
