CONSTANTS
    clock = clock
    browser = browser
    acme = acme
    other = other
    Sellers = {1}
    Accounts = {acme, other}
    MayConnect <- OneEach
    Orders = {"o1"}
    AccountOf <- OneSale
    Feed = {"f1"}
    SourceOf <- Uploads
    Keyed = {}
    Sessions = {clock, browser}
    Clock = clock
    Serves <- Served
    Budget <- ArchiveBudget
    Overlap = 2
    Backfill = 4
    Late = 1
    Slow = 1
    LastDay = 3
SPECIFICATION FairSpec
INVARIANTS NoneOutOfReach OnlyPaid SameSaleOnce
PROPERTY PaidIsArchived
CHECK_DEADLOCK FALSE
