CONSTANTS
    a = a
    b = b
    ann = ann
    boss = boss
    People = {ann, boss}
    Boss = boss
    Tokens = 3
    Links = 2
    Sessions = {a, b}
    Serves <- Apart
    Budget <- DayBudget
    MayDie = {"hash", "claim", "insert", "token", "replace", "send", "burn", "password"}
    Customers = {ann}
    Browsers = {"hers", "his"}
    AttemptLimit = 2
    Free = {ann}
    Own = boss
    Person <- Seats
    Address <- Home
    DeskBudget <- Visits
    DeskEvents = 6
SPECIFICATION SpecBoth
INVARIANTS Isolated ResetLinks OldPasswordOut OwnerMarked
PROPERTY NothingTaken
CHECK_DEADLOCK FALSE
