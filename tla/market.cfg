CONSTANTS
    SetOrder <- TwoSets
    SetName <- SetNames
    Groups = {"g1", "g2", "g3"}
    GroupName <- GroupNames
    Cards = {"hooh", "lugia", "mew"}
    SetOf <- Homes
    CardName <- CardNames
    CardNumber <- CardNumbers
    Products = {"p1", "p2", "p3", "p4"}
    GroupOf <- ProductGroups
    ProductName <- ProductNames
    ProductNumber <- ProductNumbers
    SubTypes = {"normal", "1st edition", "1st edition normal"}
    FinishOf <- SubTypeFinish
    Mirrors <- TwoMirrors
    FirstRows <- SeededRows
    FirstFinishes <- Seeded
    Days = 1
    Syncs = 2
    Changes = 1
    Faults = 1
    Queries <- Texts
    GameOf <- GamesOf
    RarityOf <- Rarities
    WordsOf <- Words
    CloseTo <- Near
    Ranges <- PriceRanges
    PageSize = 2
    Values <- Typed
    EnvVars <- Settings
    Valid <- Keysets
    Patches <- Forms
    Searches = {s1, s2}
    Phrases = {"ho-oh", "lugia"}
    MaxCache = 1
    LiveBudget <- Budgets
SYMMETRY SearchSymmetry
SPECIFICATION Spec
INVARIANTS OncePerDay SetPriced FacetsHonest NothingStale
CHECK_DEADLOCK FALSE
