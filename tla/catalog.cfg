SPECIFICATION FairLibrarySpec
CONSTANTS
    Groups = {"g1"}
    Products = {"p1", "p2"}
    GroupOf <- OneGroup
    NameOf <- Names
    NumberOf <- Numbers
    Finishes = {"normal", "foil"}
    Normal = "normal"
    Rank <- Ranks
    Images = {"s", "t", "u"}
    NoImage = NoImage
    TcgImages = {"t", "u"}
    Ids = {1, 2, 3}
    SeededSets = {"g1"}
    SeededCards <- Seed
    Listings <- ThreeListings
    Mirrors <- BothListed
    MaxEvents = 3
    Gone = {"u"}
    Photos <- Looks
    Excluded = {}
    TextScores = {99}
    Steady = TRUE
INVARIANTS RecordedWhole OnlyGone
PROPERTIES ImportEnds
CHECK_DEADLOCK FALSE
