CONSTANTS
    clock = clock
    seller = seller
    Listings = {1, 2}
    MaxAttempts = 3
    Clock = clock
    Sessions = {clock, seller}
    MaxOffers = 3
    Worlds <- TwoWorlds
    Rows = {r1}
    Desks = {d1, d2}
    MaxListings = 2
    MaxRequests = 3
    Starts = {10}
    Gap = 5
    Overrides = {5, 30}
    Budget = 24
    Printings <- Cards
    Copies <- RawAndGraded
    Structures <- Layouts
    Templates <- Fillings
SPECIFICATION FairAll
INVARIANTS StatusMatchesEbay OneOffer ListedHasDraft NameKept
PROPERTIES DueHandled ExportTrue
CHECK_DEADLOCK FALSE
