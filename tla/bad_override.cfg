SPECIFICATION Spec
CONSTANTS
    Items = {1}
    Variants = {v1}
    NoVariant = NoVariant
    Raw = Raw
    Slab = Slab
    Markets = {200}
    Typed = {50}
    Rules <- ByMarket
    Prefs = {"rule"}
    Floors = {150}
    Sessions = {s1}
    MaxAsked = 4
    Offered = {"add", "save", "all"}
    Market0 <- RawOnly
    MayDie = {}
PROPERTY OwnPriceKept
CHECK_DEADLOCK FALSE
