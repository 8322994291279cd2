SPECIFICATION Spec
CONSTANTS
    Items = {1, 2}
    Variants = {v1, v2}
    NoVariant = NoVariant
    Raw = Raw
    Slab = Slab
    Markets = {60, 200}
    Typed = {50}
    Rules <- TwoRules
    Prefs = {"rule", "previous_first"}
    Floors = {150}
    Sessions = {s1}
    MaxAsked = 4
    Offered <- Kinds
    Market0 <- RawOnly
    MayDie = {"saveRead", "allItem"}
INVARIANTS OverrideIsTyped PriceOfPrinting
CHECK_DEADLOCK FALSE
SYMMETRY Alike
