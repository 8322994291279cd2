CONSTANTS
    r1 = r1
    r2 = r2
    a = a
    b = b
    x = x
    NoRow = NoRow
    NoRef = NoRef
    Rows <- TwoRows
    RowsOf <- RowsBySku
    Stock <- ThreeAndTwo
    Baskets <- TypedEither
    Refs = {x}
    BasketOf <- BuysB
    Sessions = {a, b}
    Serves <- FetchAndShip
    Budget <- FlowBudget
    MayDie = {"fetch", "ship"}
    Imports = 1
SPECIFICATION SpecBoth
INVARIANTS StockMatchesShipped ImportedOnce EbayStockTrue LinesInOrders
PROPERTY FulfilmentSpec
CHECK_DEADLOCK FALSE
