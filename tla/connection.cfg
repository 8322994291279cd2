CONSTANTS
    tab = tab
    hook = hook
    ann = ann
    ben = ben
    acme = acme
    shop = shop
    Sellers = {ann, ben}
    Members = {acme, shop}
    SignsIn <- Moves
    OnePolicy = {acme}
    Orders = {"o1"}
    BuyerOf <- OwnBuyer
    States = {"t1", "t2"}
    Sessions = {tab, hook}
    Serves <- Served
    Budget <- FlowBudget
    OneAtATime = TRUE
SPECIFICATION FairSpec
INVARIANTS OneMember Forgotten
PROPERTY EventuallyForgotten
CHECK_DEADLOCK FALSE
