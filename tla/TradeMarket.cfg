CONSTANTS
    Listings = {l1}
    Buyers = {b1, b2}
    Offers = {o1, o2}
    NoThread = NoThread
    MaxRevision = 3
    MaxCalls = 2
SPECIFICATION MarketSpec
INVARIANTS OneDealPerItem PaidOffersStand
PROPERTY KeepsSales
SYMMETRY Symmetry
CHECK_DEADLOCK FALSE
