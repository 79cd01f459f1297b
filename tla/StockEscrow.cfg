CONSTANTS
    employer = employer
    worker = worker
    funder = funder
    asset = asset
    s1 = s1
    k1 = k1
    Escrow = Escrow
    Accounts <- MCAccounts
    Assets = {asset}
    Signers = {k1}
    Salts = {s1}
    Offers <- MCTwoOffers
    Amounts = {4}
    BPS = 2
    MaxFeeBps = 2
    MaxRiskAge = 1
    UsdcSupply <- MCUsdcSupply
    StockSupply <- MCStockSupply
    MaxTime = 1
    MaxPolicyVersion = 5
    MaxApprovals = 2
SPECIFICATION FairSpec
INVARIANT Backed
PROPERTIES DebtsPaidOnce ApprovedEarningsStayAssigned DeliveredUnderSeenPolicy EverybodyEventuallyPaid
