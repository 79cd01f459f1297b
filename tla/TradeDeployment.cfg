CONSTANTS
    Buyer = buyer
    Seller = seller
    Arbiter = arbiter
    Others = {other}
    Amount = 3
    Amounts = {1, 3, 4}
    Evidence = {e1}
    FundBy = 1
    DispatchWindow = 1
    DeliveryWindow = 1
    InspectionWindow = 1
    MaxTime = 4
    MaxProposals = 2
    MaxDonated = 1
    IndexScale = 2
    Indexes = {2, 3}
    Tokens = {t1, t2}
SPECIFICATION FairSpec
INVARIANTS ListMirrorsApprovals FundsSafe AgreementsAreMutual
PROPERTIES KeepsPromise FundsEventuallyLeave
CHECK_DEADLOCK FALSE
