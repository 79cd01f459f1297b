CONSTANTS
    NumOffers = 2
    Passes = {p1, p2}
    MaxMishaps = 2
SPECIFICATION FairSpec
INVARIANTS NoncesSharedOnlyOnceSettled JournalTruthful
PROPERTIES OneJobAtATime EveryOfferSettled
