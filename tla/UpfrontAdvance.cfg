CONSTANTS
    t1 = t1
    Offers = {o1, o2}
    Agreements = {a1, a2}
    Funders = {f1}
    Keys = {k1, k2}
    ServerKey = k1
    Terms = {t1}
    OfferTerms <- MCOfferTerms
    AgreementTerms <- MCAgreementTerms
    ProtectedOf <- MCProtectedOf
    DeadlineOf <- MCDeadlineOf
    UnderwrittenUntil <- MCUnderwrittenUntil
    MaxAdvanceBps = 8
    BPS = 10
    FeeBps = 3
    StandardFeeBps = 1
    PlatformShareBps = 2
    AttestationLife = 1
    MaxAttestationAge = 2
    MaxProtectionWindow = 3
    MinRemaining = 1
    AdvanceAmounts = {2, 4}
    MaxTime = 3
    MaxSigned = 2
    MaxAsked = 1
    MaxSplits = 1
    MaxRotated = 1
SPECIFICATION Spec
INVARIANTS MoneyCovered RepaidAsAgreed SignedTermsFundable RefundAlwaysOpen
PROPERTIES ReleasesWereProtected KeepsPromise
SYMMETRY MCSymmetry
