CONSTANTS
    Owners = {s1, s2, s3}
    Durations = {1, 2}
    CohortInterval = 2
    MinimumDeposit = 20
    Amounts = {20, 50}
    MaxPositions = 3
    MaxPrincipal = 50
    LastCohort = 2
    MaxTime = 6
SPECIFICATION Spec
INVARIANTS BooksBalance ClaimsAlwaysCovered FairInAnyOrder
PROPERTY KeepsPromise
SYMMETRY MCSymmetry
CHECK_DEADLOCK FALSE
