CONSTANTS
    Workers = {w1, w2}
    Funder = funder
    NoSender = nobody
    PageSize = 3
    ReorgDepth = 1
    MaxReorgs = 2
    MaxFailures = 1
    MaxQuiet = 3
SPECIFICATION FairSettlementSpec
INVARIANTS CheckpointCoversSettlement EvidenceIsCanonical
PROPERTY EveryRepaymentRecorded
CHECK_DEADLOCK FALSE
