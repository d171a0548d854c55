CONSTANT MaxForeign = 3
CHECK_DEADLOCK FALSE
SPECIFICATION RunSpec
INVARIANTS
    FinalStateTruthful
    AcceptedCancelWins
    DestroysOnlyReviewed
    StagingAccountedFor
