CONSTANTS
    Thread = {w1, w2}
    Tasks = 5
    Cap = 1
    MaxCost = 1
    MaxAttempts = 2
    LastDay = 1
SPECIFICATION FairSpec
INVARIANTS TypeOK OvershootBounded DayCostBounded
PROPERTIES EveryTaskEnds BudgetKept
CHECK_DEADLOCK FALSE
