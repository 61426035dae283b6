CONSTANTS
    Syncer = {cron, admin}
    Amount = {2}
    Price = {1, 2}
    Opening = 0
    OpeningWorth = 1
    Threshold = 0
    TombstoneDays = 1
    MaxTime = 4
    MaxDeletes = 1
    LastDelete = 2
SPECIFICATION Spec
INVARIANTS TypeOK EventExact
PROPERTIES IdentityKept PositionsFollow
SYMMETRY Syncers
CHECK_DEADLOCK FALSE
