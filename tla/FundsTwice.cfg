CONSTANTS
    Syncer = {cron}
    Amount = {2}
    Price = {1, 2}
    Opening = 3
    OpeningWorth = 1
    Threshold = 0
    TombstoneDays = 1
    MaxTime = 4
    MaxDeletes = 1
    LastDelete = 2
SPECIFICATION Spec
INVARIANT ReportedOnce
CHECK_DEADLOCK FALSE
