CONSTANTS
    Ticker = {t1}
    Article = {a1}
    Runner = {cron, admin}
    MaxTier = 2
    LastWeek = 1
    MaxChanges = 2
    Sparse = 3
    TavilyCap = 1
    None = None
SPECIFICATION FairSpec
INVARIANTS TypeOK WebNewsStaysOut SearchesBounded
PROPERTIES AnnouncedOnce LadderCatchesUp
CHECK_DEADLOCK FALSE
