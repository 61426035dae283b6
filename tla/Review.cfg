CONSTANTS
    t1 = t1
    t2 = t2
    near = near
    deep = deep
    lost = lost
    top = top
    None = None
    GapOrder <- TwoTickers
    Level = {near, deep, lost, top}
    LevelType <- Types
    LevelPrice <- Prices
    HalfCent = 2
    Close = 83
    KnownSet <- OnlyFirst
    Gap <- Gaps
    Cash = {350}
    CashFloor = 100
    MaxDistance = 15
    Fraction = {4}
    Multiplier = {2}
    SizeMin = 1
    SizeMax = 6
    CriticQty = {1}
    CriticPrice = {73}
    ScoredSet <- AllOrNone
    Runner = {cron}
    MaxRuns = 2
SPECIFICATION Spec
INVARIANTS TypeOK TextOfItsRow DraftsWithinFloor OneDraftPerOrder LimitOnItsSide
PROPERTIES AnsweredRowFrozen
CHECK_DEADLOCK FALSE
