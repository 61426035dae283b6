CONSTANTS
    Order = {o1, o2}
    Overlap = 1
    InitialLookback = 2
    MaxLookback = 4
    MaxTime = 5
    Events <- AllEvents
SPECIFICATION FairSpec
INVARIANT WindowInv
PROPERTIES NextRunRecordsFill RecentFillRecorded PromptFillSettles
CHECK_DEADLOCK FALSE
