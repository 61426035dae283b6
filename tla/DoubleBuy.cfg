CONSTANTS
  AAA = AAA
  s1 = s1
  s2 = s2
  w1 = w1
  w2 = w2
  None = None
  Suggestion = {s1}
  Ticker = {AAA}
  TickerOf <- OneTicker
  WeekOf <- SameWeek
  Worker = {w1}
  Duty <- Serial
  MaxReplace = 1
  MaxClock = 0
  Faults = {}
SPECIFICATION Spec
INVARIANT NeverBuysTwice
CHECK_DEADLOCK FALSE
