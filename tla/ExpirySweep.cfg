CONSTANTS
  AAA = AAA
  s1 = s1
  s2 = s2
  w1 = w1
  w2 = w2
  None = None
  Suggestion = {s1}
  Ticker = {AAA}
  TickerOf <- OneTicker
  WeekOf <- SameWeek
  Worker = {w1}
  Duty <- Serial
  MaxReplace = 1
  MaxClock = 3
  Faults = {}
SPECIFICATION Spec
INVARIANT ExpiredOrderCancelled
CHECK_DEADLOCK FALSE
