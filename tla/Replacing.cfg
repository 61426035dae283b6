CONSTANTS
  AAA = AAA
  s1 = s1
  s2 = s2
  w1 = w1
  w2 = w2
  None = None
  Suggestion = {s1, s2}
  Ticker = {AAA}
  TickerOf <- OneTicker
  WeekOf <- TwoWeeks
  Worker = {w1}
  Duty <- Replacing
  MaxReplace = 1
  MaxClock = 3
  Faults = {}
SPECIFICATION Spec
INVARIANTS OneWorkingPerTicker
PROPERTIES DryRunNeverTouchesBroker
CHECK_DEADLOCK FALSE
