CONSTANTS
  AAA = AAA
  s1 = s1
  s2 = s2
  w1 = w1
  w2 = w2
  None = None
  Suggestion = {s1}
  Ticker = {AAA}
  TickerOf <- OneTicker
  WeekOf <- SameWeek
  Worker = {w1, w2}
  Duty <- CronAndWeb
  MaxReplace = 1
  MaxClock = 0
  Faults <- AllFaults
SPECIFICATION Spec
INVARIANTS TypeOK AtMostOneWorking WorkingOrderTracked LostOrderIsNext FilledMeansExecuted
PROPERTIES StopFreezesOrders
CHECK_DEADLOCK FALSE
