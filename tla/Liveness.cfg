CONSTANTS
  AAA = AAA
  s1 = s1
  s2 = s2
  w1 = w1
  w2 = w2
  None = None
  Suggestion = {s1}
  Ticker = {AAA}
  TickerOf <- OneTicker
  WeekOf <- SameWeek
  Worker = {w1, w2}
  Duty <- SettlingCronAndWeb
  MaxReplace = 0
  MaxClock = 3
  Faults = {"submit", "readback"}
SPECIFICATION FairSpec
PROPERTIES TransactionEnds StaleSuggestionExpires DeadOrderRowSettles
CHECK_DEADLOCK FALSE
