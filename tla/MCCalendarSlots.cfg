CONSTANTS
  x1 = x1
  x2 = x2
  x3 = x3
  h1 = h1
  Nowhen = Nowhen
  SessionIds = {x1}
  Handlers = {h1}
  Times = {1, 2, 3, 5}
  Durations = {1, 3}
  Lookback = 3
  DayLength = 5
  SlotLength = 1
  Days = {0, 1}
  Rules <- MCRules
SPECIFICATION Spec
INVARIANT SlotsAreFree
