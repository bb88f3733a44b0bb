CONSTANTS
  Nowhen = Nowhen
  SessionIds = {a, b}
  Handlers = {a, b}
  Times = {1, 2, 3, 5}
  Durations = {1, 3}
  Lookback = 3
  DayLength = 5
  SlotLength = 1
  Days = {0, 1}
  Rules <- MCRules
  a = a
  b = b
  Absent = Absent
  Logins = {a, b}
  MaxFailed = 5
  LockTime = 2
  LastTick = 6
  MaxTries = 7
  MailIds = {a, b}
  MailCalls = {a, b}
  MaxMishaps = 2
  People = {a, b}
  Rooms = {x}
  Txns = {a, b, c}
  RuleIds = {a, b}
  Weekdays = {1, 2}
  DayEnd = 2
  RuleCalls = {a, b}
  Booked = {s}
  Runs = {a, b}
  FromTime = 11
  ToTime = 14
  Cadence = 3
  LastTime = 20
  MaxKills = 1
  Taught = {a, b, c}
  Stars = {1, 5}
  Writers = {a, b}
  ReportIds = {rep}
  Moderators = {a, b}
  Notes = {note1, note2}
  MaxWrites = 2
  MaxRuns = 2
  MaxUses = 2
SPECIFICATION AllSpec
SYMMETRY Alike
INVARIANTS
  TypesOK
  LookbackSuffices
  SameKindApart
  SlotsCanBeBooked
  LockoutExact
  MailUsedOnce
  DeadlocksAreUpgrades
  ActiveRulesApart
  RemindedOnce
  NobodyForgotten
  RatingExactWhenAlone
  NoteKept
  RerunRepairs
CHECK_DEADLOCK FALSE
