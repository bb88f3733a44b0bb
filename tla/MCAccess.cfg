CONSTANTS
  Skills = {k1}
  Categories = {music}
  Servers = {i1, i2}
  Fills = {f1, f2}
  MaxChanges = 2
  RoleCalls = {a1, a2}
  MaxSent = 2
SPECIFICATION Spec
INVARIANTS
  DecidedOnce
PROPERTIES
  CacheConverges
  RoleTakesHold
CHECK_DEADLOCK FALSE
