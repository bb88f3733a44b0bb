CONSTANTS
  TokenIds = {1, 2, 3}
  TokenCalls = {c1, c2}
  MaxVersion = 2
SPECIFICATION TokenSpec
SYMMETRY CallsAlike
INVARIANTS
  UsableKnowsPassword
  BurntFamilyUnusable
  OneLivePerFamily
  DeletedStaysOut
CHECK_DEADLOCK FALSE
